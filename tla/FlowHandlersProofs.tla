------------------------- MODULE FlowHandlersProofs -------------------------
(***************************************************************************)
(* Theorems about FlowHandlers: for any variables, forms and functions,    *)
(* however deeply nested, what the visitor makes of a file and what the    *)
(* run deserves differ only where a named shortcut was taken on the way.   *)
(***************************************************************************)
EXTENDS FlowHandlers, WellFoundedInduction, SequenceTheorems, TLAPS

-----------------------------------------------------------------------------
(***************************************************************************)
(* The inductive invariant, in parts.                                      *)
(***************************************************************************)
Frames == UNION {[D -> {"data", "lost", "nothing"}] : D \in SUBSET Names}
Inits == UNION {[D -> Names] : D \in SUBSET Names}
Visitor == [scopes : Seq(SUBSET Names), suppress : Seq(BOOLEAN), inits : Inits, handlers : SUBSET FnNames, asleep : Nat]

WalkType ==
  /\ walk \in Visitor /\ Len(walk.suppress) = Len(walk.scopes)
  /\ Len(walk.scopes) + walk.asleep = Len(env) /\ (env # <<>> => walk.scopes # <<>>)
RunType ==
  /\ env \in Seq(Frames) /\ at \in 0..Len(env) /\ trusted \in BOOLEAN
  /\ \A l \in links : l.says[1] \in 1..Len(env) /\ l.says[2] \in Names /\ l.of[1] \in 1..Len(env) /\ l.of[2] \in Names
NoticeType ==
  /\ noticed \in [write : 0..2, returned : BOOLEAN]
  /\ due \in [here : BOOLEAN, write : 0..2, returned : BOOLEAN]
  /\ excused \subseteq {"miss", "cry"}
TypeInv == WalkType /\ RunType /\ NoticeType

\* The function o is the one whose n is meant; what n holds in the function d.
Owns(e, o, n) == o \in DOMAIN e /\ n \in DOMAIN e[o] /\ \A d \in DOMAIN e : n \in DOMAIN e[d] => d <= o
Data(e, d, n) == n \in DOMAIN e[d] /\ e[d][n] = "data"

\* Of the functions the run is in, each one's scope has the data it holds ...
Caught(w, e, a) == \A d \in DOMAIN w.scopes : d <= a => \A n \in Names : Data(e, d, n) => n \in w.scopes[d]
\* ... and only names of data, which no variable further in hides.
Founded(w, e, a) ==
  \A d \in DOMAIN w.scopes : d <= a => \A n \in w.scopes[d] : \E j \in 1..d : Data(e, j, n)
Unhidden(e) == \A i, j \in DOMAIN e : i < j => \A n \in DOMAIN e[j] : ~Data(e, i, n)

\* A validator the visitor has noted is one the run has, of the same variable ...
Noted(w, e, l, a) ==
  e # <<>> /\ w.asleep = 0 =>
    \A n \in DOMAIN w.inits :
      /\ n \in DOMAIN e[Len(e)]
      /\ a = Len(e) => \E k \in l : k.says = <<Len(e), n>> /\ k.of = <<k.of[1], w.inits[n]>> /\ Owns(e, k.of[1], k.of[2])
\* ... and those the run has are the innermost function's, and noted.
Linked(w, e, l, a) ==
  \A k \in l :
    /\ k.says[1] >= Len(w.scopes) /\ k.says[2] \in DOMAIN e[k.says[1]]
    /\ k.says[1] = Len(w.scopes) /\ k.says[1] <= a =>
         k.says[2] \in DOMAIN w.inits /\ k.of[2] = w.inits[k.says[2]]

Suppressed(w) == \E i \in DOMAIN w.suppress : w.suppress[i]
MissInv ==
  "miss" \notin excused =>
    /\ trusted \/ ~Suppressed(walk)
    /\ Caught(walk, env, at) /\ Noted(walk, env, links, at)
CryInv == "cry" \notin excused => Founded(walk, env, at) /\ Unhidden(env) /\ Linked(walk, env, links, at)
TrustInv == trusted /\ env # <<>> => walk.suppress[1]
HandlerInv == TypeInv /\ MissInv /\ CryInv /\ TrustInv

-----------------------------------------------------------------------------
(***************************************************************************)
(* Functions, sequences and the largest number.                            *)
(***************************************************************************)
LEMMA FrontOf ==
  ASSUME NEW S, NEW s \in Seq(S), s # <<>>
  PROVE  /\ Len(s) \in Nat \ {0} /\ Last(s) = s[Len(s)] /\ Last(s) \in S
         /\ Front(s) \in Seq(S) /\ Len(Front(s)) = Len(s) - 1 /\ DOMAIN Front(s) = 1..Len(s) - 1
         /\ \A i \in 1..Len(s) - 1 : Front(s)[i] = s[i]
<1>1. Len(s) \in Nat \ {0} /\ Len(s) \in 1..Len(s)
  BY EmptySeq
<1>2. \A i \in 1..Len(s) : s[i] \in S
  BY ElementOfSeq
<1> DEFINE n == Len(s) - 1
<1>3. n \in Nat /\ 1 \in Int /\ n \in Int /\ \A i \in 1..n : s[i] \in S
  BY <1>1, <1>2
<1> HIDE DEF n
<1>4. /\ SubSeq(s, 1, n) \in Seq(S)
      /\ Len(SubSeq(s, 1, n)) = (IF 1 <= n THEN n - 1 + 1 ELSE 0)
      /\ \A i \in 1..(n - 1 + 1) : SubSeq(s, 1, n)[i] = s[1 + i - 1]
  BY <1>3, SubSeqProperties
<1>5. Len(SubSeq(s, 1, n)) = n /\ \A i \in 1..n : SubSeq(s, 1, n)[i] = s[i]
  BY <1>3, <1>4
<1>6. DOMAIN SubSeq(s, 1, n) = 1..n
  BY <1>4, <1>5
<1> QED BY <1>1, <1>2, <1>4, <1>5, <1>6 DEF Front, Last, n

LEMMA WithIs ==
  ASSUME NEW f, NEW n, NEW v
  PROVE  /\ DOMAIN With(f, n, v) = DOMAIN f \cup {n}
         /\ \A x \in DOMAIN f \cup {n} : With(f, n, v)[x] = IF x = n THEN v ELSE f[x]
BY DEF With

LEMMA FrameIs ==
  ASSUME NEW f
  PROVE  /\ f \in Frames <=> f = [n \in DOMAIN f |-> f[n]] /\ DOMAIN f \subseteq Names /\ \A n \in DOMAIN f : f[n] \in {"data", "lost", "nothing"}
         /\ f \in Inits <=> f = [n \in DOMAIN f |-> f[n]] /\ DOMAIN f \subseteq Names /\ \A n \in DOMAIN f : f[n] \in Names
BY DEF Frames, Inits

LEMMA WithTyped ==
  ASSUME NEW n \in Names, NEW v
  PROVE  /\ \A f \in Frames : v \in {"data", "lost", "nothing"} => With(f, n, v) \in Frames
         /\ \A f \in Inits : v \in Names => With(f, n, v) \in Inits
<1>1. ASSUME NEW f \in Frames, v \in {"data", "lost", "nothing"} PROVE With(f, n, v) \in Frames
  <2>1. DOMAIN f \subseteq Names /\ \A x \in DOMAIN f : f[x] \in {"data", "lost", "nothing"}
    BY FrameIs
  <2>2. With(f, n, v) \in [DOMAIN f \cup {n} -> {"data", "lost", "nothing"}]
    BY <1>1, <2>1 DEF With
  <2> QED BY <2>1, <2>2 DEF Frames
<1>2. ASSUME NEW f \in Inits, v \in Names PROVE With(f, n, v) \in Inits
  <2>1. DOMAIN f \subseteq Names /\ \A x \in DOMAIN f : f[x] \in Names
    BY FrameIs
  <2>2. With(f, n, v) \in [DOMAIN f \cup {n} -> Names]
    BY <1>2, <2>1 DEF With
  <2> QED BY <2>1, <2>2 DEF Inits
<1> QED BY <1>1, <1>2

LEMMA NoneTyped == <<>> \in Frames /\ <<>> \in Inits /\ DOMAIN <<>> = {}
<1>1. DOMAIN <<>> = {} /\ <<>> \in [{} -> Names] /\ <<>> \in [{} -> {"data", "lost", "nothing"}]
  OBVIOUS
<1> QED BY <1>1 DEF Frames, Inits

\* A set of natural numbers with a bound has a largest.
LEMMA Largest ==
  ASSUME NEW k \in Nat, NEW T, T \subseteq 0..k, T # {}
  PROVE  Max(T) \in T /\ \A y \in T : y <= Max(T)
<1> DEFINE Gaps == {k - t : t \in T}
<1>1. Gaps \subseteq Nat /\ Gaps # {}
  OBVIOUS
<1>2. PICK g \in Gaps : \A h \in Gaps : ~ (<<h, g>> \in OpToRel(<, Nat))
  BY <1>1, NatLessThanWellFounded, WFMin
<1>3. PICK m \in T : g = k - m
  BY <1>2
<1>4. \A t \in T : k - t \in Gaps /\ ~(k - t < k - m)
  BY <1>1, <1>2, <1>3 DEF OpToRel
<1>5. m \in T /\ \A y \in T : m >= y
  BY <1>4
<1> HIDE DEF Gaps
<1>6. Max(T) \in T /\ \A y \in T : Max(T) >= y
  BY <1>5 DEF Max
<1> QED BY <1>6

LEMMA SmallerOf ==
  ASSUME NEW a \in Int, NEW b \in Int
  PROVE  Min({a, b}) = IF a < b THEN a ELSE b
<1> DEFINE m == IF a < b THEN a ELSE b
<1>1. m \in {a, b} /\ \A y \in {a, b} : m <= y
  OBVIOUS
<1>2. \A x \in {a, b} : (\A y \in {a, b} : x <= y) => x = m
  OBVIOUS
<1> QED BY <1>1, <1>2 DEF Min

-----------------------------------------------------------------------------
(***************************************************************************)
(* What the visitor's operations do to its scopes.                         *)
(***************************************************************************)
\* v is w with `top` for the innermost scope.
Topped(v, w, top) ==
  /\ v \in Visitor /\ v.suppress = w.suppress /\ v.handlers = w.handlers /\ v.asleep = w.asleep
  /\ Len(v.scopes) = Len(w.scopes) /\ DOMAIN v.scopes = DOMAIN w.scopes
  /\ \A d \in DOMAIN w.scopes : v.scopes[d] = IF d = Len(w.scopes) THEN top ELSE w.scopes[d]

LEMMA TopIs ==
  ASSUME NEW w \in Visitor, w.scopes # <<>>
  PROVE  /\ Len(w.scopes) \in Nat \ {0} /\ DOMAIN w.scopes = 1..Len(w.scopes)
         /\ w.scopes[Len(w.scopes)] \in SUBSET Names
<1>1. w.scopes \in Seq(SUBSET Names)
  BY DEF Visitor
<1>2. Len(w.scopes) \in Nat /\ DOMAIN w.scopes = 1..Len(w.scopes) /\ Len(w.scopes) # 0
  BY <1>1, EmptySeq
<1>3. Len(w.scopes) \in 1..Len(w.scopes)
  BY <1>2
<1> QED BY <1>1, <1>2, <1>3, ElementOfSeq

LEMMA TaintIs ==
  ASSUME NEW w \in Visitor, w.scopes # <<>>, NEW n \in Names
  PROVE  Topped(Taint(w, n), w, w.scopes[Len(w.scopes)] \cup {n}) /\ Taint(w, n).inits = w.inits
<1>1. /\ Len(w.scopes) \in Nat \ {0} /\ DOMAIN w.scopes = 1..Len(w.scopes)
      /\ w.scopes[Len(w.scopes)] \in SUBSET Names
  BY TopIs
<1>2. w.scopes \in Seq(SUBSET Names)
  BY DEF Visitor
<1> DEFINE s == [w.scopes EXCEPT ![Len(w.scopes)] = @ \cup {n}]
<1>3. s \in Seq(SUBSET Names) /\ Len(s) = Len(w.scopes) /\ DOMAIN s = DOMAIN w.scopes
  BY <1>1, <1>2
<1>4. \A d \in DOMAIN w.scopes : s[d] = IF d = Len(w.scopes) THEN w.scopes[d] \cup {n} ELSE w.scopes[d]
  BY <1>1
<1>5. Taint(w, n) = [w EXCEPT !.scopes = s]
  BY DEF Taint
<1> HIDE DEF s
<1> QED BY <1>3, <1>4, <1>5 DEF Visitor, Topped

LEMMA ForgetIs ==
  ASSUME NEW w \in Visitor, w.scopes # <<>>, NEW gone
  PROVE  Topped(Forget(w, gone), w, w.scopes[Len(w.scopes)] \ gone) /\ Forget(w, gone).inits = w.inits
<1>1. /\ Len(w.scopes) \in Nat \ {0} /\ DOMAIN w.scopes = 1..Len(w.scopes)
      /\ w.scopes[Len(w.scopes)] \in SUBSET Names
  BY TopIs
<1>2. w.scopes \in Seq(SUBSET Names)
  BY DEF Visitor
<1> DEFINE s == [w.scopes EXCEPT ![Len(w.scopes)] = @ \ gone]
<1>3. s \in Seq(SUBSET Names) /\ Len(s) = Len(w.scopes) /\ DOMAIN s = DOMAIN w.scopes
  BY <1>1, <1>2
<1>4. \A d \in DOMAIN w.scopes : s[d] = IF d = Len(w.scopes) THEN w.scopes[d] \ gone ELSE w.scopes[d]
  BY <1>1
<1>5. Forget(w, gone) = [w EXCEPT !.scopes = s]
  BY DEF Forget
<1> HIDE DEF s
<1> QED BY <1>3, <1>4, <1>5 DEF Visitor, Topped

\* A statement of the walk, in a function the visitor is in.
LEMMA DeclareIs ==
  ASSUME NEW w \in Visitor, w.scopes # <<>>, NEW n \in Names, NEW e \in Expressions
  PROVE  LET v == HandleVarDecl(w, n, e)
             top == w.scopes[Len(w.scopes)]
         IN  /\ Topped(v, w, IF ExprTaint(w, e) THEN top \cup {n} ELSE top)
             /\ v.inits = IF e.form = "validated" THEN With(w.inits, n, e.of) ELSE w.inits
<1> DEFINE noted == IF e.form = "validated" THEN [w EXCEPT !.inits = With(@, n, e.of)] ELSE w
<1>1. e.of \in Names
  BY DEF Expressions
<1>2. /\ noted \in Visitor /\ noted.scopes = w.scopes /\ noted.suppress = w.suppress /\ noted.handlers = w.handlers
      /\ noted.asleep = w.asleep /\ noted.inits = IF e.form = "validated" THEN With(w.inits, n, e.of) ELSE w.inits
  <2>1. w.inits \in Inits
    BY DEF Visitor
  <2>2. With(w.inits, n, e.of) \in Inits
    BY <1>1, <2>1, WithTyped
  <2> QED BY <2>2 DEF Visitor
<1>3. HandleVarDecl(w, n, e) = IF ExprTaint(w, e) THEN Taint(noted, n) ELSE noted
  BY DEF HandleVarDecl
<1> HIDE DEF noted
<1>4. CASE ExprTaint(w, e)
  <2>1. Topped(Taint(noted, n), noted, noted.scopes[Len(noted.scopes)] \cup {n}) /\ Taint(noted, n).inits = noted.inits
    BY <1>2, TaintIs
  <2> QED BY <1>2, <1>3, <1>4, <2>1 DEF Topped
<1>5. CASE ~ExprTaint(w, e)
  BY <1>2, <1>3, <1>5 DEF Topped
<1> QED BY <1>4, <1>5

LEMMA AssignIs ==
  ASSUME NEW w \in Visitor, w.scopes # <<>>, NEW n \in Names, NEW e \in Expressions
  PROVE  LET v == Assign(w, n, e)
             top == w.scopes[Len(w.scopes)]
         IN  Topped(v, w, IF ExprTaint(w, e) THEN top \cup {n} ELSE top \ {n}) /\ v.inits = w.inits
BY TaintIs, ForgetIs DEF Assign

LEMMA NarrowIs ==
  ASSUME NEW w \in Visitor, w.scopes # <<>>, NEW n \in Names, NEW test \in {"allow", "ok"}
  PROVE  LET v == Narrow(w, test, n)
             gone == IF test = "allow" THEN {n} ELSE IF n \in DOMAIN w.inits THEN {w.inits[n], n} ELSE {}
         IN  Topped(v, w, w.scopes[Len(w.scopes)] \ gone) /\ v.inits = w.inits
<1>1. CASE test = "allow"
  BY <1>1, ForgetIs DEF Narrow
<1>2. CASE test # "allow" /\ n \in DOMAIN w.inits
  BY <1>2, ForgetIs DEF Narrow
<1>3. CASE test # "allow" /\ n \notin DOMAIN w.inits
  BY <1>3 DEF Narrow, Topped
<1> QED BY <1>1, <1>2, <1>3

\* Entering and leaving a function.
LEMMA EnterIs ==
  ASSUME NEW w \in Visitor, NEW tainted \in SUBSET Names, NEW suppress \in BOOLEAN
  PROVE  LET v == EnterFn(w, tainted, suppress)
         IN  /\ v \in Visitor /\ v.handlers = w.handlers /\ v.asleep = w.asleep /\ DOMAIN v.inits = {}
             /\ v.scopes = Append(w.scopes, tainted) /\ v.suppress = Append(w.suppress, suppress)
             /\ Len(v.scopes) = Len(w.scopes) + 1 /\ Len(v.suppress) = Len(w.suppress) + 1
<1>1. w.scopes \in Seq(SUBSET Names) /\ w.suppress \in Seq(BOOLEAN)
  BY DEF Visitor
<1>2. /\ Append(w.scopes, tainted) \in Seq(SUBSET Names) /\ Len(Append(w.scopes, tainted)) = Len(w.scopes) + 1
      /\ Append(w.suppress, suppress) \in Seq(BOOLEAN) /\ Len(Append(w.suppress, suppress)) = Len(w.suppress) + 1
  BY <1>1
<1> QED BY <1>2, NoneTyped DEF EnterFn, Visitor

LEMMA ExitIs ==
  ASSUME NEW w \in Visitor, w.scopes # <<>>, Len(w.suppress) = Len(w.scopes)
  PROVE  LET v == ExitFn(w)
         IN  /\ v \in Visitor /\ v.handlers = w.handlers /\ v.asleep = w.asleep /\ v.inits = w.inits
             /\ v.scopes = Front(w.scopes) /\ v.suppress = Front(w.suppress)
             /\ Len(v.scopes) = Len(w.scopes) - 1 /\ Len(v.suppress) = Len(w.suppress) - 1
<1>1. w.scopes \in Seq(SUBSET Names) /\ w.suppress \in Seq(BOOLEAN)
  BY DEF Visitor
<1>2. w.suppress # <<>>
  BY <1>1, EmptySeq
<1>3. /\ Front(w.scopes) \in Seq(SUBSET Names) /\ Len(Front(w.scopes)) = Len(w.scopes) - 1
      /\ Front(w.suppress) \in Seq(BOOLEAN) /\ Len(Front(w.suppress)) = Len(w.suppress) - 1
  BY <1>1, <1>2, FrontOf
<1> QED BY <1>3 DEF ExitFn, Visitor

-----------------------------------------------------------------------------
(***************************************************************************)
(* The run's variables, and the two walks of an expression: away from the  *)
(* shortcuts what reads tainted is what holds data.                        *)
(***************************************************************************)
LEMMA DepthIs ==
  ASSUME RunType
  PROVE  /\ Depth \in Nat /\ DOMAIN env = 1..Depth /\ (env = <<>> <=> Depth = 0)
         /\ \A d \in 1..Depth : env[d] \in Frames
<1>1. env \in Seq(Frames)
  BY DEF RunType
<1> QED BY <1>1, EmptySeq, ElementOfSeq DEF Depth

LEMMA OwnerIs ==
  ASSUME RunType, NEW n, Bound(n)
  PROVE  Owner(n) \in 1..Depth /\ Owns(env, Owner(n), n)
<1> DEFINE T == {d \in DOMAIN env : n \in DOMAIN env[d]}
<1>1. T \subseteq 0..Depth /\ T # {} /\ Depth \in Nat
  BY DepthIs DEF Bound
<1>2. Owner(n) = Max(T)
  BY DEF Owner
<1>3. Max(T) \in T /\ \A y \in T : y <= Max(T)
  <2> HIDE DEF T
  <2> QED BY <1>1, Largest
<1> QED BY <1>2, <1>3, DepthIs DEF Owns

LEMMA OwnedOnce ==
  ASSUME RunType, NEW n, NEW o, Owns(env, o, n)
  PROVE  o = Owner(n) /\ o \in 1..Depth /\ Bound(n)
<1>1. Bound(n) /\ o \in 1..Depth
  BY DepthIs DEF Owns, Bound
<1>2. Owner(n) \in 1..Depth /\ Owns(env, Owner(n), n)
  BY <1>1, OwnerIs
<1>3. o <= Owner(n) /\ Owner(n) <= o
  BY <1>2 DEF Owns
<1> QED BY <1>1, <1>2, <1>3, DepthIs

LEMMA HoldsIs ==
  ASSUME RunType, NEW n
  PROVE  /\ Holds(n) \in {"data", "lost", "nothing"}
         /\ Holds(n) = "data" <=> \E o \in 1..Depth : Owns(env, o, n) /\ Data(env, o, n)
<1>1. CASE Bound(n)
  <2>1. Owner(n) \in 1..Depth /\ Owns(env, Owner(n), n)
    BY <1>1, OwnerIs
  <2>2. Holds(n) = env[Owner(n)][n] /\ n \in DOMAIN env[Owner(n)]
    BY <1>1, <2>1 DEF Holds, Owns
  <2>3. env[Owner(n)][n] \in {"data", "lost", "nothing"}
    BY <2>1, <2>2, DepthIs, FrameIs
  <2> QED BY <2>1, <2>2, <2>3, OwnedOnce DEF Data
<1>2. CASE ~Bound(n)
  BY <1>2, OwnedOnce DEF Holds
<1> QED BY <1>1, <1>2

\* A name whose variable does not hold data names none that does.
LEMMA NotHeld ==
  ASSUME RunType, Unhidden(env), NEW n, Holds(n) # "data"
  PROVE  \A d \in 1..Depth : ~Data(env, d, n)
<1> SUFFICES ASSUME NEW d \in 1..Depth, Data(env, d, n) PROVE FALSE
  OBVIOUS
<1>1. DOMAIN env = 1..Depth /\ Depth \in Nat
  BY DepthIs
<1>2. Bound(n)
  BY <1>1 DEF Bound, Data
<1>3. Owner(n) \in 1..Depth /\ Owns(env, Owner(n), n)
  BY <1>2, OwnerIs
<1>4. d <= Owner(n) /\ n \in DOMAIN env[Owner(n)]
  BY <1>1, <1>3 DEF Owns, Data
<1>5. d = Owner(n)
  <2>1. d \in DOMAIN env /\ Owner(n) \in DOMAIN env /\ d \in Int /\ Owner(n) \in Int
    BY <1>1, <1>3
  <2>2. ~(d < Owner(n))
    BY <1>4, <2>1 DEF Unhidden
  <2> QED BY <1>4, <2>1, <2>2
<1> QED BY <1>3, <1>5, HoldsIs

LEMMA TaintedHolds ==
  ASSUME TypeInv, MissInv, CryInv, Live, walk.asleep = 0, NEW n \in Names
  PROVE  /\ "miss" \notin excused => (Holds(n) = "data" => IsTainted(walk, n))
         /\ "cry" \notin excused => (IsTainted(walk, n) => Holds(n) = "data")
<1>1. RunType /\ WalkType
  BY DEF TypeInv
<1>2. DOMAIN walk.scopes = 1..Depth /\ DOMAIN env = 1..Depth /\ Depth \in Nat /\ at = Depth
  <2>1. walk.scopes \in Seq(SUBSET Names) /\ Len(walk.scopes) + walk.asleep = Depth
    BY <1>1 DEF WalkType, Visitor, Depth
  <2> QED BY <1>1, <2>1, DepthIs DEF Live
<1>3. ASSUME "miss" \notin excused, Holds(n) = "data" PROVE IsTainted(walk, n)
  <2>1. PICK o \in 1..Depth : Data(env, o, n)
    BY <1>1, <1>3, HoldsIs
  <2>2. Caught(walk, env, at)
    BY <1>3 DEF MissInv
  <2>3. n \in walk.scopes[o]
    BY <1>2, <2>1, <2>2 DEF Caught
  <2> QED BY <1>2, <2>3 DEF IsTainted
<1>4. ASSUME "cry" \notin excused, IsTainted(walk, n) PROVE Holds(n) = "data"
  <2>1. Founded(walk, env, at) /\ Unhidden(env)
    BY <1>4 DEF CryInv
  <2>2. PICK d \in 1..Depth : n \in walk.scopes[d]
    BY <1>2, <1>4 DEF IsTainted
  <2>3. PICK j \in 1..d : Data(env, j, n)
    BY <1>2, <2>1, <2>2 DEF Founded
  <2>4. Bound(n) /\ j \in 1..Depth
    BY <1>2, <2>2, <2>3 DEF Data, Bound
  <2>5. Owner(n) \in 1..Depth /\ Owns(env, Owner(n), n) /\ j <= Owner(n)
    BY <1>1, <1>2, <2>3, <2>4, OwnerIs DEF Owns, Data
  <2>6. j = Owner(n)
    BY <1>2, <2>1, <2>3, <2>4, <2>5 DEF Unhidden, Owns
  <2> QED BY <1>1, <2>3, <2>4, <2>5, <2>6, HoldsIs
<1> QED BY <1>3, <1>4

\* The three walks of an expression differ in the forms they follow.
Reads(w, e, followed) ==
  (e.form \in Sources /\ BodySourceActive(w)) \/ (e.form \in followed /\ IsTainted(w, e.of))
Walks == {Followed, ReadOnly, ReadOnly \cup {"filtered"}}

LEMMA ThreeWalks ==
  ASSUME NEW w, NEW e
  PROVE  /\ ExprTaint(w, e) <=> Reads(w, e, Followed)
         /\ ExprIsTaintedReadonly(w, e) <=> Reads(w, e, ReadOnly)
         /\ ReceiverTaintThroughChain(w, e) <=> Reads(w, e, ReadOnly \cup {"filtered"})
<1>1. "filtered" \notin Sources /\ "filtered" \notin ReadOnly
  BY DEF Sources, ReadOnly, Followed
<1> QED BY <1>1 DEF ExprTaint, ExprIsTaintedReadonly, ReceiverTaintThroughChain, Reads

LEMMA ActiveIs ==
  ASSUME NEW w \in Visitor
  PROVE  BodySourceActive(w) <=> ~Suppressed(w)
<1>1. w.suppress \in Seq(BOOLEAN)
  BY DEF Visitor
<1>2. \A i \in DOMAIN w.suppress : w.suppress[i] \in BOOLEAN
  BY <1>1, ElementOfSeq
<1> QED BY <1>2 DEF BodySourceActive, Suppressed, Range

LEMMA ValueIs ==
  ASSUME RunType, NEW e, NEW followed \in Walks
  PROVE  /\ Value(e, followed) \in {"data", "lost", "nothing"}
         /\ Value(e, followed) = "data" <=>
              (e.form \in Sources /\ ~trusted) \/ (e.form \in followed /\ Holds(e.of) = "data")
<1>1. /\ \A form \in followed : form \notin Sources /\ form \notin Clean
      /\ \A form \in Sources : form \notin Clean
  BY DEF Walks, Followed, ReadOnly, Sources, Clean
<1>2. Holds(e.of) \in {"data", "lost", "nothing"}
  BY HoldsIs
<1>3. CASE e.form \in Sources
  <2>1. Value(e, followed) = Body /\ e.form \notin followed
    BY <1>1, <1>3 DEF Value
  <2>2. CASE trusted
    BY <1>3, <2>1, <2>2 DEF Body
  <2>3. CASE ~trusted
    BY <1>3, <2>1, <2>3 DEF Body
  <2> QED BY <2>2, <2>3
<1>4. CASE e.form \notin Sources /\ e.form \in Clean
  BY <1>1, <1>4 DEF Value
<1>5. CASE e.form \notin Sources /\ e.form \notin Clean
  BY <1>2, <1>5 DEF Value
<1> QED BY <1>3, <1>4, <1>5

LEMMA ReadsAreValues ==
  ASSUME HandlerInv, Live, Depth > 0, walk.asleep = 0, NEW e \in Expressions, NEW followed \in Walks
  PROVE  /\ "miss" \notin excused => (Value(e, followed) = "data" => Reads(walk, e, followed))
         /\ "cry" \notin excused => (Reads(walk, e, followed) => Value(e, followed) = "data")
<1>1. RunType /\ WalkType /\ TypeInv /\ MissInv /\ CryInv /\ TrustInv /\ e.of \in Names
  BY DEF HandlerInv, TypeInv, Expressions
<1>2. BodySourceActive(walk) <=> ~Suppressed(walk)
  BY <1>1, ActiveIs DEF WalkType
<1>3. trusted => Suppressed(walk)
  <2>1. walk.scopes # <<>> /\ walk \in Visitor /\ Len(walk.suppress) = Len(walk.scopes) /\ env # <<>>
    BY <1>1, DepthIs DEF WalkType
  <2>2. 1 \in DOMAIN walk.suppress
    <3>1. Len(walk.scopes) \in Nat \ {0} /\ walk.suppress \in Seq(BOOLEAN)
      BY <2>1, TopIs DEF Visitor
    <3> QED BY <2>1, <3>1
  <2> QED BY <1>1, <2>1, <2>2 DEF TrustInv, Suppressed
<1>4. "miss" \notin excused => trusted \/ ~Suppressed(walk)
  BY <1>1 DEF MissInv
<1>5. /\ "miss" \notin excused => (Holds(e.of) = "data" => IsTainted(walk, e.of))
      /\ "cry" \notin excused => (IsTainted(walk, e.of) => Holds(e.of) = "data")
  BY <1>1, TaintedHolds
<1>6. Value(e, followed) = "data" <=>
        (e.form \in Sources /\ ~trusted) \/ (e.form \in followed /\ Holds(e.of) = "data")
  BY <1>1, ValueIs
<1> QED BY <1>2, <1>3, <1>4, <1>5, <1>6 DEF Reads

-----------------------------------------------------------------------------
(***************************************************************************)
(* One step.  What is noticed and owed is typed, the excuses are kept in   *)
(* a function, and the forms of a statement find their cases.              *)
(***************************************************************************)
LEMMA TierIs == \A S : Tier(S) \in 0..2
BY DEF Tier

LEMMA TierGrows ==
  ASSUME NEW S, NEW T, S \subseteq T
  PROVE  Tier(S) <= Tier(T)
<1>1. CASE S = {} \/ S = {"where"} \/ T = {}
  BY <1>1, TierIs DEF Tier
<1>2. CASE S # {} /\ S # {"where"} /\ T # {}
  <2>1. T # {"where"}
    BY <1>2
  <2> QED BY <1>2, <2>1 DEF Tier
<1> QED BY <1>1, <1>2

LEMMA SilenceIs == Silence = [write |-> 0, returned |-> FALSE]
BY DEF Silence

LEMMA NoticesTyped ==
  ASSUME NEW w, NEW s
  PROVE  Notices(w, s) \in [write : 0..2, returned : BOOLEAN]
<1>1. ClassifyDbSinkTaint(w, s.args) \in 0..2
  BY TierIs DEF ClassifyDbSinkTaint
<1>2. ExprTaint(w, s.expr) \in BOOLEAN
  BY DEF ExprTaint
<1>3. CASE w.asleep > 0
  BY <1>3, SilenceIs DEF Notices
<1>4. CASE ~(w.asleep > 0) /\ s.kind = "write"
  <2>1. Notices(w, s) = [write |-> IF s.place \in Scanned THEN ClassifyDbSinkTaint(w, s.args) ELSE 0, returned |-> FALSE]
    BY <1>4, SilenceIs DEF Notices
  <2> QED BY <1>1, <2>1
<1>5. CASE ~(w.asleep > 0) /\ s.kind = "return"
  BY <1>2, <1>5, SilenceIs DEF Notices
<1>6. CASE ~(w.asleep > 0) /\ s.kind # "write" /\ s.kind # "return"
  BY <1>6, SilenceIs DEF Notices
<1> QED BY <1>3, <1>4, <1>5, <1>6

LEMMA OwedTyped ==
  ASSUME NEW s
  PROVE  Owed(s) \in [here : BOOLEAN, write : 0..2, returned : BOOLEAN]
BY TierIs DEF Owed, Live

LEMMA StepNoticeType ==
  ASSUME TypeInv, NEW s, NEW goes, Walk(s, goes)
  PROVE  NoticeType'
<1>1. noticed' = Notices(walk, s) /\ due' = Owed(s) /\ excused' = (IF Depth = 0 THEN {} ELSE excused) \cup Shortcuts(s)
  BY DEF Walk
<1>2. excused' \subseteq {"miss", "cry"}
  BY <1>1 DEF Shortcuts, TypeInv, NoticeType
<1> QED BY <1>1, <1>2, NoticesTyped, OwedTyped DEF NoticeType

LEMMA Excuses ==
  ASSUME NEW s, NEW goes, Walk(s, goes)
  PROVE  /\ "miss" \notin excused' => ~MayMiss(s) /\ (Depth # 0 => "miss" \notin excused)
         /\ "cry" \notin excused' => ~MayCry(s) /\ (Depth # 0 => "cry" \notin excused)
<1>1. excused' = (IF Depth = 0 THEN {} ELSE excused) \cup Shortcuts(s)
  BY DEF Walk
<1>2. MayMiss(s) => "miss" \in Shortcuts(s)
  BY DEF Shortcuts
<1>3. MayCry(s) => "cry" \in Shortcuts(s)
  BY DEF Shortcuts
<1> QED BY <1>1, <1>2, <1>3

\* In a function the visitor is in, unless it is asleep.
LEMMA AwakeIs ==
  ASSUME TypeInv
  PROVE  /\ Len(walk.scopes) \in Nat /\ DOMAIN walk.scopes = 1..Len(walk.scopes) /\ walk.asleep \in Nat
         /\ Len(walk.scopes) + walk.asleep = Depth /\ Depth \in Nat
         /\ Depth # 0 => walk.scopes # <<>> /\ Len(walk.scopes) # 0
<1>1. WalkType /\ RunType /\ walk \in Visitor
  BY DEF TypeInv, WalkType
<1>2. walk.scopes \in Seq(SUBSET Names) /\ walk.asleep \in Nat
  BY <1>1 DEF Visitor
<1>3. Len(walk.scopes) + walk.asleep = Depth /\ (env # <<>> => walk.scopes # <<>>)
  BY <1>1 DEF WalkType, Depth
<1> QED BY <1>1, <1>2, <1>3, DepthIs, EmptySeq

LEMMA ReadableIs ==
  ASSUME NEW e \in Readable
  PROVE  e \in Expressions /\ e.of \in Names /\ (e.form \in Sources \cup Clean \/ Bound(e.of))
BY DEF Readable, Expressions

-----------------------------------------------------------------------------
(* A declaration.                                                           *)
Declares(n, e) ==
  /\ n \in Names /\ e \in Readable /\ Depth # 0 /\ n \notin DOMAIN Here /\ e.of # n
  /\ Walk([kind |-> "declare", name |-> n, expr |-> e], TRUE)
Held(e) == IF Live THEN Value(e, Followed) ELSE "nothing"

LEMMA DeclareDoes ==
  ASSUME TypeInv, NEW n, NEW e, Declares(n, e)
  PROVE  /\ Len(env') = Depth /\ env' \in Seq(Frames)
         /\ \A d \in 1..Depth : d # Depth => env'[d] = env[d]
         /\ env'[Depth] = With(env[Depth], n, Held(e))
         /\ at' = at /\ trusted' = trusted
         /\ links' = LinksAfter([kind |-> "declare", name |-> n, expr |-> e])
<1> DEFINE s == [kind |-> "declare", name |-> n, expr |-> e]
<1>1. s.kind = "declare" /\ s.name = n /\ s.expr = e
  OBVIOUS
<1>2. /\ env' = EnvAfter(s, TRUE) /\ at' = AtAfter(s, TRUE) /\ links' = LinksAfter(s) /\ trusted' = Trusts(s)
      /\ n \in Names /\ Depth # 0
  BY DEF Declares, Walk
<1> HIDE DEF s
<1>3. EnvAfter(s, TRUE) = [env EXCEPT ![Depth] = With(@, n, Held(e))]
  BY <1>1 DEF EnvAfter, Put, Held, Opens
<1>4. AtAfter(s, TRUE) = at /\ Trusts(s) = trusted
  BY <1>1, <1>2 DEF AtAfter, Trusts, Opens
<1>5. RunType /\ env \in Seq(Frames) /\ DOMAIN env = 1..Depth /\ Depth \in 1..Depth /\ Len(env) = Depth
  BY <1>2, DepthIs DEF TypeInv, RunType, Depth
<1>6. Held(e) \in {"data", "lost", "nothing"}
  BY <1>5, ValueIs DEF Held, Walks
<1>7. With(env[Depth], n, Held(e)) \in Frames
  BY <1>2, <1>5, <1>6, WithTyped, DepthIs
<1>8. env' = [env EXCEPT ![Depth] = With(env[Depth], n, Held(e))]
  BY <1>2, <1>3
<1>9. env' \in Seq(Frames) /\ Len(env') = Depth /\ env'[Depth] = With(env[Depth], n, Held(e))
  BY <1>5, <1>7, <1>8
<1>10. \A d \in 1..Depth : d # Depth => env'[d] = env[d]
  BY <1>5, <1>8
<1> QED BY <1>2, <1>4, <1>9, <1>10 DEF s

LEMMA DeclareVisits ==
  ASSUME TypeInv, NEW n, NEW e, Declares(n, e)
  PROVE  /\ walk.asleep > 0 => walk' = walk
         /\ walk.asleep = 0 =>
              /\ Topped(walk', walk, IF ExprTaint(walk, e) THEN walk.scopes[Depth] \cup {n} ELSE walk.scopes[Depth])
              /\ walk'.inits = IF e.form = "validated" THEN With(walk.inits, n, e.of) ELSE walk.inits
<1> DEFINE s == [kind |-> "declare", name |-> n, expr |-> e]
<1>1. s.kind = "declare" /\ s.name = n /\ s.expr = e
  OBVIOUS
<1>2. walk' = Visit(walk, s) /\ n \in Names /\ e \in Expressions /\ Depth # 0 /\ walk \in Visitor
  BY ReadableIs DEF Declares, Walk, TypeInv, WalkType
<1> HIDE DEF s
<1>3. CASE walk.asleep > 0
  <2>1. Visit(walk, s) = [walk EXCEPT !.asleep = walk.asleep]
    <3>1. s.kind \notin Opens /\ s.kind # "exit"
      BY <1>1 DEF Opens
    <3> QED BY <1>3, <3>1 DEF Visit
  <2> QED BY <1>2, <1>3, <2>1, AwakeIs DEF Visitor
<1>4. CASE walk.asleep = 0
  <2>1. Visit(walk, s) = HandleVarDecl(walk, n, e)
    BY <1>1, <1>4 DEF Visit
  <2>2. walk.scopes # <<>> /\ Len(walk.scopes) = Depth
    BY <1>2, <1>4, AwakeIs
  <2>3. /\ Topped(HandleVarDecl(walk, n, e), walk, IF ExprTaint(walk, e) THEN walk.scopes[Len(walk.scopes)] \cup {n} ELSE walk.scopes[Len(walk.scopes)])
        /\ HandleVarDecl(walk, n, e).inits = IF e.form = "validated" THEN With(walk.inits, n, e.of) ELSE walk.inits
    BY <1>2, <2>2, DeclareIs
  <2>4. walk' = HandleVarDecl(walk, n, e)
    BY <1>2, <2>1
  <2> QED BY <1>4, <2>2, <2>3, <2>4
<1> QED BY <1>3, <1>4, AwakeIs

\* A declaration or an assignment ends what its variable had to do with validators.
NewLink(s) == [says |-> Target(s), of |-> <<Owner(s.expr.of), s.expr.of>>]
LEMMA WriteLinks ==
  ASSUME NEW s, Writes(s)
  PROVE  /\ ~Live => LinksAfter(s) = links
         /\ Live => LinksAfter(s) =
              {k \in links : k.says # Target(s) /\ k.of # Target(s)}
              \cup {k \in {NewLink(s)} : s.expr.form = "validated" /\ k.of # k.says}
<1>1. s.kind # "exit"
  BY DEF Writes
<1>2. CASE ~Live
  BY <1>1, <1>2 DEF LinksAfter
<1>3. CASE Live
  <2> DEFINE kept == {l \in links : Target(s) \notin {l.says, l.of}}
             source == <<Owner(s.expr.of), s.expr.of>>
  <2>1. LinksAfter(s) = IF s.expr.form = "validated" /\ source # Target(s) THEN kept \cup {[says |-> Target(s), of |-> source]} ELSE kept
    BY <1>1, <1>3 DEF LinksAfter
  <2>2. kept = {k \in links : k.says # Target(s) /\ k.of # Target(s)}
    OBVIOUS
  <2>3. NewLink(s) = [says |-> Target(s), of |-> source]
    BY DEF NewLink
  <2> HIDE DEF kept, source
  <2>4. NewLink(s).of = source /\ NewLink(s).says = Target(s)
    BY <2>3
  <2> QED BY <1>3, <2>1, <2>2, <2>3, <2>4
<1> QED BY <1>2, <1>3

\* What a statement inside a function leaves of the types.
LEMMA StatementKeepsType ==
  ASSUME TypeInv, NoticeType', Depth # 0, Len(env') = Depth, env' \in Seq(Frames), at' \in 0..Depth, trusted' \in BOOLEAN,
         \A l \in links' : l.says[1] \in 1..Depth /\ l.says[2] \in Names /\ l.of[1] \in 1..Depth /\ l.of[2] \in Names,
         walk' = walk \/ \E top : Topped(walk', walk, top)
  PROVE  TypeInv'
<1>1. walk \in Visitor /\ Len(walk.suppress) = Len(walk.scopes) /\ Len(walk.scopes) + walk.asleep = Depth /\ Len(walk.scopes) # 0
  BY AwakeIs DEF TypeInv, WalkType
<1>2. /\ walk' \in Visitor /\ walk'.suppress = walk.suppress /\ Len(walk'.scopes) = Len(walk.scopes)
      /\ walk'.asleep = walk.asleep
  BY <1>1 DEF Topped
<1>3. walk'.scopes # <<>>
  <2>1. walk'.scopes \in Seq(SUBSET Names)
    BY <1>2 DEF Visitor
  <2> QED BY <1>1, <1>2, <2>1, EmptySeq
<1>4. WalkType'
  BY <1>1, <1>2, <1>3 DEF WalkType
<1>5. RunType'
  BY DEF RunType
<1> QED BY <1>4, <1>5 DEF TypeInv

LEMMA StatementKeepsTrust ==
  ASSUME TypeInv, TrustInv, Depth # 0, trusted' = trusted, walk' = walk \/ \E top : Topped(walk', walk, top)
  PROVE  /\ TrustInv'
         /\ (trusted \/ ~Suppressed(walk)) => (trusted' \/ ~Suppressed(walk'))
<1>1. walk'.suppress = walk.suppress
  BY DEF Topped
<1>2. env # <<>>
  BY DepthIs DEF TypeInv
<1> QED BY <1>1, <1>2 DEF TrustInv, Suppressed

-----------------------------------------------------------------------------
LEMMA DeclareKeeps ==
  ASSUME HandlerInv, NEW n, NEW e, Declares(n, e)
  PROVE  HandlerInv'
<1> DEFINE s == [kind |-> "declare", name |-> n, expr |-> e]
<1>1. s.kind = "declare" /\ s.name = n /\ s.expr = e /\ Writes(s) /\ Target(s) = <<Depth, n>>
  BY DEF Writes, Target
<1>2. /\ TypeInv /\ MissInv /\ CryInv /\ TrustInv /\ RunType
      /\ n \in Names /\ e \in Expressions /\ e.of \in Names /\ Depth # 0 /\ n \notin DOMAIN env[Depth] /\ e.of # n
      /\ Walk(s, TRUE)
      /\ (e.form \in Sources \cup Clean \/ Bound(e.of))
  BY ReadableIs DEF HandlerInv, TypeInv, Declares, Here
<1>3. /\ Len(env') = Depth /\ env' \in Seq(Frames)
      /\ \A d \in 1..Depth : d # Depth => env'[d] = env[d]
      /\ env'[Depth] = With(env[Depth], n, Held(e))
      /\ at' = at /\ trusted' = trusted
      /\ links' = LinksAfter(s)
  BY <1>2, DeclareDoes
<1>4. /\ walk.asleep > 0 => walk' = walk
      /\ walk.asleep = 0 =>
           /\ Topped(walk', walk, IF ExprTaint(walk, e) THEN walk.scopes[Depth] \cup {n} ELSE walk.scopes[Depth])
           /\ walk'.inits = IF e.form = "validated" THEN With(walk.inits, n, e.of) ELSE walk.inits
  BY <1>2, DeclareVisits
<1>5. /\ "miss" \notin excused' => ~MayMiss(s) /\ "miss" \notin excused
      /\ "cry" \notin excused' => ~MayCry(s) /\ "cry" \notin excused
  BY <1>2, Excuses
<1> HIDE DEF s
<1>6. /\ Len(walk.scopes) \in Nat /\ DOMAIN walk.scopes = 1..Len(walk.scopes) /\ walk.asleep \in Nat
      /\ Len(walk.scopes) + walk.asleep = Depth /\ Depth \in Nat \ {0} /\ Len(walk.scopes) # 0
      /\ DOMAIN env = 1..Depth /\ DOMAIN env' = 1..Depth /\ at \in 0..Depth /\ Len(env) = Depth
  BY <1>2, <1>3, AwakeIs, DepthIs DEF RunType, Depth
<1>7. walk.asleep > 0 \/ walk.asleep = 0
  BY <1>6
<1>8. e.form = "validated" => Bound(e.of)
  BY <1>2 DEF Sources, Clean
<1>9. e.form = "validated" => Owner(e.of) \in 1..Depth /\ Owns(env, Owner(e.of), e.of)
  BY <1>2, <1>8, OwnerIs
\* What the variables are after it.
<1>10. /\ DOMAIN env'[Depth] = DOMAIN env[Depth] \cup {n}
       /\ \A x \in DOMAIN env[Depth] \cup {n} : env'[Depth][x] = IF x = n THEN Held(e) ELSE env[Depth][x]
  <2>1. /\ DOMAIN With(env[Depth], n, Held(e)) = DOMAIN env[Depth] \cup {n}
        /\ \A x \in DOMAIN env[Depth] \cup {n} : With(env[Depth], n, Held(e))[x] = IF x = n THEN Held(e) ELSE env[Depth][x]
    BY DEF With
  <2> QED BY <1>3, <2>1
<1>11. \A d \in 1..Depth : \A x : d # Depth \/ x # n => (Data(env', d, x) <=> Data(env, d, x))
  BY <1>3, <1>10 DEF Data
<1>12. Data(env', Depth, n) <=> Held(e) = "data"
  BY <1>10 DEF Data
<1>13. \A o \in 1..Depth : \A x : x # n => (Owns(env, o, x) => Owns(env', o, x))
  BY <1>3, <1>6, <1>10 DEF Owns
\* The types.
<1>14. \A k \in links' : k.says[1] \in 1..Depth /\ k.says[2] \in Names /\ k.of[1] \in 1..Depth /\ k.of[2] \in Names
  <2>1. \A k \in links : k.says[1] \in 1..Depth /\ k.says[2] \in Names /\ k.of[1] \in 1..Depth /\ k.of[2] \in Names
    BY <1>2, <1>6 DEF RunType
  <2>2. ASSUME e.form = "validated", NEW k \in {NewLink(s)} PROVE k.says[1] \in 1..Depth /\ k.says[2] \in Names /\ k.of[1] \in 1..Depth /\ k.of[2] \in Names
    BY <1>1, <1>2, <1>6, <1>9, <2>2 DEF NewLink
  <2> QED BY <1>1, <1>3, <2>1, <2>2, WriteLinks
<1>15. TypeInv'
  <2>1. walk' = walk \/ \E top : Topped(walk', walk, top)
    BY <1>4, <1>7
  <2> QED BY <1>2, <1>3, <1>6, <1>14, <2>1, StepNoticeType, StatementKeepsType DEF RunType
<1>16. TrustInv' /\ ((trusted \/ ~Suppressed(walk)) => (trusted' \/ ~Suppressed(walk')))
  <2>1. walk' = walk \/ \E top : Topped(walk', walk, top)
    BY <1>4, <1>7
  <2> QED BY <1>2, <1>3, <2>1, StatementKeepsTrust
\* Taint.
<1>17. walk.asleep = 0 /\ Live =>
         /\ "miss" \notin excused => (Held(e) = "data" => ExprTaint(walk, e))
         /\ "cry" \notin excused => (ExprTaint(walk, e) => Held(e) = "data")
  BY <1>2, <1>6, ReadsAreValues, ThreeWalks DEF Held, Walks
<1>18. ASSUME "miss" \notin excused' PROVE Caught(walk', env', at')
  <2>1. Caught(walk, env, at)
    BY <1>2, <1>5, <1>18 DEF MissInv
  <2>2. CASE walk.asleep > 0
    <3>1. \A d \in 1..Len(walk.scopes) : d \in 1..Depth /\ d # Depth
      BY <1>6, <2>2
    <3> QED BY <1>3, <1>4, <1>6, <1>11, <2>1, <2>2, <3>1 DEF Caught
  <2>3. CASE walk.asleep = 0
    <3>1. DOMAIN walk'.scopes = 1..Depth /\ DOMAIN walk.scopes = 1..Depth
      BY <1>4, <1>6, <2>3 DEF Topped
    <3>2. \A d \in 1..Depth : walk'.scopes[d] = IF d = Depth THEN (IF ExprTaint(walk, e) THEN walk.scopes[Depth] \cup {n} ELSE walk.scopes[Depth]) ELSE walk.scopes[d]
      <4> DEFINE top == IF ExprTaint(walk, e) THEN walk.scopes[Depth] \cup {n} ELSE walk.scopes[Depth]
      <4>1. Topped(walk', walk, top) /\ Len(walk.scopes) = Depth
        BY <1>4, <1>6, <2>3
      <4> HIDE DEF top
      <4>2. \A d \in 1..Depth : walk'.scopes[d] = IF d = Depth THEN top ELSE walk.scopes[d]
        BY <3>1, <4>1 DEF Topped
      <4> QED BY <4>2 DEF top
    <3>3. Depth <= at => Live
      BY <1>6 DEF Live
    <3>4. ASSUME NEW d \in 1..Depth, d <= at, NEW x \in Names, Data(env', d, x) PROVE x \in walk'.scopes[d]
      <4>1. CASE d # Depth \/ x # n
        BY <1>11, <2>1, <3>1, <3>2, <3>4, <4>1 DEF Caught
      <4>2. CASE d = Depth /\ x = n
        BY <1>5, <1>12, <1>17, <1>18, <2>3, <3>2, <3>3, <3>4, <4>2
      <4> QED BY <4>1, <4>2
    <3> QED BY <1>3, <3>1, <3>4 DEF Caught
  <2> QED BY <1>7, <2>2, <2>3
<1>19. ASSUME "cry" \notin excused' PROVE Founded(walk', env', at')
  <2>1. Founded(walk, env, at)
    BY <1>2, <1>5, <1>19 DEF CryInv
  <2>2. \A d \in 1..Depth : \A x : Data(env, d, x) => Data(env', d, x)
    <3>1. \A x : Data(env, Depth, x) => x # n
      BY <1>2 DEF Data
    <3> QED BY <1>11, <3>1
  <2>3. CASE walk.asleep > 0
    <3>1. \A d \in 1..Len(walk.scopes) : \A j \in 1..d : j \in 1..Depth
      BY <1>6
    <3> QED BY <1>3, <1>4, <1>6, <2>1, <2>2, <2>3, <3>1 DEF Founded
  <2>4. CASE walk.asleep = 0
    <3>1. DOMAIN walk'.scopes = 1..Depth /\ DOMAIN walk.scopes = 1..Depth
      BY <1>4, <1>6, <2>4 DEF Topped
    <3>2. \A d \in 1..Depth : walk'.scopes[d] = IF d = Depth THEN (IF ExprTaint(walk, e) THEN walk.scopes[Depth] \cup {n} ELSE walk.scopes[Depth]) ELSE walk.scopes[d]
      <4> DEFINE top == IF ExprTaint(walk, e) THEN walk.scopes[Depth] \cup {n} ELSE walk.scopes[Depth]
      <4>1. Topped(walk', walk, top) /\ Len(walk.scopes) = Depth
        BY <1>4, <1>6, <2>4
      <4> HIDE DEF top
      <4>2. \A d \in 1..Depth : walk'.scopes[d] = IF d = Depth THEN top ELSE walk.scopes[d]
        BY <3>1, <4>1 DEF Topped
      <4> QED BY <4>2 DEF top
    <3>3. Depth <= at => Live
      BY <1>6 DEF Live
    <3>4. ASSUME NEW d \in 1..Depth, d <= at, NEW x \in walk'.scopes[d] PROVE \E j \in 1..d : Data(env', j, x)
      <4>1. CASE x \in walk.scopes[d]
        <5>1. PICK j \in 1..d : Data(env, j, x)
          BY <2>1, <3>1, <3>4, <4>1 DEF Founded
        <5> QED BY <1>6, <2>2, <5>1
      <4>2. CASE x \notin walk.scopes[d]
        <5>1. d = Depth /\ x = n /\ ExprTaint(walk, e)
          BY <3>2, <3>4, <4>2
        <5>2. Data(env', Depth, n)
          BY <1>5, <1>12, <1>17, <1>19, <2>4, <3>3, <3>4, <5>1
        <5> QED BY <5>1, <5>2
      <4> QED BY <4>1, <4>2
    <3> QED BY <1>3, <3>1, <3>4 DEF Founded
  <2> QED BY <1>7, <2>3, <2>4
<1>20. ASSUME "cry" \notin excused' PROVE Unhidden(env')
  <2>1. Unhidden(env)
    BY <1>2, <1>5, <1>20 DEF CryInv
  <2>2. Holds(n) # "data"
    BY <1>1, <1>5, <1>20 DEF MayCry, Binds
  <2>3. \A d \in 1..Depth : ~Data(env, d, n)
    BY <1>2, <2>1, <2>2, NotHeld
  <2>4. ASSUME NEW i \in 1..Depth, NEW j \in 1..Depth, i < j, NEW x \in DOMAIN env'[j] PROVE ~Data(env', i, x)
    <3>1. i # Depth /\ (Data(env', i, x) <=> Data(env, i, x))
      BY <1>6, <1>11, <2>4
    <3>2. CASE x = n
      BY <2>3, <3>1, <3>2
    <3>3. CASE x # n
      <4>1. x \in DOMAIN env[j]
        BY <1>3, <1>10, <2>4, <3>3
      <4> QED BY <1>6, <2>1, <2>4, <3>1, <4>1 DEF Unhidden
    <3> QED BY <3>2, <3>3
  <2> QED BY <1>6, <2>4 DEF Unhidden
\* Validators.
<1>21. ASSUME "miss" \notin excused' PROVE Noted(walk', env', links', at')
  <2>1. Noted(walk, env, links, at)
    BY <1>2, <1>5, <1>21 DEF MissInv
  <2>2. ~(n \in DOMAIN walk.inits \cup Range(walk.inits))
    BY <1>1, <1>5, <1>21 DEF MayMiss
  <2>3. CASE walk.asleep > 0
    BY <1>4, <1>6, <2>3 DEF Noted
  <2>4. CASE walk.asleep = 0
    <3>1. env # <<>>
      BY <1>2, DepthIs
    <3>2. /\ DOMAIN walk'.inits \subseteq DOMAIN walk.inits \cup {n}
          /\ n \in DOMAIN walk'.inits => e.form = "validated" /\ walk'.inits[n] = e.of
          /\ \A x \in DOMAIN walk.inits : x \in DOMAIN walk'.inits /\ walk'.inits[x] = walk.inits[x]
      BY <1>4, <2>2, <2>4 DEF With
    <3>3. at' = Len(env') => Live
      BY <1>3 DEF Live
    <3>4. ASSUME NEW x \in DOMAIN walk'.inits
          PROVE  /\ x \in DOMAIN env'[Len(env')]
                 /\ at' = Len(env') => \E k \in links' : k.says = <<Len(env'), x>> /\ k.of = <<k.of[1], walk'.inits[x]>> /\ Owns(env', k.of[1], k.of[2])
      <4>1. CASE x = n
        <5>1. e.form = "validated" /\ walk'.inits[x] = e.of
          BY <3>2, <3>4, <4>1
        <5>2. Owner(e.of) \in 1..Depth /\ Owns(env', Owner(e.of), e.of)
          BY <1>2, <1>9, <1>13, <5>1
        <5>3. NewLink(s).says = <<Depth, n>> /\ NewLink(s).of = <<Owner(e.of), e.of>>
          BY <1>1 DEF NewLink
        <5>4. NewLink(s).of # NewLink(s).says
          BY <1>2, <5>3
        <5>5. Live => NewLink(s) \in links'
          BY <1>1, <1>3, <5>1, <5>4, WriteLinks
        <5>6. x \in DOMAIN env'[Len(env')]
          BY <1>3, <1>10, <4>1
        <5> QED BY <1>3, <3>3, <4>1, <5>1, <5>2, <5>3, <5>5, <5>6
      <4>2. CASE x # n
        <5>1. x \in DOMAIN walk.inits /\ walk'.inits[x] = walk.inits[x] /\ walk.inits[x] # n
          BY <2>2, <3>2, <3>4, <4>2 DEF Range
        <5>2. x \in DOMAIN env[Depth]
          BY <1>6, <2>1, <2>4, <3>1, <5>1 DEF Noted
        <5>3. x \in DOMAIN env'[Len(env')]
          BY <1>3, <1>10, <5>2
        <5>4. ASSUME Live
              PROVE  \E k \in links' : k.says = <<Len(env'), x>> /\ k.of = <<k.of[1], walk'.inits[x]>> /\ Owns(env', k.of[1], k.of[2])
          <6>1. PICK k \in links : k.says = <<Depth, x>> /\ k.of = <<k.of[1], walk.inits[x]>> /\ Owns(env, k.of[1], k.of[2])
            BY <1>6, <2>1, <2>4, <3>1, <5>1, <5>4 DEF Noted, Live
          <6>2. k.says # Target(s) /\ k.of # Target(s)
            BY <1>1, <4>2, <5>1, <6>1
          <6>3. k \in links'
            BY <1>1, <1>3, <5>4, <6>2, WriteLinks
          <6>4. Owns(env', k.of[1], k.of[2])
            BY <1>6, <1>13, <5>1, <6>1 DEF Owns
          <6> QED BY <1>3, <5>1, <6>1, <6>3, <6>4
        <5> QED BY <3>3, <5>3, <5>4
      <4> QED BY <4>1, <4>2
    <3> QED BY <3>4 DEF Noted
  <2> QED BY <1>7, <2>3, <2>4
<1>22. ASSUME "cry" \notin excused' PROVE Linked(walk', env', links', at')
  <2>1. Linked(walk, env, links, at)
    BY <1>2, <1>5, <1>22 DEF CryInv
  <2>2. Len(walk'.scopes) = Len(walk.scopes)
    BY <1>4, <1>7 DEF Topped
  <2>3. \A x \in DOMAIN walk.inits : x # n => x \in DOMAIN walk'.inits /\ walk'.inits[x] = walk.inits[x]
    BY <1>4, <1>7 DEF With
  <2>4. \A d \in 1..Depth : DOMAIN env[d] \subseteq DOMAIN env'[d]
    BY <1>3, <1>10
  <2>5. ASSUME NEW k \in links', k \in links
        PROVE  /\ k.says[1] >= Len(walk'.scopes) /\ k.says[2] \in DOMAIN env'[k.says[1]]
               /\ k.says[1] = Len(walk'.scopes) /\ k.says[1] <= at' =>
                    k.says[2] \in DOMAIN walk'.inits /\ k.of[2] = walk'.inits[k.says[2]]
    <3>1. k.says[1] >= Len(walk.scopes) /\ k.says[2] \in DOMAIN env[k.says[1]] /\ k.says[1] \in 1..Depth
      BY <1>2, <1>6, <2>1, <2>5 DEF Linked, RunType
    <3>2. ASSUME k.says[1] = Len(walk.scopes), k.says[1] <= at
          PROVE  k.says[2] \in DOMAIN walk'.inits /\ k.of[2] = walk'.inits[k.says[2]]
      <4>1. k.says[2] \in DOMAIN walk.inits /\ k.of[2] = walk.inits[k.says[2]]
        BY <2>1, <2>5, <3>2 DEF Linked
      <4>2. CASE walk.asleep > 0
        BY <1>4, <4>1, <4>2
      <4>3. CASE walk.asleep = 0
        <5>1. k.says[2] # n
          BY <1>2, <1>6, <3>1, <3>2, <4>3
        <5> QED BY <2>3, <4>1, <5>1
      <4> QED BY <1>7, <4>2, <4>3
    <3> QED BY <1>3, <2>2, <2>4, <3>1, <3>2
  <2>6. ASSUME NEW k \in links', k \notin links
        PROVE  /\ k.says[1] >= Len(walk'.scopes) /\ k.says[2] \in DOMAIN env'[k.says[1]]
               /\ k.says[1] = Len(walk'.scopes) /\ k.says[1] <= at' =>
                    k.says[2] \in DOMAIN walk'.inits /\ k.of[2] = walk'.inits[k.says[2]]
    <3>1. k = NewLink(s) /\ e.form = "validated"
      BY <1>1, <1>3, <2>6, WriteLinks
    <3>2. k.says = <<Depth, n>> /\ k.of = <<Owner(e.of), e.of>>
      BY <1>1, <3>1 DEF NewLink
    <3>3. k.says[1] = Depth /\ k.says[2] = n /\ k.of[2] = e.of
      BY <3>2
    <3>4. k.says[1] = Len(walk'.scopes) => walk.asleep = 0
      BY <1>6, <2>2, <3>3
    <3>5. walk.asleep = 0 => n \in DOMAIN walk'.inits /\ walk'.inits[n] = e.of
      BY <1>4, <3>1 DEF With
    <3>6. n \in DOMAIN env'[Depth] /\ Depth >= Len(walk'.scopes)
      BY <1>6, <1>10, <2>2
    <3> QED BY <3>3, <3>4, <3>5, <3>6
  <2> QED BY <2>5, <2>6 DEF Linked
<1> QED BY <1>2, <1>5, <1>15, <1>16, <1>18, <1>19, <1>20, <1>21, <1>22 DEF HandlerInv, MissInv, CryInv

-----------------------------------------------------------------------------
(* An assignment.                                                           *)
Assigns(n, e) ==
  /\ n \in Names /\ Bound(n) /\ e \in Readable /\ Depth # 0
  /\ Walk([kind |-> "assign", name |-> n, expr |-> e], TRUE)

LEMMA AssignDoes ==
  ASSUME TypeInv, NEW n, NEW e, Assigns(n, e)
  PROVE  /\ Len(env') = Depth /\ env' \in Seq(Frames) /\ at' = at /\ trusted' = trusted
         /\ links' = LinksAfter([kind |-> "assign", name |-> n, expr |-> e])
         /\ \A d \in 1..Depth : DOMAIN env'[d] = DOMAIN env[d]
         /\ \A d \in 1..Depth : \A x : d # Owner(n) \/ x # n => (Data(env', d, x) <=> Data(env, d, x))
         /\ Data(env', Owner(n), n) <=> IF Live THEN Value(e, Followed) = "data" ELSE Data(env, Owner(n), n)
<1> DEFINE s == [kind |-> "assign", name |-> n, expr |-> e]
           o == Owner(n)
           v == Value(e, Followed)
<1>1. s.kind = "assign" /\ s.name = n /\ s.expr = e
  OBVIOUS
<1>2. /\ env' = EnvAfter(s, TRUE) /\ at' = AtAfter(s, TRUE) /\ links' = LinksAfter(s) /\ trusted' = Trusts(s)
      /\ n \in Names /\ Depth # 0 /\ RunType
  BY DEF Assigns, Walk, TypeInv
<1> HIDE DEF s
<1>3. /\ Live => EnvAfter(s, TRUE) = [env EXCEPT ![o] = With(@, n, v)]
      /\ ~Live => EnvAfter(s, TRUE) = env
  BY <1>1 DEF EnvAfter, Put, Opens
<1>4. AtAfter(s, TRUE) = at /\ Trusts(s) = trusted
  BY <1>1, <1>2 DEF AtAfter, Trusts, Opens
<1>5. env \in Seq(Frames) /\ DOMAIN env = 1..Depth /\ Len(env) = Depth
  BY <1>2, DepthIs DEF RunType, Depth
<1>6. o \in 1..Depth /\ n \in DOMAIN env[o]
  BY <1>2, OwnerIs DEF Assigns, Owns
<1>7. v \in {"data", "lost", "nothing"}
  BY <1>2, ValueIs DEF Walks
<1> HIDE DEF o, v
<1> DEFINE f == With(env[o], n, v)
<1>8. f \in Frames
  BY <1>2, <1>6, <1>7, WithTyped, DepthIs
<1>9. DOMAIN f = DOMAIN env[o] /\ f[n] = v /\ \A x \in DOMAIN f : x # n => f[x] = env[o][x]
  BY <1>6 DEF With
<1> HIDE DEF f
<1>10. CASE Live
  <2>1. env' = [env EXCEPT ![o] = f]
    BY <1>2, <1>3, <1>10 DEF f
  <2>2. env' \in Seq(Frames) /\ Len(env') = Depth /\ env'[o] = f /\ \A d \in 1..Depth : d # o => env'[d] = env[d]
    BY <1>5, <1>6, <1>8, <2>1
  <2> QED BY <1>2, <1>4, <1>6, <1>9, <1>10, <2>2 DEF Data, s, o, v
<1>11. CASE ~Live
  BY <1>2, <1>3, <1>4, <1>5, <1>11 DEF s
<1> QED BY <1>10, <1>11

LEMMA AssignVisits ==
  ASSUME TypeInv, NEW n, NEW e, Assigns(n, e)
  PROVE  /\ walk'.inits = walk.inits
         /\ walk.asleep > 0 => walk' = walk
         /\ walk.asleep = 0 =>
              Topped(walk', walk, IF ExprTaint(walk, e) THEN walk.scopes[Depth] \cup {n} ELSE walk.scopes[Depth] \ {n})
<1> DEFINE s == [kind |-> "assign", name |-> n, expr |-> e]
<1>1. s.kind = "assign" /\ s.name = n /\ s.expr = e
  OBVIOUS
<1>2. walk' = Visit(walk, s) /\ n \in Names /\ e \in Expressions /\ Depth # 0 /\ walk \in Visitor
  BY ReadableIs DEF Assigns, Walk, TypeInv, WalkType
<1> HIDE DEF s
<1>3. CASE walk.asleep > 0
  <2>1. Visit(walk, s) = [walk EXCEPT !.asleep = walk.asleep]
    <3>1. s.kind \notin Opens /\ s.kind # "exit"
      BY <1>1 DEF Opens
    <3> QED BY <1>3, <3>1 DEF Visit
  <2> QED BY <1>2, <1>3, <2>1, AwakeIs DEF Visitor
<1>4. CASE walk.asleep = 0
  <2>1. Visit(walk, s) = Assign(walk, n, e)
    BY <1>1, <1>4 DEF Visit
  <2>2. walk.scopes # <<>> /\ Len(walk.scopes) = Depth
    BY <1>2, <1>4, AwakeIs
  <2>3. /\ Topped(Assign(walk, n, e), walk, IF ExprTaint(walk, e) THEN walk.scopes[Len(walk.scopes)] \cup {n} ELSE walk.scopes[Len(walk.scopes)] \ {n})
        /\ Assign(walk, n, e).inits = walk.inits
    BY <1>2, <2>2, AssignIs
  <2>4. walk' = Assign(walk, n, e)
    BY <1>2, <2>1
  <2> QED BY <1>4, <2>2, <2>3, <2>4
<1> QED BY <1>3, <1>4, AwakeIs

LEMMA AssignKeeps ==
  ASSUME HandlerInv, NEW n, NEW e, Assigns(n, e)
  PROVE  HandlerInv'
<1> DEFINE s == [kind |-> "assign", name |-> n, expr |-> e]
           o == Owner(n)
           v == Value(e, Followed)
<1>1. s.kind = "assign" /\ s.name = n /\ s.expr = e /\ Writes(s) /\ Target(s) = <<o, n>>
  BY DEF Writes, Target
<1>2. /\ TypeInv /\ MissInv /\ CryInv /\ TrustInv /\ RunType
      /\ n \in Names /\ e \in Expressions /\ e.of \in Names /\ Depth # 0
      /\ Walk(s, TRUE)
      /\ (e.form \in Sources \cup Clean \/ Bound(e.of))
  BY ReadableIs DEF HandlerInv, TypeInv, Assigns
<1>3. /\ Len(env') = Depth /\ env' \in Seq(Frames) /\ at' = at /\ trusted' = trusted /\ links' = LinksAfter(s)
      /\ \A d \in 1..Depth : DOMAIN env'[d] = DOMAIN env[d]
      /\ \A d \in 1..Depth : \A x : d # o \/ x # n => (Data(env', d, x) <=> Data(env, d, x))
      /\ Data(env', o, n) <=> IF Live THEN v = "data" ELSE Data(env, o, n)
  BY <1>2, AssignDoes
<1>4. /\ walk'.inits = walk.inits
      /\ walk.asleep > 0 => walk' = walk
      /\ walk.asleep = 0 =>
           Topped(walk', walk, IF ExprTaint(walk, e) THEN walk.scopes[Depth] \cup {n} ELSE walk.scopes[Depth] \ {n})
  BY <1>2, AssignVisits
<1>5. /\ "miss" \notin excused' => ~MayMiss(s) /\ "miss" \notin excused
      /\ "cry" \notin excused' => ~MayCry(s) /\ "cry" \notin excused
  BY <1>2, Excuses
<1> HIDE DEF s
<1>6. /\ Len(walk.scopes) \in Nat /\ DOMAIN walk.scopes = 1..Len(walk.scopes) /\ walk.asleep \in Nat
      /\ Len(walk.scopes) + walk.asleep = Depth /\ Depth \in Nat \ {0} /\ Len(walk.scopes) # 0
      /\ DOMAIN env = 1..Depth /\ DOMAIN env' = 1..Depth /\ at \in 0..Depth /\ Len(env) = Depth
  BY <1>2, <1>3, AwakeIs, DepthIs DEF RunType, Depth
<1>7. walk.asleep > 0 \/ walk.asleep = 0
  BY <1>6
<1>8. o \in 1..Depth /\ Owns(env, o, n)
  BY <1>2, OwnerIs DEF Assigns
<1>9. /\ "miss" \notin excused' => (o # Depth => v # "data") /\ n \notin DOMAIN walk.inits /\ n \notin Range(walk.inits)
      /\ "cry" \notin excused' => (o # Depth => v = "data") /\ e.form # "validated"
  BY <1>1, <1>5 DEF MayMiss, MayCry
<1>10. e.form = "validated" => Owner(e.of) \in 1..Depth
  BY <1>2, OwnerIs DEF Sources, Clean
<1>11. walk.asleep = 0 /\ Live =>
         /\ "miss" \notin excused => (v = "data" => ExprTaint(walk, e))
         /\ "cry" \notin excused => (ExprTaint(walk, e) => v = "data")
  BY <1>2, <1>6, ReadsAreValues, ThreeWalks DEF Walks
<1> HIDE DEF o, v
<1> DEFINE top == IF ExprTaint(walk, e) THEN walk.scopes[Depth] \cup {n} ELSE walk.scopes[Depth] \ {n}
<1>12. /\ \A x \in Names : x # n => (x \in top <=> x \in walk.scopes[Depth])
       /\ n \in top <=> ExprTaint(walk, e)
  BY DEF ExprTaint
<1>13. walk.asleep = 0 => Len(walk.scopes) = Depth /\ Topped(walk', walk, top)
  BY <1>4, <1>6
<1> HIDE DEF top
<1>14. Len(walk'.scopes) = Len(walk.scopes) /\ DOMAIN walk'.scopes = DOMAIN walk.scopes
  BY <1>4, <1>7, <1>13 DEF Topped
<1>15. /\ \A d \in 1..Len(walk.scopes) : d # Depth => walk'.scopes[d] = walk.scopes[d]
       /\ \A d \in 1..Len(walk.scopes) : d = Depth => walk'.scopes[d] = top /\ walk.asleep = 0
  BY <1>4, <1>6, <1>7, <1>13 DEF Topped
<1>16. walk \in Visitor /\ walk.scopes \in Seq(SUBSET Names) /\ \A d \in 1..Len(walk.scopes) : walk.scopes[d] \subseteq Names
  <2>1. walk \in Visitor /\ walk.scopes \in Seq(SUBSET Names)
    BY <1>2 DEF TypeInv, WalkType, Visitor
  <2> QED BY <1>6, <2>1, ElementOfSeq
<1>17. Depth <= at => Live
  BY <1>6 DEF Live
<1>18. \A d \in 1..Depth : n \in DOMAIN env[d] => d <= o
  BY <1>6, <1>8 DEF Owns
<1>19. \A k, x : Owns(env, k, x) <=> Owns(env', k, x)
  BY <1>3, <1>6 DEF Owns
\* The types.
<1>20. \A k \in links' : k.says[1] \in 1..Depth /\ k.says[2] \in Names /\ k.of[1] \in 1..Depth /\ k.of[2] \in Names
  <2>1. \A k \in links : k.says[1] \in 1..Depth /\ k.says[2] \in Names /\ k.of[1] \in 1..Depth /\ k.of[2] \in Names
    BY <1>2, <1>6 DEF RunType
  <2>2. ASSUME e.form = "validated", NEW k \in {NewLink(s)} PROVE k.says[1] \in 1..Depth /\ k.says[2] \in Names /\ k.of[1] \in 1..Depth /\ k.of[2] \in Names
    BY <1>1, <1>2, <1>6, <1>8, <1>10, <2>2 DEF NewLink
  <2> QED BY <1>1, <1>3, <2>1, <2>2, WriteLinks
<1>21. TypeInv' /\ TrustInv' /\ ((trusted \/ ~Suppressed(walk)) => (trusted' \/ ~Suppressed(walk')))
  <2>1. walk' = walk \/ \E x : Topped(walk', walk, x)
    BY <1>4, <1>7, <1>13
  <2> QED BY <1>2, <1>3, <1>6, <1>20, <2>1, StepNoticeType, StatementKeepsType, StatementKeepsTrust DEF RunType
\* Taint.
<1>22. ASSUME "miss" \notin excused' PROVE Caught(walk', env', at')
  <2>1. Caught(walk, env, at)
    BY <1>2, <1>5, <1>22 DEF MissInv
  <2> SUFFICES ASSUME NEW d \in 1..Len(walk.scopes), d <= at, NEW x \in Names, Data(env', d, x)
               PROVE  x \in walk'.scopes[d]
    BY <1>3, <1>6, <1>14 DEF Caught
  <2>2. d \in 1..Depth
    BY <1>6
  <2>3. CASE d = o /\ x = n
    <3>1. CASE Live
      <4>1. v = "data" /\ d = Depth
        BY <1>3, <1>9, <1>22, <2>3, <3>1
      <4> QED BY <1>5, <1>11, <1>12, <1>15, <1>22, <2>3, <3>1, <4>1
    <3>2. CASE ~Live
      <4>1. d # Depth /\ Data(env, d, x)
        BY <1>3, <1>17, <2>3, <3>2
      <4> QED BY <1>6, <1>15, <2>1, <4>1 DEF Caught
    <3> QED BY <3>1, <3>2
  <2>4. CASE d # o \/ x # n
    <3>1. Data(env, d, x)
      BY <1>3, <2>2, <2>4
    <3>2. x \in walk.scopes[d]
      BY <1>6, <2>1, <3>1 DEF Caught
    <3>3. d = Depth => x # n
      BY <1>8, <1>18, <2>2, <2>4, <3>1 DEF Data
    <3> QED BY <1>12, <1>15, <3>2, <3>3
  <2> QED BY <2>3, <2>4
<1>23. ASSUME "cry" \notin excused' PROVE Founded(walk', env', at')
  <2>1. Founded(walk, env, at)
    BY <1>2, <1>5, <1>23 DEF CryInv
  <2>2. \A d \in 1..Depth : \A x : Data(env, d, x) /\ (d = o /\ x = n /\ Live => o # Depth) => Data(env', d, x)
    BY <1>3, <1>9, <1>23
  <2> SUFFICES ASSUME NEW d \in 1..Len(walk.scopes), d <= at, NEW x \in walk'.scopes[d]
               PROVE  \E j \in 1..d : Data(env', j, x)
    BY <1>3, <1>6, <1>14 DEF Founded
  <2>3. CASE d # Depth
    <3>1. PICK j \in 1..d : Data(env, j, x)
      BY <1>6, <1>15, <2>1, <2>3 DEF Founded
    <3>2. j \in 1..Depth /\ j # Depth
      BY <1>6, <2>3
    <3> QED BY <2>2, <3>1, <3>2
  <2>4. CASE d = Depth /\ x = n
    <3>1. ExprTaint(walk, e) /\ Live
      BY <1>12, <1>15, <1>17, <2>4
    <3>2. Data(env', o, n)
      BY <1>3, <1>5, <1>11, <1>15, <1>23, <2>4, <3>1
    <3> QED BY <1>8, <2>4, <3>2
  <2>5. CASE d = Depth /\ x # n
    <3>1. x \in Names
      <4>1. walk' \in Visitor /\ d \in 1..Len(walk'.scopes) /\ walk'.scopes \in Seq(SUBSET Names)
        BY <1>14, <1>21 DEF TypeInv, WalkType, Visitor
      <4> QED BY <4>1, ElementOfSeq
    <3>2. x \in walk.scopes[d]
      BY <1>12, <1>15, <2>5, <3>1
    <3>3. PICK j \in 1..d : Data(env, j, x)
      BY <1>6, <2>1, <3>2 DEF Founded
    <3> QED BY <2>2, <2>5, <3>3
  <2> QED BY <2>3, <2>4, <2>5
<1>24. ASSUME "cry" \notin excused' PROVE Unhidden(env')
  <2>1. Unhidden(env)
    BY <1>2, <1>5, <1>24 DEF CryInv
  <2> SUFFICES ASSUME NEW i \in 1..Depth, NEW j \in 1..Depth, i < j, NEW x \in DOMAIN env[j] PROVE ~Data(env', i, x)
    BY <1>3, <1>6 DEF Unhidden
  <2>2. i # o \/ x # n
    BY <1>8, <1>18
  <2> QED BY <1>3, <1>6, <2>1, <2>2 DEF Unhidden
\* Validators.
<1>25. ASSUME "miss" \notin excused' PROVE Noted(walk', env', links', at')
  <2>1. Noted(walk, env, links, at)
    BY <1>2, <1>5, <1>25 DEF MissInv
  <2>2. CASE walk.asleep > 0
    BY <1>4, <1>6, <2>2 DEF Noted
  <2>3. CASE walk.asleep = 0
    <3>1. env # <<>>
      BY <1>2, DepthIs
    <3>2. ASSUME NEW x \in DOMAIN walk.inits
          PROVE  /\ x \in DOMAIN env'[Len(env')]
                 /\ at' = Len(env') => \E k \in links' : k.says = <<Len(env'), x>> /\ k.of = <<k.of[1], walk.inits[x]>> /\ Owns(env', k.of[1], k.of[2])
      <4>1. x # n /\ walk.inits[x] # n
        BY <1>9, <1>25, <3>2 DEF Range
      <4>2. x \in DOMAIN env[Depth]
        BY <1>6, <2>1, <2>3, <3>1 DEF Noted
      <4>3. ASSUME Live
            PROVE  \E k \in links' : k.says = <<Depth, x>> /\ k.of = <<k.of[1], walk.inits[x]>> /\ Owns(env', k.of[1], k.of[2])
        <5>1. PICK k \in links : k.says = <<Depth, x>> /\ k.of = <<k.of[1], walk.inits[x]>> /\ Owns(env, k.of[1], k.of[2])
          BY <1>6, <2>1, <2>3, <3>1, <3>2, <4>3 DEF Noted, Live
        <5>2. k.says # Target(s) /\ k.of # Target(s)
          BY <1>1, <4>1, <5>1
        <5>3. k \in links'
          BY <1>1, <1>3, <4>3, <5>1, <5>2, WriteLinks
        <5> QED BY <1>19, <5>1, <5>3
      <4>4. at' = Len(env') => Live
        BY <1>3 DEF Live
      <4> QED BY <1>3, <1>6, <4>2, <4>3, <4>4
    <3> QED BY <1>4, <3>2 DEF Noted
  <2> QED BY <1>7, <2>2, <2>3
<1>26. ASSUME "cry" \notin excused' PROVE Linked(walk', env', links', at')
  <2>1. Linked(walk, env, links, at)
    BY <1>2, <1>5, <1>26 DEF CryInv
  <2>2. links' \subseteq links
    BY <1>1, <1>3, <1>9, <1>26, WriteLinks
  <2>3. \A k \in links : k.says[1] \in 1..Depth
    BY <1>2, <1>6 DEF RunType
  <2> QED BY <1>3, <1>4, <1>14, <2>1, <2>2, <2>3 DEF Linked
<1> QED BY <1>2, <1>5, <1>21, <1>22, <1>23, <1>24, <1>25, <1>26 DEF HandlerInv, MissInv, CryInv

-----------------------------------------------------------------------------
(* A write and a return.                                                    *)
Passes(s) == s.kind \in {"write", "return"} /\ Depth # 0 /\ Walk(s, TRUE)

LEMMA PassDoes ==
  ASSUME TypeInv, NEW s, Passes(s)
  PROVE  /\ env' = env /\ links' = links /\ trusted' = trusted /\ walk' = walk
         /\ at' \in 0..Depth /\ at' <= at
<1>1. s.kind = "write" \/ s.kind = "return"
  BY DEF Passes
<1>2. s.kind \notin Opens /\ s.kind # "exit" /\ s.kind # "declare" /\ s.kind # "assign" /\ s.kind # "guard"
  BY <1>1 DEF Opens
<1>3. /\ env' = EnvAfter(s, TRUE) /\ at' = AtAfter(s, TRUE) /\ links' = LinksAfter(s) /\ trusted' = Trusts(s)
      /\ walk' = Visit(walk, s) /\ Depth # 0 /\ walk \in Visitor
  BY DEF Passes, Walk, TypeInv, WalkType
<1>4. at \in 0..Depth /\ Depth \in Nat
  BY DepthIs DEF TypeInv, RunType, Depth
<1>5. EnvAfter(s, TRUE) = env /\ LinksAfter(s) = links /\ Trusts(s) = trusted
  BY <1>2 DEF EnvAfter, LinksAfter, Trusts, Writes
<1> DEFINE next == AtAfter(s, TRUE)
<1>6. next \in 0..Depth /\ next <= at
  <2>1. CASE s.kind = "return" /\ Live
    <3>1. next = Depth - 1
      BY <1>2, <2>1 DEF AtAfter
    <3> HIDE DEF next
    <3> QED BY <1>3, <1>4, <2>1, <3>1 DEF Live
  <2>2. CASE ~(s.kind = "return" /\ Live)
    <3>1. next = at
      BY <1>2, <2>2 DEF AtAfter
    <3> HIDE DEF next
    <3> QED BY <1>4, <3>1
  <2> QED BY <2>1, <2>2
<1>7. Visit(walk, s) = walk
  <2>1. CASE walk.asleep > 0
    <3>1. Visit(walk, s) = [walk EXCEPT !.asleep = walk.asleep]
      BY <1>2, <2>1 DEF Visit
    <3> QED BY <1>3, <3>1 DEF Visitor
  <2>2. CASE ~(walk.asleep > 0)
    BY <1>2, <2>2 DEF Visit, Opens
  <2> QED BY <2>1, <2>2
<1> QED BY <1>3, <1>5, <1>6, <1>7

\* What holds of a run that is further in holds of one that is less so.
LEMMA PassKeeps ==
  ASSUME HandlerInv, NEW s, Passes(s)
  PROVE  HandlerInv'
<1>1. TypeInv /\ MissInv /\ CryInv /\ TrustInv /\ RunType /\ Depth # 0 /\ Walk(s, TRUE)
  BY DEF HandlerInv, TypeInv, Passes
<1>2. env' = env /\ links' = links /\ trusted' = trusted /\ walk' = walk /\ at' \in 0..Depth /\ at' <= at
  BY <1>1, PassDoes
<1>3. ("miss" \notin excused' => "miss" \notin excused) /\ ("cry" \notin excused' => "cry" \notin excused)
  BY <1>1, Excuses
<1>4. at \in 0..Depth /\ Depth \in Nat /\ Len(env) = Depth /\ env \in Seq(Frames) /\ trusted \in BOOLEAN
  BY <1>1, DepthIs DEF RunType, Depth
<1>5. DOMAIN walk.scopes \subseteq Nat
  BY <1>1, AwakeIs
<1>6. TypeInv'
  <2>1. \A l \in links' : l.says[1] \in 1..Depth /\ l.says[2] \in Names /\ l.of[1] \in 1..Depth /\ l.of[2] \in Names
    BY <1>1, <1>2, <1>4 DEF RunType
  <2> QED BY <1>1, <1>2, <1>4, <2>1, StepNoticeType, StatementKeepsType
<1>7. TrustInv'
  BY <1>1, <1>2 DEF TrustInv
<1>8. Caught(walk, env, at) => Caught(walk', env', at')
  BY <1>2, <1>4, <1>5 DEF Caught
<1>9. Founded(walk, env, at) => Founded(walk', env', at')
  BY <1>2, <1>4, <1>5 DEF Founded
<1>10. Noted(walk, env, links, at) => Noted(walk', env', links', at')
  <2>1. at' = Len(env) => at = Len(env)
    BY <1>2, <1>4
  <2> QED BY <1>2, <2>1 DEF Noted
<1>11. Linked(walk, env, links, at) => Linked(walk', env', links', at')
  <2>1. \A k \in links : k.says[1] \in Nat /\ (k.says[1] <= at' => k.says[1] <= at)
    BY <1>1, <1>2, <1>4 DEF RunType
  <2> QED BY <1>2, <2>1 DEF Linked
<1> QED BY <1>1, <1>2, <1>3, <1>6, <1>7, <1>8, <1>9, <1>10, <1>11 DEF HandlerInv, MissInv, CryInv

-----------------------------------------------------------------------------
(* A test.                                                                  *)
Guards(n, test, goes) ==
  /\ n \in Names /\ Bound(n) /\ test \in {"allow", "ok"} /\ goes \in BOOLEAN /\ Depth # 0
  /\ Walk([kind |-> "guard", test |-> test, on |-> n], goes)
Gone(w, test, n) == IF test = "allow" THEN {n} ELSE IF n \in DOMAIN w.inits THEN {w.inits[n], n} ELSE {}

LEMMA GuardDoes ==
  ASSUME TypeInv, NEW n, NEW test, NEW goes, Guards(n, test, goes)
  PROVE  /\ Len(env') = Depth /\ env' \in Seq(Frames) /\ trusted' = trusted /\ links' = links
         /\ at' = IF Live /\ ~goes THEN Depth - 1 ELSE at
         /\ \A d \in 1..Depth : DOMAIN env'[d] = DOMAIN env[d]
         /\ \A d \in 1..Depth : \A x :
              Data(env', d, x) <=> Data(env, d, x) /\ (Live /\ goes => <<d, x>> \notin Vouched([kind |-> "guard", test |-> test, on |-> n]))
<1> DEFINE s == [kind |-> "guard", test |-> test, on |-> n]
<1>1. s.kind = "guard"
  OBVIOUS
<1>2. /\ env' = EnvAfter(s, goes) /\ at' = AtAfter(s, goes) /\ links' = LinksAfter(s) /\ trusted' = Trusts(s)
      /\ goes \in BOOLEAN /\ RunType
  BY DEF Guards, Walk, TypeInv
<1> DEFINE after == [d \in DOMAIN env |-> [x \in DOMAIN env[d] |-> IF <<d, x>> \in Vouched(s) THEN "nothing" ELSE env[d][x]]]
<1> HIDE DEF s
<1>3. EnvAfter(s, goes) = IF Live /\ goes THEN after ELSE env
  BY <1>1 DEF EnvAfter, Opens
<1>4. /\ AtAfter(s, goes) = (IF Live /\ ~goes THEN Depth - 1 ELSE at)
      /\ Trusts(s) = trusted /\ LinksAfter(s) = links
  BY <1>1 DEF AtAfter, Trusts, LinksAfter, Writes, Opens
<1>5. env \in Seq(Frames) /\ DOMAIN env = 1..Depth /\ Len(env) = Depth /\ Depth \in Nat
  BY <1>2, DepthIs DEF RunType, Depth
<1>6. CASE Live /\ goes
  <2>1. env' = after
    BY <1>2, <1>3, <1>6
  <2> DEFINE f(d) == [x \in DOMAIN env[d] |-> IF <<d, x>> \in Vouched(s) THEN "nothing" ELSE env[d][x]]
  <2>2. after = [d \in 1..Depth |-> f(d)]
    BY <1>5
  <2>3. \A d \in 1..Depth : f(d) \in Frames
    <3> TAKE d \in 1..Depth
    <3>1. DOMAIN env[d] \subseteq Names /\ \A x \in DOMAIN env[d] : env[d][x] \in {"data", "lost", "nothing"}
      BY <1>2, DepthIs, FrameIs
    <3>2. f(d) \in [DOMAIN env[d] -> {"data", "lost", "nothing"}]
      BY <3>1
    <3> HIDE DEF f
    <3> QED BY <3>1, <3>2 DEF Frames
  <2>4. \A d \in 1..Depth : DOMAIN f(d) = DOMAIN env[d] /\ \A x \in DOMAIN env[d] : f(d)[x] = IF <<d, x>> \in Vouched(s) THEN "nothing" ELSE env[d][x]
    OBVIOUS
  <2> HIDE DEF f
  <2>5. \A d \in 1..Depth : DOMAIN after[d] = DOMAIN env[d] /\ \A x \in DOMAIN env[d] : after[d][x] = IF <<d, x>> \in Vouched(s) THEN "nothing" ELSE env[d][x]
    <3> HIDE DEF after
    <3> QED BY <2>2, <2>4
  <2> HIDE DEF after
  <2>6. after \in Seq(Frames) /\ Len(after) = Depth
    BY <1>5, <2>2, <2>3
  <2>7. \A d \in 1..Depth : \A x : Data(after, d, x) <=> Data(env, d, x) /\ <<d, x>> \notin Vouched(s)
    BY <2>5 DEF Data
  <2> QED BY <1>2, <1>4, <1>6, <2>1, <2>5, <2>6, <2>7 DEF s
<1>7. CASE ~(Live /\ goes)
  <2>1. env' = env
    BY <1>2, <1>3, <1>7
  <2> QED BY <1>2, <1>4, <1>5, <1>7, <2>1
<1> QED BY <1>6, <1>7

LEMMA GuardVisits ==
  ASSUME TypeInv, NEW n, NEW test, NEW goes, Guards(n, test, goes)
  PROVE  /\ walk'.inits = walk.inits
         /\ walk.asleep > 0 => walk' = walk
         /\ walk.asleep = 0 => Topped(walk', walk, walk.scopes[Depth] \ Gone(walk, test, n))
<1> DEFINE s == [kind |-> "guard", test |-> test, on |-> n]
<1>1. s.kind = "guard" /\ s.test = test /\ s.on = n
  OBVIOUS
<1>2. walk' = Visit(walk, s) /\ n \in Names /\ Depth # 0 /\ walk \in Visitor /\ test \in {"allow", "ok"}
  BY DEF Guards, Walk, TypeInv, WalkType
<1> HIDE DEF s
<1>3. CASE walk.asleep > 0
  <2>1. Visit(walk, s) = [walk EXCEPT !.asleep = walk.asleep]
    <3>1. s.kind \notin Opens /\ s.kind # "exit"
      BY <1>1 DEF Opens
    <3> QED BY <1>3, <3>1 DEF Visit
  <2> QED BY <1>2, <1>3, <2>1, AwakeIs DEF Visitor
<1>4. CASE walk.asleep = 0
  <2>1. Visit(walk, s) = Narrow(walk, test, n)
    BY <1>1, <1>4 DEF Visit
  <2>2. walk.scopes # <<>> /\ Len(walk.scopes) = Depth
    BY <1>2, <1>4, AwakeIs
  <2>3. /\ Topped(Narrow(walk, test, n), walk, walk.scopes[Len(walk.scopes)] \ Gone(walk, test, n))
        /\ Narrow(walk, test, n).inits = walk.inits
    BY <1>2, <2>2, NarrowIs DEF Gone
  <2>4. walk' = Narrow(walk, test, n)
    BY <1>2, <2>1
  <2> QED BY <1>4, <2>2, <2>3, <2>4
<1> QED BY <1>3, <1>4, AwakeIs

\* In the function the run is in, the test proves just what the walk drops.
LEMMA GuardDrops ==
  ASSUME HandlerInv, NEW n, NEW test, NEW goes, Guards(n, test, goes), Live, walk.asleep = 0
  PROVE  /\ "miss" \notin excused' =>
              \A x \in Gone(walk, test, n) : x \in DOMAIN env[Depth] => <<Depth, x>> \in Vouched([kind |-> "guard", test |-> test, on |-> n])
         /\ "cry" \notin excused' =>
              \A d : \A x : <<d, x>> \in Vouched([kind |-> "guard", test |-> test, on |-> n]) => d = Depth /\ x \in Gone(walk, test, n)
<1> DEFINE s == [kind |-> "guard", test |-> test, on |-> n]
<1>1. s.kind = "guard" /\ s.test = test /\ s.on = n
  OBVIOUS
<1>2. /\ TypeInv /\ MissInv /\ CryInv /\ TrustInv /\ RunType
      /\ n \in Names /\ Bound(n) /\ Depth # 0 /\ test \in {"allow", "ok"} /\ Walk(s, goes)
  BY DEF HandlerInv, TypeInv, Guards
<1>3. /\ "miss" \notin excused' => "miss" \notin excused
      /\ "cry" \notin excused' => ~MayCry(s) /\ "cry" \notin excused
  BY <1>2, Excuses
<1> HIDE DEF s
<1>4. Len(walk.scopes) = Depth /\ DOMAIN env = 1..Depth /\ Depth \in 1..Depth /\ at = Depth /\ Len(env) = Depth /\ env # <<>>
  BY <1>2, AwakeIs, DepthIs DEF Live, Depth
<1>5. Owner(n) \in 1..Depth /\ Owns(env, Owner(n), n)
  BY <1>2, OwnerIs
<1>6. \A x : \A o : Owns(env, o, x) /\ x \in DOMAIN env[Depth] => o = Depth
  <2> SUFFICES ASSUME NEW x, NEW o, Owns(env, o, x), x \in DOMAIN env[Depth] PROVE o = Depth
    OBVIOUS
  <2>1. o \in 1..Depth /\ Depth <= o
    BY <1>4 DEF Owns
  <2> QED BY <1>4, <2>1
<1>7. "cry" \notin excused' => \A x \in Vouched(s) : x[1] = Depth
  BY <1>1, <1>3 DEF MayCry
<1>8. CASE test = "allow"
  <2>1. Vouched(s) = {<<Owner(n), n>>} /\ Gone(walk, test, n) = {n}
    BY <1>1, <1>8 DEF Vouched, Gone
  <2>2. n \in DOMAIN env[Depth] => Owner(n) = Depth
    BY <1>5, <1>6
  <2>3. "cry" \notin excused' => Owner(n) = Depth
    BY <1>7, <2>1
  <2> QED BY <2>1, <2>2, <2>3 DEF s
<1>9. CASE test = "ok"
  <2>1. /\ \A k \in links : k.says = <<Owner(n), n>> => k.says \in Vouched(s) /\ k.of \in Vouched(s)
        /\ \A v \in Vouched(s) : \E k \in links : k.says = <<Owner(n), n>> /\ (v = k.says \/ v = k.of)
    BY <1>1, <1>9 DEF Vouched
  <2>2. Gone(walk, test, n) = IF n \in DOMAIN walk.inits THEN {walk.inits[n], n} ELSE {}
    BY <1>9 DEF Gone
  <2>3. ASSUME "miss" \notin excused', NEW x \in Gone(walk, test, n), x \in DOMAIN env[Depth] PROVE <<Depth, x>> \in Vouched(s)
    <3>1. Noted(walk, env, links, at) /\ n \in DOMAIN walk.inits /\ x \in {walk.inits[n], n}
      BY <1>2, <1>3, <2>2, <2>3 DEF MissInv
    <3>2. n \in DOMAIN env[Depth]
      BY <1>4, <3>1 DEF Noted
    <3>3. PICK k \in links : k.says = <<Depth, n>> /\ k.of = <<k.of[1], walk.inits[n]>> /\ Owns(env, k.of[1], k.of[2])
      BY <1>4, <3>1 DEF Noted
    <3>4. Owner(n) = Depth
      BY <1>5, <1>6, <3>2
    <3>5. k.says \in Vouched(s) /\ k.of \in Vouched(s)
      BY <2>1, <3>3, <3>4
    <3>6. CASE x = n
      BY <3>3, <3>5, <3>6
    <3>7. CASE x = walk.inits[n]
      <4>1. k.of[2] = x
        BY <3>3, <3>7
      <4>2. k.of[1] = Depth
        BY <1>6, <2>3, <3>3, <4>1
      <4> QED BY <3>3, <3>5, <3>7, <4>2
    <3> QED BY <3>1, <3>6, <3>7
  <2>4. ASSUME "cry" \notin excused', NEW d, NEW x, <<d, x>> \in Vouched(s) PROVE d = Depth /\ x \in Gone(walk, test, n)
    <3>1. Linked(walk, env, links, at)
      BY <1>2, <1>3, <2>4 DEF CryInv
    <3>2. PICK k \in links : k.says = <<Owner(n), n>> /\ (<<d, x>> = k.says \/ <<d, x>> = k.of)
      BY <2>1, <2>4
    <3>3. k.says[1] = Depth /\ k.says[2] = n /\ d = Depth
      BY <1>7, <2>1, <2>4, <3>2
    <3>4. n \in DOMAIN walk.inits /\ k.of[2] = walk.inits[n]
      BY <1>4, <3>1, <3>3 DEF Linked
    <3>5. x = n \/ x = k.of[2]
      BY <3>2
    <3> QED BY <2>2, <3>3, <3>4, <3>5
  <2> QED BY <2>3, <2>4 DEF s
<1> QED BY <1>2, <1>8, <1>9

LEMMA GuardKeeps ==
  ASSUME HandlerInv, NEW n, NEW test, NEW goes, Guards(n, test, goes)
  PROVE  HandlerInv'
<1> DEFINE s == [kind |-> "guard", test |-> test, on |-> n]
           gone == Gone(walk, test, n)
<1>1. /\ TypeInv /\ MissInv /\ CryInv /\ TrustInv /\ RunType
      /\ n \in Names /\ Bound(n) /\ Depth # 0 /\ goes \in BOOLEAN /\ Walk(s, goes)
  BY DEF HandlerInv, TypeInv, Guards
<1>2. /\ Len(env') = Depth /\ env' \in Seq(Frames) /\ trusted' = trusted /\ links' = links
      /\ at' = (IF Live /\ ~goes THEN Depth - 1 ELSE at)
      /\ \A d \in 1..Depth : DOMAIN env'[d] = DOMAIN env[d]
      /\ \A d \in 1..Depth : \A x : Data(env', d, x) <=> Data(env, d, x) /\ (Live /\ goes => <<d, x>> \notin Vouched(s))
  BY <1>1, GuardDoes
<1>3. /\ walk'.inits = walk.inits
      /\ walk.asleep > 0 => walk' = walk
      /\ walk.asleep = 0 => Topped(walk', walk, walk.scopes[Depth] \ gone)
  BY <1>1, GuardVisits
<1>4. /\ "miss" \notin excused' => "miss" \notin excused
      /\ "cry" \notin excused' => ~MayCry(s) /\ "cry" \notin excused
  BY <1>1, Excuses
<1>5. Live /\ walk.asleep = 0 =>
        /\ "miss" \notin excused' => \A x \in gone : x \in DOMAIN env[Depth] => <<Depth, x>> \in Vouched(s)
        /\ "cry" \notin excused' => \A d : \A x : <<d, x>> \in Vouched(s) => d = Depth /\ x \in gone
  BY GuardDrops
<1>6. "cry" \notin excused' => \A d : \A x : <<d, x>> \in Vouched(s) => d = Depth
  <2>1. s.kind = "guard"
    OBVIOUS
  <2> HIDE DEF s
  <2>2. "cry" \notin excused' => \A x \in Vouched(s) : x[1] = Depth
    BY <1>4, <2>1 DEF MayCry
  <2> QED BY <2>2
<1> HIDE DEF s, gone
<1>7. /\ Len(walk.scopes) \in Nat /\ DOMAIN walk.scopes = 1..Len(walk.scopes) /\ walk.asleep \in Nat
      /\ Len(walk.scopes) + walk.asleep = Depth /\ Depth \in Nat \ {0} /\ Len(walk.scopes) # 0
      /\ DOMAIN env = 1..Depth /\ DOMAIN env' = 1..Depth /\ at \in 0..Depth /\ Len(env) = Depth
  BY <1>1, <1>2, AwakeIs, DepthIs DEF RunType, Depth
<1>8. walk.asleep > 0 \/ walk.asleep = 0
  BY <1>7
<1>9. at' \in 0..Depth /\ at' <= at /\ (at' = Depth => Live /\ goes)
  BY <1>2, <1>7 DEF Live
<1>10. Len(walk'.scopes) = Len(walk.scopes) /\ DOMAIN walk'.scopes = DOMAIN walk.scopes /\ walk'.asleep = walk.asleep
  BY <1>3, <1>8 DEF Topped
<1>11. /\ \A d \in 1..Len(walk.scopes) : d # Depth => walk'.scopes[d] = walk.scopes[d]
       /\ \A d \in 1..Len(walk.scopes) : d = Depth => walk'.scopes[d] = walk.scopes[d] \ gone /\ walk.asleep = 0
  <2>1. walk.asleep = 0 => Len(walk.scopes) = Depth
    BY <1>7
  <2> QED BY <1>3, <1>7, <1>8, <2>1 DEF Topped
<1>12. TypeInv' /\ TrustInv' /\ ((trusted \/ ~Suppressed(walk)) => (trusted' \/ ~Suppressed(walk')))
  <2>1. walk' = walk \/ \E x : Topped(walk', walk, x)
    BY <1>3, <1>8
  <2>2. \A l \in links' : l.says[1] \in 1..Depth /\ l.says[2] \in Names /\ l.of[1] \in 1..Depth /\ l.of[2] \in Names
    BY <1>1, <1>2, <1>7 DEF RunType
  <2> QED BY <1>1, <1>2, <1>7, <1>9, <2>1, <2>2, StepNoticeType, StatementKeepsType, StatementKeepsTrust DEF RunType
<1>13. ASSUME "miss" \notin excused' PROVE Caught(walk', env', at')
  <2>1. Caught(walk, env, at)
    BY <1>1, <1>4, <1>13 DEF MissInv
  <2> SUFFICES ASSUME NEW d \in 1..Len(walk.scopes), d <= at', NEW x \in Names, Data(env', d, x)
               PROVE  x \in walk'.scopes[d]
    BY <1>7, <1>10 DEF Caught
  <2>2. d \in 1..Depth /\ d <= at
    BY <1>7, <1>9
  <2>3. Data(env, d, x) /\ (Live /\ goes => <<d, x>> \notin Vouched(s))
    BY <1>2, <2>2
  <2>4. x \in walk.scopes[d] /\ x \in DOMAIN env[d]
    BY <1>7, <2>1, <2>2, <2>3 DEF Caught, Data
  <2>5. d = Depth => x \notin gone
    BY <1>5, <1>7, <1>9, <1>11, <1>13, <2>2, <2>3, <2>4
  <2> QED BY <1>11, <2>4, <2>5
<1>14. ASSUME "cry" \notin excused' PROVE Founded(walk', env', at')
  <2>1. Founded(walk, env, at)
    BY <1>1, <1>4, <1>14 DEF CryInv
  <2> SUFFICES ASSUME NEW d \in 1..Len(walk.scopes), d <= at', NEW x \in walk'.scopes[d]
               PROVE  \E j \in 1..d : Data(env', j, x)
    BY <1>7, <1>10 DEF Founded
  <2>2. d \in 1..Depth /\ d <= at /\ x \in walk.scopes[d]
    BY <1>7, <1>9, <1>11
  <2>3. PICK j \in 1..d : Data(env, j, x)
    BY <1>7, <2>1, <2>2 DEF Founded
  <2>4. j \in 1..Depth /\ (j = Depth => d = Depth)
    BY <1>7, <2>2
  <2>5. Live /\ goes => <<j, x>> \notin Vouched(s)
    <3> SUFFICES ASSUME Live, goes, <<j, x>> \in Vouched(s) PROVE FALSE
      OBVIOUS
    <3>1. d = Depth
      BY <1>6, <1>14, <2>4
    <3> QED BY <1>5, <1>11, <1>14, <3>1
  <2>6. Data(env', j, x)
    BY <1>2, <2>3, <2>4, <2>5
  <2> QED BY <2>6
<1>15. Unhidden(env) => Unhidden(env')
  BY <1>2, <1>7 DEF Unhidden
<1>16. ASSUME Noted(walk, env, links, at) PROVE Noted(walk', env', links', at')
  <2>1. env # <<>>
    BY <1>1, DepthIs
  <2>2. at' = Len(env') => at = Len(env)
    BY <1>2, <1>7, <1>9 DEF Live
  <2>3. DOMAIN env'[Len(env')] = DOMAIN env[Len(env)] /\ Len(env') = Len(env)
    BY <1>2, <1>7
  <2>4. \A o, x : Owns(env, o, x) => Owns(env', o, x)
    BY <1>2, <1>7 DEF Owns
  <2>5. ASSUME walk.asleep = 0, NEW x \in DOMAIN walk.inits
        PROVE  /\ x \in DOMAIN env'[Len(env')]
               /\ at' = Len(env') => \E k \in links' : k.says = <<Len(env'), x>> /\ k.of = <<k.of[1], walk.inits[x]>> /\ Owns(env', k.of[1], k.of[2])
    <3>1. x \in DOMAIN env[Len(env)]
      BY <1>16, <2>1, <2>5 DEF Noted
    <3>2. ASSUME at' = Len(env')
          PROVE  \E k \in links' : k.says = <<Len(env'), x>> /\ k.of = <<k.of[1], walk.inits[x]>> /\ Owns(env', k.of[1], k.of[2])
      <4>1. PICK k \in links : k.says = <<Len(env), x>> /\ k.of = <<k.of[1], walk.inits[x]>> /\ Owns(env, k.of[1], k.of[2])
        BY <1>16, <2>1, <2>2, <2>5, <3>2 DEF Noted
      <4> QED BY <1>2, <2>3, <2>4, <4>1
    <3> QED BY <2>3, <3>1, <3>2
  <2>6. walk.asleep > 0 => walk'.asleep # 0
    BY <1>7, <1>10
  <2> QED BY <1>3, <1>8, <1>10, <2>5, <2>6 DEF Noted
<1>17. Linked(walk, env, links, at) => Linked(walk', env', links', at')
  <2>1. \A k \in links : k.says[1] \in 1..Depth /\ (k.says[1] <= at' => k.says[1] <= at)
    BY <1>1, <1>7, <1>9 DEF RunType
  <2>2. \A k \in links : DOMAIN env'[k.says[1]] = DOMAIN env[k.says[1]]
    BY <1>2, <2>1
  <2> QED BY <1>2, <1>3, <1>10, <2>1, <2>2 DEF Linked
<1> QED BY <1>1, <1>4, <1>12, <1>13, <1>14, <1>15, <1>16, <1>17 DEF HandlerInv, MissInv, CryInv

-----------------------------------------------------------------------------
(* A function of the file, an inner function or a callback.                 *)
Opening(s, goes) ==
  /\ goes \in BOOLEAN /\ Walk(s, goes)
  /\ \/ s.kind = "function" /\ s.params \subseteq Names
     \/ s.kind = "arrow" /\ Depth = 0
     \/ s.kind = "local" /\ Depth # 0
     \/ s.kind = "callback" /\ s.params \subseteq Names /\ s.on \in Expressions /\ Depth # 0
Frame(s) == IF s.kind \in {"function", "callback"} THEN Given(s) ELSE <<>>

LEMMA OpenKinds ==
  ASSUME NEW s, NEW goes, Opening(s, goes)
  PROVE  s.kind \in Opens /\ s.kind \notin {"declare", "assign", "guard", "exit", "return", "write"}
BY DEF Opening, Opens

LEMMA FrameHolds ==
  ASSUME TypeInv, NEW s, NEW goes, Opening(s, goes)
  PROVE  /\ Frame(s) \in Frames
         /\ s.kind = "function" => DOMAIN Frame(s) = s.params /\ \A x \in s.params : Data(<<Frame(s)>>, 1, x) <=> ~Trusts(s)
         /\ s.kind = "callback" => DOMAIN Frame(s) = s.params /\ \A x \in s.params : Data(<<Frame(s)>>, 1, x) <=> Element(s) = "data"
         /\ s.kind \in {"arrow", "local"} => DOMAIN Frame(s) = {}
<1>1. RunType
  BY DEF TypeInv
<1>2. CASE s.kind = "function"
  <2>1. Frame(s) = [n \in s.params |-> IF Trusts(s) THEN "nothing" ELSE "data"] /\ s.params \subseteq Names
    BY <1>2 DEF Frame, Given, Opening
  <2>2. \A n \in s.params : (IF Trusts(s) THEN "nothing" ELSE "data") \in {"data", "lost", "nothing"}
    OBVIOUS
  <2>3. Frame(s) \in [s.params -> {"data", "lost", "nothing"}]
    BY <2>1, <2>2
  <2>4. Frame(s) \in Frames
    BY <2>1, <2>3 DEF Frames
  <2>5. \A n \in s.params : Frame(s)[n] = IF Trusts(s) THEN "nothing" ELSE "data"
    BY <2>1
  <2>6. \A n \in s.params : Frame(s)[n] = "data" <=> ~Trusts(s)
    BY <2>5
  <2>7. DOMAIN Frame(s) = s.params
    BY <2>1
  <2> QED BY <1>2, <2>4, <2>6, <2>7 DEF Data
<1>3. CASE s.kind = "callback"
  <2>1. Frame(s) = [n \in s.params |-> Element(s)] /\ s.params \subseteq Names
    BY <1>3 DEF Frame, Given, Opening
  <2>2. Element(s) \in {"data", "lost", "nothing"}
    BY <1>1, ValueIs DEF Element, Walks
  <2>3. Frame(s) \in [s.params -> {"data", "lost", "nothing"}]
    BY <2>1, <2>2
  <2>4. Frame(s) \in Frames
    BY <2>1, <2>3 DEF Frames
  <2>5. \A n \in s.params : Frame(s)[n] = Element(s)
    BY <2>1
  <2>6. DOMAIN Frame(s) = s.params
    BY <2>1
  <2> QED BY <1>3, <2>4, <2>5, <2>6 DEF Data
<1>4. CASE s.kind \in {"arrow", "local"}
  <2>1. s.kind \notin {"function", "callback"}
    BY <1>4
  <2> QED BY <2>1, NoneTyped DEF Frame
<1> QED BY <1>2, <1>3, <1>4 DEF Opening

LEMMA OpenDoes ==
  ASSUME TypeInv, NEW s, NEW goes, Opening(s, goes)
  PROVE  /\ Len(env') = Depth + 1 /\ env' \in Seq(Frames) /\ links' = links /\ trusted' = Trusts(s)
         /\ \A d \in 1..Depth : env'[d] = env[d]
         /\ env'[Depth + 1] = Frame(s)
         /\ at' = IF Live /\ goes THEN Depth + 1 ELSE at
<1>1. s.kind \in Opens /\ s.kind \notin {"declare", "assign", "guard", "exit", "return", "write"}
  BY OpenKinds
<1>2. /\ env' = EnvAfter(s, goes) /\ at' = AtAfter(s, goes) /\ links' = LinksAfter(s) /\ trusted' = Trusts(s)
      /\ goes \in BOOLEAN /\ RunType
  BY DEF Opening, Walk, TypeInv
<1>3. EnvAfter(s, goes) = Append(env, Frame(s))
  BY <1>1 DEF EnvAfter, Frame
<1>4. LinksAfter(s) = links
  BY <1>1 DEF LinksAfter, Writes
<1>5. AtAfter(s, goes) = IF Live /\ goes THEN Depth + 1 ELSE at
  BY <1>1 DEF AtAfter
<1>6. Frame(s) \in Frames
  BY FrameHolds
<1>7. env \in Seq(Frames) /\ Len(env) = Depth /\ DOMAIN env = 1..Depth /\ Depth \in Nat
  BY <1>2, DepthIs DEF RunType, Depth
<1>8. /\ Len(Append(env, Frame(s))) = Depth + 1 /\ Append(env, Frame(s)) \in Seq(Frames)
      /\ \A d \in 1..Depth : Append(env, Frame(s))[d] = env[d]
      /\ Append(env, Frame(s))[Depth + 1] = Frame(s)
  BY <1>6, <1>7
<1> QED BY <1>2, <1>3, <1>4, <1>5, <1>8

\* The visitor goes in, or does not look.
Enters(s, tainted, suppress) ==
  /\ walk.asleep = 0 /\ tainted \in SUBSET Names /\ suppress \in BOOLEAN /\ walk' = EnterFn(walk, tainted, suppress)
  /\ \/ /\ s.kind = "function" /\ suppress = (s.name \in walk.handlers)
        /\ tainted = IF suppress \/ ~BodySourceActive(walk) THEN {} ELSE s.params
     \/ s.kind = "arrow" /\ suppress = (s.name \in walk.handlers) /\ tainted = {}
     \/ /\ s.kind = "callback" /\ suppress = FALSE /\ tainted = s.params
        /\ IsHigherOrderMethod(s.method) /\ ReceiverTaintThroughChain(walk, s.on)
Sleeps(s) == Depth # 0 /\ walk' = [walk EXCEPT !.asleep = walk.asleep + 1]

LEMMA OpenVisits ==
  ASSUME TypeInv, NEW s, NEW goes, Opening(s, goes)
  PROVE  Sleeps(s) \/ \E tainted : \E suppress : Enters(s, tainted, suppress)
<1>1. s.kind \in Opens /\ s.kind # "exit"
  BY OpenKinds
<1>2. walk' = Visit(walk, s) /\ walk \in Visitor
  BY DEF Opening, Walk, TypeInv, WalkType
<1>3. Depth = 0 => walk.asleep = 0
  BY AwakeIs
<1>4. walk.asleep \in Nat
  BY AwakeIs
<1>5. CASE walk.asleep > 0
  <2>1. Visit(walk, s) = [walk EXCEPT !.asleep = walk.asleep + 1]
    BY <1>1, <1>5 DEF Visit
  <2> QED BY <1>2, <1>3, <1>5, <2>1 DEF Sleeps
<1>6. CASE walk.asleep = 0 /\ s.kind = "function"
  <2> DEFINE suppress == s.name \in walk.handlers
             tainted == IF suppress \/ ~BodySourceActive(walk) THEN {} ELSE s.params
  <2>1. Visit(walk, s) = VisitFunction(walk, s.name, s.params)
    BY <1>6 DEF Visit
  <2>2. VisitFunction(walk, s.name, s.params) = EnterFn(walk, tainted, suppress)
    BY DEF VisitFunction
  <2>3. tainted \in SUBSET Names /\ suppress \in BOOLEAN
    BY <1>6 DEF Opening
  <2>4. Enters(s, tainted, suppress)
    BY <1>2, <1>6, <2>1, <2>2, <2>3 DEF Enters
  <2> QED BY <2>4
<1>7. CASE walk.asleep = 0 /\ s.kind = "arrow"
  <2> DEFINE suppress == s.name \in walk.handlers
  <2>1. Visit(walk, s) = EnterFn(walk, {}, suppress)
    BY <1>7 DEF Visit, VisitArrow
  <2>2. Enters(s, {}, suppress)
    BY <1>2, <1>7, <2>1 DEF Enters
  <2> QED BY <2>2
<1>8. CASE walk.asleep = 0 /\ s.kind = "local"
  <2>1. Visit(walk, s) = [walk EXCEPT !.asleep = 1] /\ Depth # 0
    BY <1>8 DEF Visit, Sleep, Opening
  <2> QED BY <1>2, <1>8, <2>1 DEF Sleeps
<1>9. CASE walk.asleep = 0 /\ s.kind = "callback"
  <2>1. Visit(walk, s) = Callback(walk, s) /\ Depth # 0
    BY <1>9 DEF Visit, Opening
  <2>2. CASE IsHigherOrderMethod(s.method) /\ ReceiverTaintThroughChain(walk, s.on)
    <3>1. Callback(walk, s) = EnterFn(walk, s.params, FALSE)
      BY <2>2 DEF Callback
    <3>2. s.params \in SUBSET Names
      BY <1>9 DEF Opening
    <3>3. Enters(s, s.params, FALSE)
      BY <1>2, <1>9, <2>1, <2>2, <3>1, <3>2 DEF Enters
    <3> QED BY <3>3
  <2>3. CASE ~(IsHigherOrderMethod(s.method) /\ ReceiverTaintThroughChain(walk, s.on))
    <3>1. Callback(walk, s) = [walk EXCEPT !.asleep = 1]
      BY <2>3 DEF Callback, Sleep
    <3> QED BY <1>2, <1>9, <2>1, <3>1 DEF Sleeps
  <2> QED BY <2>2, <2>3
<1> QED BY <1>4, <1>5, <1>6, <1>7, <1>8, <1>9 DEF Opening

-----------------------------------------------------------------------------
LEMMA SleepKeeps ==
  ASSUME HandlerInv, NEW s, NEW goes, Opening(s, goes), Sleeps(s)
  PROVE  HandlerInv'
<1>1. /\ TypeInv /\ MissInv /\ CryInv /\ TrustInv /\ RunType /\ WalkType
      /\ Walk(s, goes) /\ goes \in BOOLEAN /\ Depth # 0
  BY DEF HandlerInv, TypeInv, Opening, Sleeps
<1>2. /\ Len(env') = Depth + 1 /\ env' \in Seq(Frames) /\ links' = links /\ trusted' = Trusts(s)
      /\ \A d \in 1..Depth : env'[d] = env[d]
      /\ env'[Depth + 1] = Frame(s)
      /\ at' = IF Live /\ goes THEN Depth + 1 ELSE at
  BY <1>1, OpenDoes
<1>3. trusted' = trusted
  BY <1>1, <1>2 DEF Trusts
<1>4. /\ "miss" \notin excused' => "miss" \notin excused
      /\ "cry" \notin excused' => ~MayCry(s) /\ "cry" \notin excused
  BY <1>1, Excuses
<1>5. /\ Len(walk.scopes) \in Nat /\ DOMAIN walk.scopes = 1..Len(walk.scopes) /\ walk.asleep \in Nat
      /\ Len(walk.scopes) + walk.asleep = Depth /\ Depth \in Nat \ {0}
      /\ DOMAIN env = 1..Depth /\ at \in 0..Depth /\ Len(env) = Depth
  BY <1>1, AwakeIs, DepthIs DEF RunType, Depth
<1>6. DOMAIN env' = 1..(Depth + 1)
  BY <1>2, <1>5
<1>7. /\ walk'.scopes = walk.scopes /\ walk'.suppress = walk.suppress /\ walk'.inits = walk.inits
      /\ walk'.asleep = walk.asleep + 1 /\ walk' \in Visitor
  BY <1>1, <1>5 DEF Sleeps, WalkType, Visitor
<1>8. TypeInv'
  <2>1. WalkType'
    BY <1>1, <1>2, <1>5, <1>7, AwakeIs DEF WalkType
  <2>2. RunType'
    <3>1. at' \in 0..(Depth + 1)
      BY <1>2, <1>5
    <3> QED BY <1>1, <1>2, <1>3, <1>5, <3>1 DEF RunType
  <2> QED BY <1>1, <2>1, <2>2, StepNoticeType DEF TypeInv
<1>9. TrustInv'
  BY <1>1, <1>3, <1>7, DepthIs DEF TrustInv
<1>10. (trusted \/ ~Suppressed(walk)) => (trusted' \/ ~Suppressed(walk'))
  BY <1>3, <1>7 DEF Suppressed
<1>11. \A d \in 1..Len(walk.scopes) : d \in 1..Depth /\ (d <= at' => d <= at)
  BY <1>2, <1>5 DEF Live
<1>12. \A d \in 1..Depth : \A x : Data(env', d, x) <=> Data(env, d, x)
  BY <1>2 DEF Data
<1>13. Caught(walk, env, at) => Caught(walk', env', at')
  BY <1>5, <1>7, <1>11, <1>12 DEF Caught
<1>14. ASSUME Founded(walk, env, at) PROVE Founded(walk', env', at')
  <2> SUFFICES ASSUME NEW d \in 1..Len(walk.scopes), d <= at', NEW x \in walk.scopes[d] PROVE \E j \in 1..d : Data(env', j, x)
    BY <1>5, <1>7 DEF Founded
  <2>1. PICK j \in 1..d : Data(env, j, x)
    BY <1>5, <1>11, <1>14 DEF Founded
  <2>2. j \in 1..Depth
    BY <1>5
  <2> QED BY <1>12, <2>1, <2>2
<1>15. Noted(walk', env', links', at')
  BY <1>5, <1>7 DEF Noted
<1>16. ASSUME "cry" \notin excused' PROVE Unhidden(env')
  <2>1. Unhidden(env)
    BY <1>1, <1>4, <1>16 DEF CryInv
  <2>2. \A x \in DOMAIN Frame(s) : Holds(x) # "data"
    <3>1. CASE s.kind \in {"arrow", "local"}
      BY <1>1, <3>1, FrameHolds
    <3>2. CASE s.kind \in {"function", "callback"}
      <4>1. DOMAIN Frame(s) = s.params
        BY <1>1, <3>2, FrameHolds
      <4>2. Binds(s) = s.params
        BY <3>2 DEF Binds
      <4> QED BY <1>4, <1>16, <4>1, <4>2 DEF MayCry
    <3> QED BY <3>1, <3>2 DEF Opening
  <2> SUFFICES ASSUME NEW i \in 1..(Depth + 1), NEW j \in 1..(Depth + 1), i < j, NEW x \in DOMAIN env'[j] PROVE ~Data(env', i, x)
    BY <1>6 DEF Unhidden
  <2>3. i \in 1..Depth /\ (j \in 1..Depth \/ j = Depth + 1)
    BY <1>5
  <2>4. CASE j \in 1..Depth
    BY <1>2, <1>5, <1>12, <2>1, <2>3, <2>4 DEF Unhidden
  <2>5. CASE j = Depth + 1
    BY <1>1, <1>2, <1>12, <2>1, <2>2, <2>3, <2>5, NotHeld
  <2> QED BY <2>3, <2>4, <2>5
<1>17. Linked(walk, env, links, at) => Linked(walk', env', links', at')
  <2>1. \A k \in links : k.says[1] \in 1..Depth /\ (k.says[1] <= at' => k.says[1] <= at)
    BY <1>1, <1>2, <1>5 DEF RunType, Live
  <2>2. \A k \in links : env'[k.says[1]] = env[k.says[1]]
    BY <1>2, <2>1
  <2> QED BY <1>2, <1>7, <2>1, <2>2 DEF Linked
<1> QED BY <1>1, <1>4, <1>8, <1>9, <1>10, <1>13, <1>14, <1>15, <1>16, <1>17 DEF HandlerInv, MissInv, CryInv

-----------------------------------------------------------------------------
LEMMA TrustedSuppressed ==
  ASSUME HandlerInv, Depth # 0, trusted
  PROVE  Suppressed(walk)
<1>1. TypeInv /\ TrustInv /\ RunType
  BY DEF HandlerInv, TypeInv
<1>2. walk \in Visitor /\ Len(walk.suppress) = Len(walk.scopes) /\ Len(walk.scopes) \in Nat /\ Len(walk.scopes) # 0 /\ env # <<>>
  BY <1>1, AwakeIs, DepthIs DEF TypeInv, WalkType
<1>3. 1 \in DOMAIN walk.suppress
  <2>1. walk.suppress \in Seq(BOOLEAN)
    BY <1>2 DEF Visitor
  <2> QED BY <1>2, <2>1
<1> QED BY <1>1, <1>2, <1>3 DEF TrustInv, Suppressed

\* What a function's scope starts with is what its parameters hold.
LEMMA EnterFrame ==
  ASSUME HandlerInv, NEW s, NEW goes, Opening(s, goes), NEW tainted, NEW suppress, Enters(s, tainted, suppress)
  PROVE  /\ "miss" \notin excused' =>
              /\ trusted' \/ (~Suppressed(walk) /\ ~suppress)
              /\ \A x \in DOMAIN Frame(s) : Data(<<Frame(s)>>, 1, x) => x \in tainted
         /\ "cry" \notin excused' /\ Live => \A x \in tainted : x \in DOMAIN Frame(s) /\ Data(<<Frame(s)>>, 1, x)
         /\ trusted' => (IF Depth = 0 THEN suppress ELSE trusted)
<1>1. TypeInv /\ MissInv /\ CryInv /\ RunType /\ walk \in Visitor /\ Walk(s, goes) /\ walk.asleep = 0
  BY DEF HandlerInv, TypeInv, WalkType, Opening, Enters
<1>2. /\ "miss" \notin excused' => ~MayMiss(s) /\ (Depth # 0 => "miss" \notin excused)
      /\ "cry" \notin excused' => ~MayCry(s) /\ (Depth # 0 => "cry" \notin excused)
  BY <1>1, Excuses
<1>3. BodySourceActive(walk) <=> ~Suppressed(walk)
  BY <1>1, ActiveIs
<1>4. trusted' = Trusts(s) /\ s.kind \in Opens
  BY <1>1, OpenKinds DEF Walk
<1>5. Trusts(s) = IF Depth = 0 THEN s.name \in walk.handlers ELSE trusted
  BY <1>4 DEF Trusts
<1>6. /\ s.kind = "function" => DOMAIN Frame(s) = s.params /\ \A x \in s.params : Data(<<Frame(s)>>, 1, x) <=> ~Trusts(s)
      /\ s.kind = "callback" => DOMAIN Frame(s) = s.params /\ \A x \in s.params : Data(<<Frame(s)>>, 1, x) <=> Element(s) = "data"
      /\ s.kind \in {"arrow", "local"} => DOMAIN Frame(s) = {}
  BY <1>1, FrameHolds
<1>7. Depth = 0 => ~Suppressed(walk)
  <2> SUFFICES ASSUME Depth = 0 PROVE ~Suppressed(walk)
    OBVIOUS
  <2>1. Len(walk.suppress) = 0 /\ walk.suppress \in Seq(BOOLEAN)
    BY <1>1, AwakeIs DEF TypeInv, WalkType, Visitor
  <2>2. DOMAIN walk.suppress = {}
    BY <2>1
  <2> QED BY <2>2 DEF Suppressed
<1>8. Depth # 0 => ("miss" \notin excused => trusted \/ ~Suppressed(walk)) /\ (trusted => Suppressed(walk))
  BY <1>1, TrustedSuppressed DEF MissInv
<1>9. CASE s.kind = "function"
  <2>1. /\ suppress = (s.name \in walk.handlers)
        /\ tainted = IF suppress \/ ~BodySourceActive(walk) THEN {} ELSE s.params
    BY <1>9 DEF Enters
  <2>2. "miss" \notin excused' /\ Depth # 0 => ~suppress
    <3>1. Depth \in Nat
      BY <1>1, DepthIs
    <3>2. "miss" \notin excused' /\ Depth # 0 => ~(s.name \in walk.handlers)
      BY <1>2, <1>9, <3>1 DEF MayMiss
    <3> QED BY <2>1, <3>2
  <2>3. CASE Depth = 0
    <3>1. trusted' = suppress /\ (tainted = IF suppress THEN {} ELSE s.params)
      BY <1>3, <1>4, <1>5, <1>7, <2>1, <2>3
    <3> QED BY <1>4, <1>6, <1>7, <1>9, <2>3, <3>1
  <2>4. CASE Depth # 0
    <3>1. Trusts(s) = trusted /\ trusted' = trusted
      BY <1>4, <1>5, <2>4
    <3> QED BY <1>2, <1>3, <1>6, <1>8, <1>9, <2>1, <2>2, <2>4, <3>1
  <2> QED BY <2>3, <2>4
<1>10. CASE s.kind = "arrow"
  <2>1. Depth = 0 /\ suppress = (s.name \in walk.handlers) /\ tainted = {}
    BY <1>10 DEF Enters, Opening
  <2> QED BY <1>4, <1>5, <1>6, <1>7, <1>10, <2>1
<1>11. CASE s.kind = "callback"
  <2>1. /\ Depth # 0 /\ suppress = FALSE /\ tainted = s.params /\ s.on \in Expressions
        /\ IsHigherOrderMethod(s.method) /\ ReceiverTaintThroughChain(walk, s.on)
    BY <1>11 DEF Enters, Opening
  <2>2. Trusts(s) = trusted /\ trusted' = trusted
    BY <1>4, <1>5, <2>1
  <2>3. ASSUME "cry" \notin excused', Live PROVE Element(s) = "data"
    <3>1. s.method # "catch"
      BY <1>2, <1>11, <2>3 DEF MayCry
    <3>2. Depth > 0 /\ "cry" \notin excused
      BY <1>1, <1>2, <2>1, <2>3, DepthIs
    <3>3. Reads(walk, s.on, ReadOnly \cup {"filtered"})
      BY <2>1, ThreeWalks
    <3>4. Value(s.on, ReadOnly \cup {"filtered"}) = "data"
      BY <1>1, <2>1, <2>3, <3>2, <3>3, ReadsAreValues DEF Walks
    <3> QED BY <3>1, <3>4 DEF Element
  <2> QED BY <1>2, <1>6, <1>8, <1>11, <2>1, <2>2, <2>3
<1> QED BY <1>9, <1>10, <1>11 DEF Enters

LEMMA EnterKeeps ==
  ASSUME HandlerInv, NEW s, NEW goes, Opening(s, goes), NEW tainted, NEW suppress, Enters(s, tainted, suppress)
  PROVE  HandlerInv'
<1>1. /\ TypeInv /\ MissInv /\ CryInv /\ TrustInv /\ RunType /\ WalkType
      /\ Walk(s, goes) /\ goes \in BOOLEAN
      /\ walk.asleep = 0 /\ tainted \in SUBSET Names /\ suppress \in BOOLEAN /\ walk' = EnterFn(walk, tainted, suppress)
  BY DEF HandlerInv, TypeInv, Opening, Enters
<1>2. /\ Len(env') = Depth + 1 /\ env' \in Seq(Frames) /\ links' = links /\ trusted' = Trusts(s)
      /\ \A d \in 1..Depth : env'[d] = env[d]
      /\ env'[Depth + 1] = Frame(s)
      /\ at' = IF Live /\ goes THEN Depth + 1 ELSE at
  BY <1>1, OpenDoes
<1>3. /\ "miss" \notin excused' => (Depth # 0 => "miss" \notin excused)
      /\ "cry" \notin excused' => ~MayCry(s) /\ (Depth # 0 => "cry" \notin excused)
  BY <1>1, Excuses
<1>4. /\ Len(walk.scopes) = Depth /\ DOMAIN walk.scopes = 1..Depth /\ Depth \in Nat
      /\ DOMAIN env = 1..Depth /\ at \in 0..Depth /\ Len(env) = Depth
  BY <1>1, AwakeIs, DepthIs DEF RunType, Depth
<1>5. DOMAIN env' = 1..(Depth + 1) /\ Depth + 1 \in 1..(Depth + 1)
  BY <1>2, <1>4
<1>6. /\ walk' \in Visitor /\ walk'.asleep = 0 /\ DOMAIN walk'.inits = {}
      /\ walk'.scopes = Append(walk.scopes, tainted) /\ walk'.suppress = Append(walk.suppress, suppress)
      /\ Len(walk'.scopes) = Depth + 1 /\ Len(walk'.suppress) = Depth + 1
  <2>1. LET v == EnterFn(walk, tainted, suppress)
        IN  /\ v \in Visitor /\ v.handlers = walk.handlers /\ v.asleep = walk.asleep /\ DOMAIN v.inits = {}
            /\ v.scopes = Append(walk.scopes, tainted) /\ v.suppress = Append(walk.suppress, suppress)
            /\ Len(v.scopes) = Len(walk.scopes) + 1 /\ Len(v.suppress) = Len(walk.suppress) + 1
    BY <1>1, EnterIs DEF WalkType
  <2>2. Len(walk.suppress) = Depth
    BY <1>1, <1>4 DEF WalkType
  <2> QED BY <1>1, <1>4, <2>1, <2>2
<1>7. /\ DOMAIN walk'.scopes = 1..(Depth + 1) /\ walk'.scopes[Depth + 1] = tainted
      /\ \A d \in 1..Depth : walk'.scopes[d] = walk.scopes[d]
      /\ DOMAIN walk.suppress = 1..Depth
      /\ DOMAIN walk'.suppress = 1..(Depth + 1) /\ walk'.suppress[Depth + 1] = suppress
      /\ \A d \in 1..Depth : walk'.suppress[d] = walk.suppress[d]
  <2>1. walk.scopes \in Seq(SUBSET Names) /\ walk.suppress \in Seq(BOOLEAN) /\ Len(walk.suppress) = Depth
    BY <1>1, <1>4 DEF WalkType, Visitor
  <2> QED BY <1>4, <1>6, <2>1
<1>8. /\ "miss" \notin excused' =>
           /\ trusted' \/ (~Suppressed(walk) /\ ~suppress)
           /\ \A x \in DOMAIN Frame(s) : Data(<<Frame(s)>>, 1, x) => x \in tainted
      /\ "cry" \notin excused' /\ Live => \A x \in tainted : x \in DOMAIN Frame(s) /\ Data(<<Frame(s)>>, 1, x)
      /\ trusted' => (IF Depth = 0 THEN suppress ELSE trusted)
  BY EnterFrame
<1>9. /\ \A d \in 1..Depth : \A x : Data(env', d, x) <=> Data(env, d, x)
      /\ \A x : Data(env', Depth + 1, x) <=> x \in DOMAIN Frame(s) /\ Data(<<Frame(s)>>, 1, x)
  BY <1>2 DEF Data
<1>10. \A d \in 1..Depth : d <= at' => d <= at
  BY <1>2, <1>4 DEF Live
<1>11. Depth + 1 <= at' => Live
  BY <1>2, <1>4 DEF Live
<1>12. TypeInv'
  <2>1. WalkType'
    <3>1. walk'.scopes # <<>>
      BY <1>7, <1>5
    <3> QED BY <1>2, <1>4, <1>6, <3>1 DEF WalkType
  <2>2. RunType'
    <3>1. at' \in 0..(Depth + 1)
      BY <1>2, <1>4
    <3>2. Trusts(s) \in BOOLEAN
      <4>1. trusted \in BOOLEAN
        BY <1>1 DEF RunType
      <4>2. CASE Depth = 0 /\ s.kind \in Opens
        BY <4>2 DEF Trusts
      <4>3. CASE ~(Depth = 0 /\ s.kind \in Opens)
        BY <4>1, <4>3 DEF Trusts
      <4> QED BY <4>2, <4>3
    <3> QED BY <1>1, <1>2, <1>4, <3>1, <3>2 DEF RunType
  <2> QED BY <1>1, <2>1, <2>2, StepNoticeType DEF TypeInv
<1>13. TrustInv'
  <2>1. CASE Depth = 0
    <3>1. trusted' => suppress = TRUE
      BY <1>1, <1>8, <2>1
    <3>2. walk'.suppress[1] = suppress
      BY <1>7, <2>1
    <3>3. trusted' => walk'.suppress[1] = TRUE
      BY <3>1, <3>2
    <3> QED BY <3>3 DEF TrustInv
  <2>2. CASE Depth # 0
    <3>1. 1 \in 1..Depth /\ env # <<>>
      BY <1>1, <1>4, <2>2, DepthIs
    <3> QED BY <1>1, <1>7, <1>8, <2>2, <3>1 DEF TrustInv
  <2> QED BY <2>1, <2>2
<1>14. ASSUME "miss" \notin excused' PROVE trusted' \/ ~Suppressed(walk')
  <2>1. ASSUME ~Suppressed(walk), ~suppress PROVE ~Suppressed(walk')
    <3>1. \A d \in 1..(Depth + 1) : d \in 1..Depth \/ d = Depth + 1
      BY <1>4
    <3> QED BY <1>7, <2>1, <3>1 DEF Suppressed
  <2> QED BY <1>8, <1>14, <2>1
<1>15. ASSUME "miss" \notin excused' PROVE Caught(walk', env', at')
  <2> SUFFICES ASSUME NEW d \in 1..(Depth + 1), d <= at', NEW x \in Names, Data(env', d, x) PROVE x \in walk'.scopes[d]
    BY <1>7 DEF Caught
  <2>1. CASE d = Depth + 1
    BY <1>7, <1>8, <1>9, <1>15, <2>1
  <2>2. CASE d # Depth + 1
    <3>1. d \in 1..Depth /\ Depth # 0
      BY <1>4, <2>2
    <3>2. Caught(walk, env, at)
      BY <1>1, <1>3, <1>15, <3>1 DEF MissInv
    <3> QED BY <1>4, <1>7, <1>9, <1>10, <3>1, <3>2 DEF Caught
  <2> QED BY <2>1, <2>2
<1>16. ASSUME "cry" \notin excused' PROVE Founded(walk', env', at')
  <2> SUFFICES ASSUME NEW d \in 1..(Depth + 1), d <= at', NEW x \in walk'.scopes[d] PROVE \E j \in 1..d : Data(env', j, x)
    BY <1>7 DEF Founded
  <2>1. CASE d = Depth + 1
    <3>1. Data(env', Depth + 1, x)
      BY <1>7, <1>8, <1>9, <1>11, <1>16, <2>1
    <3> QED BY <1>4, <2>1, <3>1
  <2>2. CASE d # Depth + 1
    <3>1. d \in 1..Depth /\ Depth # 0 /\ x \in walk.scopes[d] /\ d <= at
      BY <1>4, <1>7, <1>10, <2>2
    <3>2. Founded(walk, env, at)
      BY <1>1, <1>3, <1>16, <3>1 DEF CryInv
    <3>3. PICK j \in 1..d : Data(env, j, x)
      BY <1>4, <3>1, <3>2 DEF Founded
    <3>4. j \in 1..Depth
      BY <1>4, <3>1
    <3> QED BY <1>9, <3>3, <3>4
  <2> QED BY <2>1, <2>2
<1>17. Noted(walk', env', links', at')
  BY <1>6 DEF Noted
<1>18. ASSUME "cry" \notin excused' PROVE Unhidden(env')
  <2>1. Depth # 0 => Unhidden(env)
    BY <1>1, <1>3, <1>18 DEF CryInv
  <2>2. \A x \in DOMAIN Frame(s) : Holds(x) # "data"
    <3>1. CASE s.kind \in {"arrow", "local"}
      BY <1>1, <3>1, FrameHolds
    <3>2. CASE s.kind \in {"function", "callback"}
      <4>1. DOMAIN Frame(s) = s.params
        BY <1>1, <3>2, FrameHolds
      <4>2. Binds(s) = s.params
        BY <3>2 DEF Binds
      <4> QED BY <1>3, <1>18, <4>1, <4>2 DEF MayCry
    <3> QED BY <3>1, <3>2 DEF Opening
  <2> SUFFICES ASSUME NEW i \in 1..(Depth + 1), NEW j \in 1..(Depth + 1), i < j, NEW x \in DOMAIN env'[j] PROVE ~Data(env', i, x)
    BY <1>5 DEF Unhidden
  <2>3. i \in 1..Depth /\ (j \in 1..Depth \/ j = Depth + 1) /\ Depth # 0
    BY <1>4
  <2>4. CASE j \in 1..Depth
    BY <1>2, <1>4, <1>9, <2>1, <2>3, <2>4 DEF Unhidden
  <2>5. CASE j = Depth + 1
    BY <1>1, <1>2, <1>9, <2>1, <2>2, <2>3, <2>5, NotHeld
  <2> QED BY <2>3, <2>4, <2>5
<1>19. ASSUME "cry" \notin excused' PROVE Linked(walk', env', links', at')
  <2>1. Walked(s)
    <3>1. Visit(walk, s) = walk'
      BY <1>1 DEF Walk
    <3> QED BY <1>1, <1>6, <3>1, OpenKinds DEF Walked
  <2>2. links = {}
    BY <1>3, <1>19, <2>1 DEF MayCry
  <2> QED BY <1>2, <2>2 DEF Linked
<1> QED BY <1>12, <1>13, <1>14, <1>15, <1>16, <1>17, <1>18, <1>19 DEF HandlerInv, MissInv, CryInv

LEMMA OpenKeeps ==
  ASSUME HandlerInv, NEW s, NEW goes, Opening(s, goes)
  PROVE  HandlerInv'
<1>1. Sleeps(s) \/ \E tainted : \E suppress : Enters(s, tainted, suppress)
  BY OpenVisits DEF HandlerInv
<1> QED BY <1>1, SleepKeeps, EnterKeeps

-----------------------------------------------------------------------------
(* The end of a function.                                                   *)
Exits == Depth # 0 /\ Walk([kind |-> "exit"], TRUE)

LEMMA ExitDoes ==
  ASSUME TypeInv, Exits
  PROVE  /\ Len(env') = Depth - 1 /\ env' \in Seq(Frames) /\ trusted' = trusted
         /\ \A d \in 1..(Depth - 1) : env'[d] = env[d]
         /\ links' = {l \in links : l.says[1] < Depth /\ l.of[1] < Depth}
         /\ at' \in 0..(Depth - 1) /\ at' <= at
<1> DEFINE s == [kind |-> "exit"]
<1>1. s.kind = "exit" /\ s.kind \notin Opens
  BY DEF Opens
<1>2. /\ env' = EnvAfter(s, TRUE) /\ at' = AtAfter(s, TRUE) /\ links' = LinksAfter(s) /\ trusted' = Trusts(s)
      /\ Depth # 0 /\ RunType
  BY DEF Exits, Walk, TypeInv
<1> HIDE DEF s
<1>3. EnvAfter(s, TRUE) = Front(env) /\ Trusts(s) = trusted
  BY <1>1 DEF EnvAfter, Trusts
<1>4. LinksAfter(s) = {l \in links : l.says[1] < Depth /\ l.of[1] < Depth}
  BY <1>1 DEF LinksAfter, Writes
<1>5. AtAfter(s, TRUE) = Min({at, Depth - 1})
  BY <1>1 DEF AtAfter
<1>6. env \in Seq(Frames) /\ Len(env) = Depth /\ Depth \in Nat \ {0} /\ at \in 0..Depth /\ env # <<>>
  BY <1>2, DepthIs DEF RunType, Depth
<1>7. Front(env) \in Seq(Frames) /\ Len(Front(env)) = Depth - 1 /\ \A d \in 1..(Depth - 1) : Front(env)[d] = env[d]
  BY <1>6, FrontOf
<1>8. Min({at, Depth - 1}) = IF at < Depth - 1 THEN at ELSE Depth - 1
  BY <1>6, SmallerOf
<1>9. Min({at, Depth - 1}) \in 0..(Depth - 1) /\ Min({at, Depth - 1}) <= at
  BY <1>6, <1>8
<1> QED BY <1>2, <1>3, <1>4, <1>5, <1>7, <1>9

LEMMA ExitVisits ==
  ASSUME TypeInv, Exits
  PROVE  \/ walk.asleep > 0 /\ walk' = [walk EXCEPT !.asleep = walk.asleep - 1]
         \/ walk.asleep = 0 /\ walk' = ExitFn(walk)
<1> DEFINE s == [kind |-> "exit"]
<1>1. s.kind = "exit" /\ s.kind \notin Opens
  BY DEF Opens
<1>2. walk' = Visit(walk, s)
  BY DEF Exits, Walk
<1> HIDE DEF s
<1>3. walk.asleep \in Nat
  BY AwakeIs
<1>4. CASE walk.asleep > 0
  <2>1. Visit(walk, s) = [walk EXCEPT !.asleep = walk.asleep - 1]
    BY <1>1, <1>4 DEF Visit
  <2> QED BY <1>2, <1>4, <2>1
<1>5. CASE walk.asleep = 0
  <2>1. Visit(walk, s) = ExitFn(walk)
    BY <1>1, <1>5 DEF Visit
  <2> QED BY <1>2, <1>5, <2>1
<1> QED BY <1>3, <1>4, <1>5

\* Either way the visitor keeps the scopes of the functions that are left.
LEMMA ExitScopes ==
  ASSUME TypeInv, Exits
  PROVE  /\ walk' \in Visitor /\ walk'.inits = walk.inits /\ walk'.asleep \in Nat
         /\ Len(walk'.scopes) + walk'.asleep = Depth - 1 /\ Len(walk'.suppress) = Len(walk'.scopes)
         /\ DOMAIN walk'.scopes = 1..Len(walk'.scopes) /\ Len(walk'.scopes) \in Nat /\ Len(walk'.scopes) <= Len(walk.scopes)
         /\ \A d \in 1..Len(walk'.scopes) : walk'.scopes[d] = walk.scopes[d] /\ walk'.suppress[d] = walk.suppress[d]
         /\ DOMAIN walk'.suppress = 1..Len(walk'.scopes) /\ DOMAIN walk.suppress = 1..Len(walk.scopes)
         /\ Depth > 1 => Len(walk'.scopes) # 0
         /\ Len(walk'.scopes) = Len(walk.scopes) \/ Len(walk.scopes) = Depth
<1>1. /\ Len(walk.scopes) \in Nat /\ walk.asleep \in Nat /\ Len(walk.scopes) + walk.asleep = Depth /\ Depth \in Nat \ {0}
      /\ walk.scopes # <<>> /\ Len(walk.scopes) # 0
  BY AwakeIs DEF Exits
<1>2. walk \in Visitor /\ Len(walk.suppress) = Len(walk.scopes)
  BY DEF TypeInv, WalkType
<1>3. walk.scopes \in Seq(SUBSET Names) /\ walk.suppress \in Seq(BOOLEAN)
  BY <1>2 DEF Visitor
<1>4. DOMAIN walk.scopes = 1..Len(walk.scopes) /\ DOMAIN walk.suppress = 1..Len(walk.scopes)
  BY <1>2, <1>3
<1>5. CASE walk.asleep > 0 /\ walk' = [walk EXCEPT !.asleep = walk.asleep - 1]
  <2>1. walk.asleep - 1 \in Nat
    BY <1>1, <1>5
  <2>2. /\ walk' \in Visitor /\ walk'.inits = walk.inits /\ walk'.asleep = walk.asleep - 1
        /\ walk'.scopes = walk.scopes /\ walk'.suppress = walk.suppress
    BY <1>2, <1>5, <2>1 DEF Visitor
  <2> QED BY <1>1, <1>2, <1>4, <2>1, <2>2
<1>6. CASE walk.asleep = 0 /\ walk' = ExitFn(walk)
  <2>1. LET v == ExitFn(walk)
        IN  /\ v \in Visitor /\ v.handlers = walk.handlers /\ v.asleep = walk.asleep /\ v.inits = walk.inits
            /\ v.scopes = Front(walk.scopes) /\ v.suppress = Front(walk.suppress)
            /\ Len(v.scopes) = Len(walk.scopes) - 1 /\ Len(v.suppress) = Len(walk.suppress) - 1
    BY <1>1, <1>2, ExitIs
  <2>2. DOMAIN Front(walk.scopes) = 1..(Len(walk.scopes) - 1) /\ \A d \in 1..(Len(walk.scopes) - 1) : Front(walk.scopes)[d] = walk.scopes[d]
    BY <1>1, <1>3, FrontOf
  <2>3. walk.suppress # <<>>
    BY <1>1, <1>2, <1>3, EmptySeq
  <2>4. DOMAIN Front(walk.suppress) = 1..(Len(walk.scopes) - 1) /\ \A d \in 1..(Len(walk.scopes) - 1) : Front(walk.suppress)[d] = walk.suppress[d]
    BY <1>2, <1>3, <2>3, FrontOf
  <2>5. /\ walk' \in Visitor /\ walk'.asleep = 0 /\ walk'.inits = walk.inits
        /\ walk'.scopes = Front(walk.scopes) /\ walk'.suppress = Front(walk.suppress)
        /\ Len(walk'.scopes) = Len(walk.scopes) - 1 /\ Len(walk'.suppress) = Len(walk.scopes) - 1
    BY <1>2, <1>6, <2>1
  <2>6. Len(walk.scopes) = Depth /\ Len(walk'.scopes) = Depth - 1
    BY <1>1, <1>6, <2>5
  <2>7. DOMAIN walk'.scopes = 1..(Depth - 1) /\ DOMAIN walk'.suppress = 1..(Depth - 1)
    BY <2>2, <2>4, <2>5, <2>6
  <2>8. \A d \in 1..(Depth - 1) : walk'.scopes[d] = walk.scopes[d] /\ walk'.suppress[d] = walk.suppress[d]
    BY <2>2, <2>4, <2>5, <2>6
  <2> QED BY <1>1, <1>4, <2>5, <2>6, <2>7, <2>8
<1> QED BY <1>5, <1>6, ExitVisits

LEMMA ExitKeeps ==
  ASSUME HandlerInv, Exits
  PROVE  HandlerInv'
<1> DEFINE s == [kind |-> "exit"]
<1>1. /\ TypeInv /\ MissInv /\ CryInv /\ TrustInv /\ RunType
      /\ Depth # 0 /\ Walk(s, TRUE)
  BY DEF HandlerInv, TypeInv, Exits
<1>2. /\ Len(env') = Depth - 1 /\ env' \in Seq(Frames) /\ trusted' = trusted
      /\ \A d \in 1..(Depth - 1) : env'[d] = env[d]
      /\ links' = {l \in links : l.says[1] < Depth /\ l.of[1] < Depth}
      /\ at' \in 0..(Depth - 1) /\ at' <= at
  BY <1>1, ExitDoes
<1>3. /\ walk' \in Visitor /\ walk'.inits = walk.inits /\ walk'.asleep \in Nat
      /\ Len(walk'.scopes) + walk'.asleep = Depth - 1 /\ Len(walk'.suppress) = Len(walk'.scopes)
      /\ DOMAIN walk'.scopes = 1..Len(walk'.scopes) /\ Len(walk'.scopes) \in Nat /\ Len(walk'.scopes) <= Len(walk.scopes)
      /\ \A d \in 1..Len(walk'.scopes) : walk'.scopes[d] = walk.scopes[d] /\ walk'.suppress[d] = walk.suppress[d]
      /\ DOMAIN walk'.suppress = 1..Len(walk'.scopes) /\ DOMAIN walk.suppress = 1..Len(walk.scopes)
      /\ Depth > 1 => Len(walk'.scopes) # 0
      /\ Len(walk'.scopes) = Len(walk.scopes) \/ Len(walk.scopes) = Depth
  BY <1>1, ExitScopes
<1>4. /\ "miss" \notin excused' => "miss" \notin excused /\ (Depth > 1 => DOMAIN walk.inits = {})
      /\ "cry" \notin excused' => "cry" \notin excused
  <2>1. s.kind = "exit"
    OBVIOUS
  <2>2. /\ "miss" \notin excused' => ~MayMiss(s) /\ "miss" \notin excused
        /\ "cry" \notin excused' => "cry" \notin excused
    BY <1>1, Excuses
  <2> HIDE DEF s
  <2> QED BY <2>1, <2>2 DEF MayMiss
<1> HIDE DEF s
<1>5. /\ Len(walk.scopes) \in Nat /\ DOMAIN walk.scopes = 1..Len(walk.scopes) /\ Depth \in Nat \ {0}
      /\ DOMAIN env = 1..Depth /\ at \in 0..Depth /\ Len(env) = Depth
  BY <1>1, AwakeIs, DepthIs DEF RunType, Depth
<1>6. DOMAIN env' = 1..(Depth - 1) /\ (env' # <<>> => Depth > 1)
  <2>1. DOMAIN env' = 1..(Depth - 1)
    BY <1>2, <1>5
  <2>2. Len(env') = 0 => env' = <<>>
    BY <1>2, EmptySeq
  <2> QED BY <1>2, <1>5, <2>1, <2>2
<1>7. TypeInv'
  <2>1. WalkType'
    <3>1. env' # <<>> => walk'.scopes # <<>>
      BY <1>3, <1>6
    <3> QED BY <1>2, <1>3, <3>1 DEF WalkType
  <2>2. RunType'
    BY <1>1, <1>2, <1>5 DEF RunType
  <2> QED BY <1>1, <2>1, <2>2, StepNoticeType DEF TypeInv
<1>8. TrustInv'
  <2> SUFFICES ASSUME trusted', env' # <<>> PROVE walk'.suppress[1]
    BY DEF TrustInv
  <2>1. env # <<>> /\ 1 \in 1..Len(walk'.scopes)
    BY <1>1, <1>3, <1>6, DepthIs
  <2>2. walk'.suppress[1] = walk.suppress[1]
    BY <1>3, <2>1
  <2> QED BY <1>1, <1>2, <2>1, <2>2 DEF TrustInv
<1>9. (trusted \/ ~Suppressed(walk)) => (trusted' \/ ~Suppressed(walk'))
  BY <1>2, <1>3, <1>5 DEF Suppressed
<1>10. \A d \in 1..(Depth - 1) : \A x : Data(env', d, x) <=> Data(env, d, x)
  BY <1>2 DEF Data
<1>11. \A d \in 1..Len(walk'.scopes) : d \in 1..(Depth - 1) /\ d \in 1..Len(walk.scopes) /\ (d <= at' => d <= at)
  BY <1>2, <1>3, <1>5
<1>12. Caught(walk, env, at) => Caught(walk', env', at')
  BY <1>3, <1>5, <1>10, <1>11 DEF Caught
<1>13. ASSUME Founded(walk, env, at) PROVE Founded(walk', env', at')
  <2> SUFFICES ASSUME NEW d \in 1..Len(walk'.scopes), d <= at', NEW x \in walk'.scopes[d] PROVE \E j \in 1..d : Data(env', j, x)
    BY <1>3 DEF Founded
  <2>1. PICK j \in 1..d : Data(env, j, x)
    BY <1>3, <1>5, <1>11, <1>13 DEF Founded
  <2>2. j \in 1..(Depth - 1)
    BY <1>5, <1>11
  <2> QED BY <1>10, <2>1, <2>2
<1>14. Unhidden(env) => Unhidden(env')
  <2>1. \A d \in DOMAIN env' : d \in DOMAIN env /\ env'[d] = env[d] /\ \A x : Data(env', d, x) <=> Data(env, d, x)
    BY <1>2, <1>5, <1>6, <1>10
  <2> QED BY <2>1 DEF Unhidden
<1>15. ASSUME "miss" \notin excused' PROVE Noted(walk', env', links', at')
  BY <1>3, <1>4, <1>6, <1>15 DEF Noted
<1>16. ASSUME Linked(walk, env, links, at) PROVE Linked(walk', env', links', at')
  <2> SUFFICES ASSUME NEW k \in links'
               PROVE  /\ k.says[1] >= Len(walk'.scopes) /\ k.says[2] \in DOMAIN env'[k.says[1]]
                      /\ k.says[1] = Len(walk'.scopes) /\ k.says[1] <= at' =>
                           k.says[2] \in DOMAIN walk'.inits /\ k.of[2] = walk'.inits[k.says[2]]
    BY DEF Linked
  <2>1. k \in links /\ k.says[1] < Depth /\ k.says[1] \in 1..Depth
    BY <1>1, <1>2, <1>5 DEF RunType
  <2>2. k.says[1] >= Len(walk.scopes) /\ k.says[2] \in DOMAIN env[k.says[1]]
    BY <1>16, <2>1 DEF Linked
  <2>3. Len(walk.scopes) # Depth /\ Len(walk'.scopes) = Len(walk.scopes)
    BY <1>3, <1>5, <2>1, <2>2
  <2>4. k.says[1] \in 1..(Depth - 1) /\ env'[k.says[1]] = env[k.says[1]] /\ (k.says[1] <= at' => k.says[1] <= at)
    BY <1>2, <1>5, <2>1
  <2> QED BY <1>3, <1>16, <2>1, <2>2, <2>3, <2>4 DEF Linked
<1> QED BY <1>1, <1>4, <1>7, <1>8, <1>9, <1>12, <1>13, <1>14, <1>15, <1>16 DEF HandlerInv, MissInv, CryInv

-----------------------------------------------------------------------------
(***************************************************************************)
(* What is noticed of a statement and what it deserves.                    *)
(***************************************************************************)
Judged(s) ==
  /\ s.kind = "write" => Depth # 0 /\ \A k \in DOMAIN s.args : s.args[k] \in Expressions
  /\ s.kind = "return" => Depth # 0 /\ s.expr \in Expressions

LEMMA WritesAreJudged ==
  ASSUME HandlerInv, NEW s, NEW goes, Walk(s, goes), Judged(s), s.kind = "write"
  PROVE  NothingUnnoticed' /\ NothingImagined'
<1> DEFINE seen == {k \in DOMAIN s.args : ExprIsTaintedReadonly(walk, s.args[k])}
           meant == {k \in DOMAIN s.args : Value(s.args[k], ReadOnly) = "data"}
<1>1. /\ "miss" \notin excused' => ~MayMiss(s) /\ "miss" \notin excused
      /\ "cry" \notin excused' => "cry" \notin excused
  BY Excuses DEF Judged
<1>2. noticed' = Notices(walk, s) /\ due' = Owed(s)
  BY DEF Walk
<1>3. "miss" \notin excused' => walk.asleep = 0 /\ s.place \in Scanned
  <2>1. walk.asleep \in Nat
    BY AwakeIs DEF HandlerInv
  <2> QED BY <1>1, <2>1 DEF MayMiss
<1>4. noticed'.returned = FALSE /\ due'.returned = FALSE /\ due'.here = Live
  BY <1>2, SilenceIs DEF Notices, Owed
<1>5. due'.write = IF Live THEN Tier(meant) ELSE 0
  BY <1>2 DEF Owed
<1>6. noticed'.write = IF walk.asleep = 0 /\ s.place \in Scanned THEN Tier(seen) ELSE 0
  <2>1. walk.asleep \in Nat
    BY AwakeIs DEF HandlerInv
  <2>2. CASE walk.asleep > 0
    BY <1>2, <2>1, <2>2, SilenceIs DEF Notices
  <2>3. CASE walk.asleep = 0
    <3>1. ClassifyDbSinkTaint(walk, s.args) = Tier(seen)
      BY DEF ClassifyDbSinkTaint
    <3> HIDE DEF seen
    <3>2. ~(walk.asleep > 0)
      BY <2>3
    <3>3. Notices(walk, s) = [write |-> IF s.place \in Scanned THEN ClassifyDbSinkTaint(walk, s.args) ELSE 0, returned |-> FALSE]
      BY <3>2, SilenceIs DEF Notices
    <3>4. noticed'.write = IF s.place \in Scanned THEN ClassifyDbSinkTaint(walk, s.args) ELSE 0
      BY <1>2, <3>3
    <3> QED BY <2>3, <3>1, <3>4
  <2> QED BY <2>1, <2>2, <2>3
<1>7. Live /\ walk.asleep = 0 =>
        /\ "miss" \notin excused => meant \subseteq seen
        /\ "cry" \notin excused => seen \subseteq meant
  <2> SUFFICES ASSUME Live, walk.asleep = 0 PROVE ("miss" \notin excused => meant \subseteq seen) /\ ("cry" \notin excused => seen \subseteq meant)
    OBVIOUS
  <2>1. Depth > 0
    BY DepthIs DEF Judged, HandlerInv, TypeInv
  <2>2. \A k \in DOMAIN s.args :
          /\ "miss" \notin excused => (Value(s.args[k], ReadOnly) = "data" => ExprIsTaintedReadonly(walk, s.args[k]))
          /\ "cry" \notin excused => (ExprIsTaintedReadonly(walk, s.args[k]) => Value(s.args[k], ReadOnly) = "data")
    BY <2>1, ReadsAreValues, ThreeWalks DEF Judged, Walks
  <2> QED BY <2>2
<1> HIDE DEF seen, meant
<1>8. /\ Tier(seen) \in 0..2 /\ Tier(meant) \in 0..2
      /\ meant \subseteq seen => Tier(meant) <= Tier(seen)
      /\ seen \subseteq meant => Tier(seen) <= Tier(meant)
  BY TierIs, TierGrows
<1>9. NothingUnnoticed'
  <2>1. "miss" \notin excused' => ~(due'.write > noticed'.write)
    BY <1>1, <1>3, <1>5, <1>6, <1>7, <1>8
  <2> QED BY <1>4, <2>1 DEF NothingUnnoticed
<1>10. NothingImagined'
  <2>1. "cry" \notin excused' /\ Live => ~(noticed'.write > due'.write)
    BY <1>1, <1>5, <1>6, <1>7, <1>8
  <2> QED BY <1>4, <2>1 DEF NothingImagined
<1> QED BY <1>9, <1>10

LEMMA ReturnsAreJudged ==
  ASSUME HandlerInv, NEW s, NEW goes, Walk(s, goes), Judged(s), s.kind = "return"
  PROVE  NothingUnnoticed' /\ NothingImagined'
<1>1. /\ "miss" \notin excused' => "miss" \notin excused
      /\ "cry" \notin excused' => ~MayCry(s) /\ "cry" \notin excused
  BY Excuses DEF Judged
<1>2. noticed' = Notices(walk, s) /\ due' = Owed(s)
  BY DEF Walk
<1>3. Len(walk.scopes) \in Nat /\ walk.asleep \in Nat /\ Len(walk.scopes) + walk.asleep = Depth /\ Len(walk.scopes) # 0 /\ Depth > 0
  BY AwakeIs DEF HandlerInv, Judged
<1>4. noticed'.write = 0 /\ due'.write = 0
  <2>1. noticed'.write = 0
    <3>1. CASE walk.asleep > 0
      BY <1>2, <3>1, SilenceIs DEF Notices
    <3>2. CASE ~(walk.asleep > 0)
      <4>1. Notices(walk, s) = [write |-> 0, returned |-> ExprTaint(walk, s.expr)]
        BY <3>2, SilenceIs DEF Notices
      <4> QED BY <1>2, <4>1
    <3> QED BY <3>1, <3>2
  <2>2. due'.write = 0
    BY <1>2 DEF Owed
  <2> QED BY <2>1, <2>2
<1>5. noticed'.returned <=> walk.asleep = 0 /\ ExprTaint(walk, s.expr)
  <2>1. CASE walk.asleep > 0
    BY <1>2, <1>3, <2>1, SilenceIs DEF Notices
  <2>2. CASE walk.asleep = 0
    <3>1. Notices(walk, s) = [write |-> 0, returned |-> ExprTaint(walk, s.expr)]
      BY <2>2, SilenceIs DEF Notices
    <3> QED BY <1>2, <2>2, <3>1
  <2> QED BY <1>3, <2>1, <2>2
<1>6. (due'.returned <=> Live /\ Depth = 1 /\ Value(s.expr, Followed) = "data") /\ (due'.here <=> Live)
  BY <1>2 DEF Owed
<1>7. Live /\ walk.asleep = 0 =>
        /\ "miss" \notin excused => (Value(s.expr, Followed) = "data" => ExprTaint(walk, s.expr))
        /\ "cry" \notin excused => (ExprTaint(walk, s.expr) => Value(s.expr, Followed) = "data")
  BY <1>3, ReadsAreValues, ThreeWalks DEF Judged, Walks
<1>8. Depth = 1 => walk.asleep = 0
  BY <1>3
<1>9. "cry" \notin excused' => Depth = 1
  <2>1. "cry" \notin excused' => ~(Depth > 1)
    BY <1>1 DEF MayCry
  <2>2. Depth \in Nat
    BY <1>3
  <2> QED BY <1>3, <2>1, <2>2
<1>10. NothingUnnoticed'
  <2>1. "miss" \notin excused' => ~(due'.returned /\ ~noticed'.returned)
    BY <1>1, <1>5, <1>6, <1>7, <1>8
  <2> QED BY <1>4, <2>1 DEF NothingUnnoticed
<1>11. NothingImagined'
  <2>1. "cry" \notin excused' /\ due'.here => ~(noticed'.returned /\ ~due'.returned)
    BY <1>1, <1>5, <1>6, <1>7, <1>9
  <2> QED BY <1>4, <2>1 DEF NothingImagined
<1> QED BY <1>10, <1>11

LEMMA StepsAreJudged ==
  ASSUME HandlerInv, NEW s, NEW goes, Walk(s, goes), Judged(s)
  PROVE  NothingUnnoticed' /\ NothingImagined'
<1>1. CASE s.kind # "write" /\ s.kind # "return"
  <2>1. noticed' = Notices(walk, s) /\ due' = Owed(s)
    BY DEF Walk
  <2>2. noticed' = [write |-> 0, returned |-> FALSE]
    BY <1>1, <2>1, SilenceIs DEF Notices
  <2>3. due'.write = 0 /\ ~due'.returned
    BY <1>1, <2>1 DEF Owed
  <2> QED BY <2>2, <2>3 DEF NothingUnnoticed, NothingImagined
<1> QED BY <1>1, WritesAreJudged, ReturnsAreJudged

-----------------------------------------------------------------------------
(***************************************************************************)
(* The invariant holds at first, and every action keeps it.                *)
(***************************************************************************)
LEMMA InitHandlers ==
  ASSUME HandlerInit
  PROVE  HandlerInv /\ NothingUnnoticed /\ NothingImagined
<1>1. /\ noticed = [write |-> 0, returned |-> FALSE] /\ due = [here |-> FALSE, write |-> 0, returned |-> FALSE]
      /\ links = {} /\ trusted = FALSE /\ excused = {}
  BY SilenceIs DEF HandlerInit
<1>2. trusted \in BOOLEAN /\ \A handlers \in SUBSET FnNames : NewVisitor(handlers) \in Visitor
  <2>1. trusted \in BOOLEAN
    BY <1>1, Zenon
  <2>2. ASSUME NEW handlers \in SUBSET FnNames PROVE NewVisitor(handlers) \in Visitor
    BY NoneTyped DEF NewVisitor, Visitor
  <2> QED BY <2>1, <2>2
<1>3. NoticeType /\ NothingUnnoticed /\ NothingImagined
  BY <1>1 DEF NoticeType, NothingUnnoticed, NothingImagined
<1>4. CASE walk = NewVisitor(BodyValidatedHandlers) /\ env = <<>> /\ at = 0
  <2>1. BodyValidatedHandlers \in SUBSET FnNames
    BY HandlerAssumption DEF BodyValidatedHandlers
  <2>2. walk = [scopes |-> <<>>, suppress |-> <<>>, inits |-> <<>>, handlers |-> BodyValidatedHandlers, asleep |-> 0]
    BY <1>4 DEF NewVisitor
  <2>3. walk \in Visitor
    BY <1>2, <1>4, <2>1
  <2>4. walk.scopes = <<>> /\ walk.suppress = <<>> /\ walk.asleep = 0 /\ DOMAIN walk.scopes = {} /\ DOMAIN walk.suppress = {}
    BY <2>2
  <2>5. TypeInv
    <3>1. Len(env) = 0 /\ env \in Seq(Frames) /\ Len(walk.scopes) = 0 /\ Len(walk.suppress) = 0
      BY <1>4, <2>4
    <3>2. WalkType
      BY <1>4, <2>3, <2>4, <3>1 DEF WalkType
    <3>3. RunType
      <4>1. at \in 0..Len(env) /\ env \in Seq(Frames)
        BY <1>4, <3>1
      <4> QED BY <1>1, <1>2, <4>1 DEF RunType
    <3> QED BY <1>3, <3>2, <3>3 DEF TypeInv
  <2>6. MissInv
    BY <1>1, <1>4, <2>4 DEF MissInv, Suppressed, Caught, Noted
  <2>7. CryInv
    BY <1>1, <1>4, <2>4 DEF CryInv, Founded, Unhidden, Linked
  <2> QED BY <1>1, <1>3, <2>5, <2>6, <2>7 DEF HandlerInv, TrustInv
<1>5. CASE walk = EnterFn(NewVisitor({}), {Param}, FALSE) /\ env = << [n \in {Param} |-> "data"] >> /\ at = 1
  <2> DEFINE frame == [n \in {Param} |-> "data"]
  <2>1. Param \in Names
    BY HandlerAssumption
  <2>2. NewVisitor({}) = [scopes |-> <<>>, suppress |-> <<>>, inits |-> <<>>, handlers |-> {}, asleep |-> 0]
    BY DEF NewVisitor
  <2>3. NewVisitor({}) \in Visitor
    BY <1>2
  <2>4. LET v == EnterFn(NewVisitor({}), {Param}, FALSE)
        IN  /\ v \in Visitor /\ v.handlers = NewVisitor({}).handlers /\ v.asleep = NewVisitor({}).asleep /\ DOMAIN v.inits = {}
            /\ v.scopes = Append(NewVisitor({}).scopes, {Param}) /\ v.suppress = Append(NewVisitor({}).suppress, FALSE)
            /\ Len(v.scopes) = Len(NewVisitor({}).scopes) + 1 /\ Len(v.suppress) = Len(NewVisitor({}).suppress) + 1
    BY <2>1, <2>3, EnterIs
  <2>5. /\ walk \in Visitor /\ walk.asleep = 0 /\ DOMAIN walk.inits = {}
        /\ walk.scopes = Append(<<>>, {Param}) /\ walk.suppress = Append(<<>>, FALSE)
    <3> HIDE DEF frame
    <3>1. NewVisitor({}).scopes = <<>> /\ NewVisitor({}).suppress = <<>> /\ NewVisitor({}).asleep = 0
      BY <2>2
    <3>2. walk = EnterFn(NewVisitor({}), {Param}, FALSE)
      BY <1>5
    <3> QED BY <2>4, <3>1, <3>2
  <2>6. /\ Len(walk.scopes) = 1 /\ Len(walk.suppress) = 1 /\ DOMAIN walk.scopes = 1..1 /\ DOMAIN walk.suppress = 1..1
        /\ walk.scopes[1] = {Param} /\ walk.suppress[1] = FALSE /\ walk.scopes # <<>>
    BY <2>5
  <2>7. frame \in Frames /\ DOMAIN frame = {Param} /\ frame[Param] = "data"
    <3>1. frame \in [{Param} -> {"data", "lost", "nothing"}] /\ {Param} \in SUBSET Names
      BY <2>1
    <3> QED BY <3>1 DEF Frames
  <2>8. env = <<frame>>
    BY <1>5
  <2> HIDE DEF frame
  <2>9. env \in Seq(Frames) /\ Len(env) = 1 /\ DOMAIN env = 1..1 /\ env[1] = frame
    BY <2>7, <2>8
  <2>10. TypeInv
    <3>1. WalkType
      BY <2>5, <2>6, <2>9 DEF WalkType
    <3>2. at = 1
      BY <1>5
    <3>3. RunType
      <4>1. at \in 0..Len(env) /\ env \in Seq(Frames)
        BY <2>9, <3>2
      <4> QED BY <1>1, <1>2, <4>1 DEF RunType
    <3> QED BY <1>3, <3>1, <3>3 DEF TypeInv
  <2>11. MissInv
    <3>1. ~Suppressed(walk)
      BY <2>6 DEF Suppressed
    <3>2. Caught(walk, env, at)
      BY <2>6, <2>7, <2>9 DEF Caught, Data
    <3>3. Noted(walk, env, links, at)
      BY <2>5 DEF Noted
    <3> QED BY <3>1, <3>2, <3>3 DEF MissInv
  <2>12. CryInv
    <3>1. Data(env, 1, Param)
      BY <2>7, <2>9 DEF Data
    <3> QED BY <1>1, <2>6, <2>9, <3>1 DEF CryInv, Founded, Unhidden, Linked
  <2> QED BY <1>1, <1>3, <2>10, <2>11, <2>12 DEF HandlerInv, TrustInv
<1> QED BY <1>4, <1>5 DEF HandlerInit

Good == NothingUnnoticed /\ NothingImagined

LEMMA InsideIs ==
  ASSUME TypeInv
  PROVE  Inside => Depth # 0
BY DepthIs DEF Inside, TypeInv

LEMMA StatementsKeep ==
  ASSUME HandlerInv, Declare \/ AssignVariable \/ WriteDatabase \/ Return \/ Guard
  PROVE  HandlerInv' /\ Good'
<1>1. Inside => Depth # 0
  BY InsideIs DEF HandlerInv
<1>2. CASE Declare
  <2>1. PICK n \in Names, e \in Readable :
          Inside /\ n \notin DOMAIN Here /\ e # [form |-> e.form, of |-> n] /\ Walk([kind |-> "declare", name |-> n, expr |-> e], TRUE)
    BY <1>2 DEF Declare
  <2>2. e.of # n
    BY <2>1, ReadableIs DEF Expressions
  <2>3. Declares(n, e)
    BY <1>1, <2>1, <2>2 DEF Declares
  <2>4. Judged([kind |-> "declare", name |-> n, expr |-> e])
    BY DEF Judged
  <2> QED BY <2>1, <2>3, <2>4, DeclareKeeps, StepsAreJudged DEF Good
<1>3. CASE AssignVariable
  <2>1. PICK n \in Names, e \in Readable : Bound(n) /\ Inside /\ Walk([kind |-> "assign", name |-> n, expr |-> e], TRUE)
    BY <1>3 DEF AssignVariable
  <2>2. Assigns(n, e)
    BY <1>1, <2>1 DEF Assigns
  <2>3. Judged([kind |-> "assign", name |-> n, expr |-> e])
    BY DEF Judged
  <2> QED BY <2>1, <2>2, <2>3, AssignKeeps, StepsAreJudged DEF Good
<1>4. CASE WriteDatabase
  <2>1. PICK place \in Places, args \in [{"data"} -> Readable] \cup [{"where"} -> Readable] \cup [{"where", "data"} -> Simple] :
          Inside /\ Walk([kind |-> "write", place |-> place, args |-> args], TRUE)
    BY <1>4 DEF WriteDatabase
  <2> DEFINE s == [kind |-> "write", place |-> place, args |-> args]
  <2>2. \A k \in DOMAIN args : args[k] \in Readable
    BY DEF Simple
  <2>3. Judged(s)
    BY <1>1, <2>1, <2>2, ReadableIs DEF Judged
  <2>4. Passes(s)
    BY <1>1, <2>1 DEF Passes
  <2>5. Walk(s, TRUE)
    BY <2>1
  <2> HIDE DEF s
  <2> QED BY <2>3, <2>4, <2>5, PassKeeps, StepsAreJudged DEF Good
<1>5. CASE Return
  <2>1. PICK e \in Readable : Inside /\ Walk([kind |-> "return", expr |-> e], TRUE)
    BY <1>5 DEF Return
  <2> DEFINE s == [kind |-> "return", expr |-> e]
  <2>2. Judged(s)
    BY <1>1, <2>1, ReadableIs DEF Judged
  <2>3. Passes(s)
    BY <1>1, <2>1 DEF Passes
  <2>4. Walk(s, TRUE)
    BY <2>1
  <2> HIDE DEF s
  <2> QED BY <2>2, <2>3, <2>4, PassKeeps, StepsAreJudged DEF Good
<1>6. CASE Guard
  <2>1. PICK n \in Names, test \in {"allow", "ok"}, goes \in BOOLEAN :
          Bound(n) /\ Inside /\ Walk([kind |-> "guard", test |-> test, on |-> n], goes)
    BY <1>6 DEF Guard
  <2>2. Guards(n, test, goes)
    BY <1>1, <2>1 DEF Guards
  <2>3. Judged([kind |-> "guard", test |-> test, on |-> n])
    BY DEF Judged
  <2> QED BY <2>1, <2>2, <2>3, GuardKeeps, StepsAreJudged DEF Good
<1> QED BY <1>2, <1>3, <1>4, <1>5, <1>6

LEMMA FunctionsKeep ==
  ASSUME HandlerInv, Handler \/ InnerFunction \/ InnerCallback \/ Leave
  PROVE  HandlerInv' /\ Good'
<1>1. /\ Inside => Depth # 0
      /\ \A params \in Params : params \subseteq Names
  BY InsideIs DEF HandlerInv, Params
<1>2. ASSUME NEW s, NEW goes, Opening(s, goes) PROVE HandlerInv' /\ Good'
  <2>1. Judged(s) /\ Walk(s, goes)
    BY <1>2, OpenKinds DEF Judged, Opening
  <2> QED BY <1>2, <2>1, OpenKeeps, StepsAreJudged DEF Good
<1>3. CASE Handler
  <2>1. PICK name \in FnNames, params \in Params :
          /\ Depth = 0
          /\ \/ Walk([kind |-> "function", name |-> name, params |-> params], TRUE)
             \/ params = {} /\ Walk([kind |-> "arrow", name |-> name], TRUE)
    BY <1>3 DEF Handler
  <2>2. \/ Opening([kind |-> "function", name |-> name, params |-> params], TRUE)
        \/ Opening([kind |-> "arrow", name |-> name], TRUE)
    BY <1>1, <2>1 DEF Opening
  <2> QED BY <1>2, <2>2
<1>4. CASE InnerFunction
  <2>1. PICK name \in FnNames, params \in Params, goes \in BOOLEAN :
          /\ Inside /\ Depth < MaxDepth
          /\ \/ Walk([kind |-> "function", name |-> name, params |-> params], goes)
             \/ params = {} /\ Walk([kind |-> "local"], goes)
    BY <1>4 DEF InnerFunction
  <2>2. \/ Opening([kind |-> "function", name |-> name, params |-> params], goes)
        \/ Opening([kind |-> "local"], goes)
    BY <1>1, <2>1 DEF Opening
  <2> QED BY <1>2, <2>2
<1>5. CASE InnerCallback
  <2>1. PICK e \in Receivers, m \in Methods, params \in Params, goes \in BOOLEAN :
          Inside /\ Depth < MaxDepth /\ Walk([kind |-> "callback", method |-> m, on |-> e, params |-> params], goes)
    BY <1>5 DEF InnerCallback
  <2>2. e \in Expressions
    BY ReadableIs DEF Receivers
  <2>3. Opening([kind |-> "callback", method |-> m, on |-> e, params |-> params], goes)
    BY <1>1, <2>1, <2>2 DEF Opening
  <2> QED BY <1>2, <2>3
<1>6. CASE Leave
  <2>1. Walk([kind |-> "exit"], TRUE) /\ (Depth > 1 \/ Depth = 1)
    BY <1>6, Zenon DEF Leave
  <2>2. Judged([kind |-> "exit"])
    BY DEF Judged
  <2>3. Exits
    <3>1. Depth # 0
      BY <2>1
    <3> QED BY <2>1, <3>1 DEF Exits
  <2> QED BY <2>1, <2>2, <2>3, ExitKeeps, StepsAreJudged DEF Good
<1> QED BY <1>3, <1>4, <1>5, <1>6

LEMMA HandlersInvariant == HandlerSpec => [](HandlerInv /\ Good)
<1>1. HandlerInit => HandlerInv /\ Good
  BY InitHandlers DEF Good
<1>2. HandlerInv /\ Good /\ [HandlerNext]_vars => (HandlerInv /\ Good)'
  <2> SUFFICES ASSUME HandlerInv, Good, [HandlerNext]_vars PROVE (HandlerInv /\ Good)'
    OBVIOUS
  <2>1. CASE HandlerNext
    BY <2>1, StatementsKeep, FunctionsKeep DEF HandlerNext
  <2>2. CASE UNCHANGED vars
    BY <2>2 DEF vars, HandlerInv, TypeInv, WalkType, RunType, NoticeType, MissInv, CryInv, TrustInv, Good, NothingUnnoticed, NothingImagined
  <2> QED BY <2>1, <2>2
<1> QED BY <1>1, <1>2, PTL DEF HandlerSpec

-----------------------------------------------------------------------------
(***************************************************************************)
(* The theorems.                                                           *)
(***************************************************************************)
\* The visitor is in as many functions as the text it walks, asleep in those
\* it does not look into; enter_fn and exit_fn keep the scopes, and with them
\* the suppressions, in step.
THEOREM HandlersAreTyped == HandlerSpec => []HandlerTypeOK
<1>1. HandlerInv => HandlerTypeOK
  <2> SUFFICES ASSUME HandlerInv PROVE HandlerTypeOK
    OBVIOUS
  <2>1. WalkType /\ RunType /\ NoticeType /\ walk \in Visitor
    BY DEF HandlerInv, TypeInv, WalkType
  <2>2. UNION Range(walk.scopes) \subseteq Names
    <3>1. walk.scopes \in Seq(SUBSET Names)
      BY <2>1 DEF Visitor
    <3>2. \A i \in DOMAIN walk.scopes : walk.scopes[i] \subseteq Names
      BY <3>1, ElementOfSeq
    <3> QED BY <3>2 DEF Range
  <2>3. DOMAIN walk.inits \subseteq Names /\ Range(walk.inits) \subseteq Names
    <3>1. walk.inits \in Inits
      BY <2>1 DEF Visitor
    <3> QED BY <3>1, FrameIs DEF Range
  <2>4. {noticed.write, due.write} \subseteq 0..2
    BY <2>1 DEF NoticeType
  <2>5. (UNION Range(walk.scopes)) \cup DOMAIN walk.inits \cup Range(walk.inits) \subseteq Names
    BY <2>2, <2>3
  <2>6. /\ Len(walk.scopes) + walk.asleep = Len(env) /\ Len(walk.suppress) = Len(walk.scopes)
        /\ at \in 0..Len(env) /\ excused \subseteq {"miss", "cry"}
    BY <2>1 DEF WalkType, RunType, NoticeType
  <2> QED BY <2>4, <2>5, <2>6 DEF HandlerTypeOK
<1> QED BY <1>1, HandlersInvariant, PTL

\* Request data that reaches a database write, or that a function returns,
\* through however many callbacks and inner functions, is noticed, and at its
\* tier, unless one of the shortcuts of MayMiss was taken on the way.
THEOREM NothingGoesUnnoticed == HandlerSpec => []NothingUnnoticed
<1>1. Good => NothingUnnoticed
  BY DEF Good
<1> QED BY <1>1, HandlersInvariant, PTL

\* At a statement the run has come to, nothing is reported that the data has
\* not reached: not what a validator or a test cleared, nor what a variable of
\* another function holds, unless one of the shortcuts of MayCry was taken.
THEOREM NothingIsImagined == HandlerSpec => []NothingImagined
<1>1. Good => NothingImagined
  BY DEF Good
<1> QED BY <1>1, HandlersInvariant, PTL
=============================================================================
