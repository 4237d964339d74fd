----------------------------- MODULE StackScan -----------------------------
(***************************************************************************)
(* What stack detection decides: the profile enables adapters, and a rule  *)
(* asks the inline recognisers and the enabled adapters what an expression *)
(* of the project is, and which parameters of a controller are tainted.    *)
(***************************************************************************)
EXTENDS ProjectProfile, StackAdapters

CONSTANTS
  Expressions,   \* those looked at
  Imports,       \* what the file they are in imports: local names -> modules
  Methods,       \* controller methods: sequences of parameters
  Nothing

VARIABLES
  looked,        \* the expression a rule is at
  method,        \* the parameters of the controller method it is in
  tainted        \* which of them are tainted when the rule enters it

vars == <<tree, package, patterns, opened, profile, earlier, looked, method, tainted>>
visitVars == <<looked, method, tainted>>

ASSUME StackAssumption ==
  /\ \A e \in Expressions : e.form \in {"call", "new", "member"} /\ e.path \in Seq(STRING) \ {<<>>}
  /\ \A m \in Methods : \A i \in DOMAIN m : {m[i].looksValidated, m[i].bindsOneName} \subseteq BOOLEAN

Init == ProfileInit /\ looked = Nothing /\ method = <<>> /\ tainted = {}

LookAt ==
  /\ profile # NoProfile /\ earlier = NoProfile /\ looked = Nothing
  /\ \E e \in Expressions, m \in Methods :
       looked' = e /\ method' = m /\ tainted' = DecoratedParams(m, EnabledFor(profile))
  /\ UNCHANGED profileVars

DetectStep == looked = Nothing /\ ProfileNext /\ UNCHANGED visitVars
Next == DetectStep \/ LookAt
Spec == Init /\ [][Next]_vars

-----------------------------------------------------------------------------
\* Which adapters a project enables decides nothing a rule reports about
\* responses and auth checks: for all 22, on or off, the two recognisers
\* with an adapter fallback say what the inline one says.
AdaptersAddNothing ==
  looked # Nothing =>
    /\ IsResponse(Registry, looked) => IsResponseSink(looked)
    /\ IsAuthCheck(Registry, looked, Imports) => InvokesAuthHelper(looked)

\* The three ways to ask the body source about an expression agree.
SourcesAgree ==
  looked # Nothing =>
    \A active \in BOOLEAN :
      AsSource(looked, active) <=>
        \/ looked.form = "call" /\ AsCallSource(looked, active)
        \/ looked.form = "member" /\ IsStaticMember(looked.path) /\ AsMemberSource(Receiver(looked), Method(looked), active)

\* Enabling an adapter never costs the decorator that is recognised without
\* any: an unvalidated @Body() parameter is tainted under every profile.
BodyAlwaysTaints ==
  \A i \in DOMAIN method :
    "Body" \in method[i].decorators /\ ~method[i].looksValidated /\ method[i].bindsOneName => i \in tainted
=============================================================================
