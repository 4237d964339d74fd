-------------------------- MODULE StackScanProofs --------------------------
(***************************************************************************)
(* Proofs about stack detection: what the recognisers and the adapters of  *)
(* StackScan say of an expression, and what ProjectProfile detects, for    *)
(* every workspace.                                                        *)
(***************************************************************************)
EXTENDS StackScan, FiniteSetTheorems, TLAPS

-----------------------------------------------------------------------------
(* What the patterns of a set of matchers are.                              *)

LEMMA RolesAre ==
  ASSUME NEW role, NEW type, NEW matchers, NEW q \in Roles(role, type, matchers)
  PROVE  q.role = role /\ q.type = type /\ q.matcher \in matchers
  BY DEF Roles

LEMMA SourcesAre ==
  ASSUME NEW matchers, NEW q \in Sources(matchers)
  PROVE  q.role = "source" /\ q.matcher \in matchers
  BY RolesAre DEF Sources

LEMMA SinksAre ==
  ASSUME NEW type, NEW matchers, NEW q \in Sinks(type, matchers)
  PROVE  q.role = "sink" /\ q.type = type /\ q.matcher \in matchers
  BY RolesAre DEF Sinks

LEMMA SchemaParsesAre ==
  ASSUME NEW matchers, NEW q \in SchemaParses(matchers)
  PROVE  q.role = "sanitiser" /\ q.type = "schema-parse" /\ q.matcher \in matchers
  BY RolesAre DEF SchemaParses

LEMMA AuthChecksAre ==
  ASSUME NEW matchers, NEW q \in AuthChecks(matchers)
  PROVE  q.role \in {"sanitiser", "guard"} /\ q.matcher \in matchers
  BY RolesAre DEF AuthChecks

LEMMA MatcherFields ==
  ASSUME NEW r, NEW n
  PROVE  /\ OnParam(r, n).match = "param" /\ OnParam(r, n).on = <<r>> /\ OnParam(r, n).name = n
         /\ OnCall(r, n).match = "method" /\ OnCall(r, n).on = r /\ OnCall(r, n).name = n
         /\ OnNamespace(r, n).match = "namespace" /\ OnNamespace(r, n).on = <<r>> /\ OnNamespace(r, n).name = n
         /\ OnImport(r, n).match = "import" /\ OnImport(r, n).on = <<r>> /\ OnImport(r, n).name = n
  BY DEF OnParam, OnCall, OnNamespace, OnImport

LEMMA NameFields ==
  ASSUME NEW n
  PROVE  /\ OnAny(n).match = "any" /\ OnAny(n).name = n
         /\ OnDecorated(n).match = "decorated" /\ OnDecorated(n).name = n
  BY DEF OnAny, OnDecorated

\* The adapters, by the patterns they contribute.
LEMMA ContributedPatterns ==
  ASSUME NEW a \in Registry
  PROVE  a.patterns \in
           {NodePatterns, BunPatterns, ExpressPatterns, FastifyPatterns, HonoPatterns, NestPatterns, NextPatterns,
            PrismaPatterns, DrizzlePatterns, PgPatterns, Mysql2Patterns, ZodPatterns, ValibotPatterns, JoiPatterns,
            YupPatterns, AjvPatterns, ClassValidatorPatterns, BetterAuthPatterns, AuthJsPatterns, ClerkPatterns,
            OpenAiPatterns, AnthropicPatterns}
  BY DEF Registry, Adapter

\* The response sinks among the patterns, each named by the inline recogniser too.
LEMMA ResponsePatterns ==
  ASSUME NEW a \in Registry, NEW q \in a.patterns, q.role = "sink", q.type = "response"
  PROVE  /\ q.matcher.match \in {"method", "namespace"}
         /\ \/ q.matcher.on = <<"res">> /\ q.matcher.name \in {"json", "send", "end", "write"}
            \/ q.matcher.on = <<"reply">> /\ q.matcher.name = "send"
            \/ q.matcher.on = <<"c">> /\ q.matcher.name \in {"json", "text", "html", "body"}
            \/ q.matcher.on \in {<<"Response">>, <<"NextResponse">>} /\ q.matcher.name = "json"
<1>1. CASE a.patterns = NodePatterns
  BY <1>1, SinksAre DEF NodePatterns, NodeExecSinks, NodeFsSinks
<1>2. CASE a.patterns = BunPatterns
  BY <1>2, SinksAre DEF BunPatterns
<1>3. CASE a.patterns = ExpressPatterns
  <2>1. q \in Sinks("response", {OnCall(<<"res">>, n) : n \in {"json", "send", "end", "write"}})
    BY <1>3, SourcesAre, SinksAre DEF ExpressPatterns
  <2>2. PICK n \in {"json", "send", "end", "write"} : q.matcher = OnCall(<<"res">>, n)
    BY <2>1, SinksAre
  <2> QED BY <2>2, MatcherFields
<1>4. CASE a.patterns = FastifyPatterns
  <2>1. q \in Sinks("response", {OnCall(<<"reply">>, "send")})
    BY <1>4, SourcesAre, SinksAre DEF FastifyPatterns
  <2>2. q.matcher = OnCall(<<"reply">>, "send")
    BY <2>1, SinksAre
  <2> QED BY <2>2, MatcherFields
<1>5. CASE a.patterns = HonoPatterns
  <2>1. q \in Sinks("response", {OnCall(<<"c">>, n) : n \in {"json", "text", "html", "body"}})
    BY <1>5, SourcesAre, SinksAre DEF HonoPatterns
  <2>2. PICK n \in {"json", "text", "html", "body"} : q.matcher = OnCall(<<"c">>, n)
    BY <2>1, SinksAre
  <2> QED BY <2>2, MatcherFields
<1>6. CASE a.patterns = NextPatterns
  <2>1. q \in Sinks("response", {OnNamespace(n, "json") : n \in {"NextResponse", "Response"}})
    BY <1>6, SourcesAre, SinksAre DEF NextPatterns
  <2>2. PICK n \in {"NextResponse", "Response"} : q.matcher = OnNamespace(n, "json")
    BY <2>1, SinksAre
  <2>3. q.matcher.match = "namespace" /\ q.matcher.on = <<n>> /\ q.matcher.name = "json"
    BY <2>2, MatcherFields
  <2> QED BY <2>3
<1>7. CASE a.patterns \in {NestPatterns, ZodPatterns, ValibotPatterns, JoiPatterns, YupPatterns, AjvPatterns,
                           ClassValidatorPatterns, BetterAuthPatterns, AuthJsPatterns, ClerkPatterns}
  <2>1. CASE a.patterns = NestPatterns
    BY <2>1, SourcesAre DEF NestPatterns
  <2>2. CASE a.patterns = ZodPatterns
    BY <2>2, SchemaParsesAre DEF ZodPatterns
  <2>3. CASE a.patterns = ValibotPatterns
    BY <2>3, SchemaParsesAre DEF ValibotPatterns
  <2>4. CASE a.patterns = JoiPatterns
    BY <2>4, SchemaParsesAre DEF JoiPatterns
  <2>5. CASE a.patterns = YupPatterns
    BY <2>5, SchemaParsesAre DEF YupPatterns
  <2>6. CASE a.patterns = AjvPatterns
    BY <2>6, SchemaParsesAre DEF AjvPatterns
  <2>7. CASE a.patterns = ClassValidatorPatterns
    BY <2>7, SchemaParsesAre DEF ClassValidatorPatterns
  <2>8. CASE a.patterns = BetterAuthPatterns
    BY <2>8, AuthChecksAre DEF BetterAuthPatterns
  <2>9. CASE a.patterns = AuthJsPatterns
    BY <2>9, AuthChecksAre DEF AuthJsPatterns
  <2>10. CASE a.patterns = ClerkPatterns
    BY <2>10, AuthChecksAre DEF ClerkPatterns
  <2> QED BY <1>7, <2>1, <2>2, <2>3, <2>4, <2>5, <2>6, <2>7, <2>8, <2>9, <2>10
<1>8. CASE a.patterns \in {PrismaPatterns, DrizzlePatterns, PgPatterns, Mysql2Patterns, OpenAiPatterns, AnthropicPatterns}
  <2>1. CASE a.patterns = PrismaPatterns
    BY <2>1, SinksAre DEF PrismaPatterns
  <2>2. CASE a.patterns = DrizzlePatterns
    BY <2>2, SinksAre DEF DrizzlePatterns
  <2>3. CASE a.patterns = PgPatterns
    BY <2>3, SinksAre DEF PgPatterns
  <2>4. CASE a.patterns = Mysql2Patterns
    BY <2>4, SinksAre DEF Mysql2Patterns
  <2>5. CASE a.patterns = OpenAiPatterns
    BY <2>5, SinksAre DEF OpenAiPatterns
  <2>6. CASE a.patterns = AnthropicPatterns
    BY <2>6, SinksAre DEF AnthropicPatterns
  <2> QED BY <1>8, <2>1, <2>2, <2>3, <2>4, <2>5, <2>6
<1> QED
  BY <1>1, <1>2, <1>3, <1>4, <1>5, <1>6, <1>7, <1>8, ContributedPatterns

\* An expression that one of them matches is an inline response sink.
LEMMA ResponsesAgree ==
  ASSUME NEW e, IsResponse(Registry, e)
  PROVE  IsResponseSink(e)
<1>1. SUFFICES ASSUME "response" \in Recognised(Registry, "sink", e, <<>>)
               PROVE  IsResponseSink(e)
  BY DEF IsResponse
<1>0. PICK a \in Registry : \E p \in a.patterns : p.role = "sink" /\ p.type = "response" /\ Matches(p.matcher, e, <<>>)
  BY <1>1 DEF Recognised
<1>2. PICK q \in a.patterns : q.role = "sink" /\ q.type = "response" /\ Matches(q.matcher, e, <<>>)
  BY <1>0
<1>3. IsMethodCall(e, {q.matcher.name}) /\ Receiver(e) = q.matcher.on
  BY <1>2, ResponsePatterns DEF Matches
<1>4. IsMethodCall(e, {q.matcher.name}) /\ q.matcher.name \in {"json", "send", "end", "write", "text", "html", "body"}
      /\ q.matcher.on \in {<<r>> : r \in {"res", "reply", "c", "Response", "NextResponse"}}
  BY <1>2, <1>3, ResponsePatterns
<1>5. \A names : q.matcher.name \in names => IsMethodCall(e, names)
  BY <1>3 DEF IsMethodCall
<1>6. CASE q.matcher.on = <<"res">> /\ q.matcher.name \in {"json", "send", "end", "write"}
  BY <1>3, <1>5, <1>6 DEF IsResponseSink, IsOn
<1>7. CASE q.matcher.on = <<"reply">> /\ q.matcher.name = "send"
  BY <1>3, <1>5, <1>7 DEF IsResponseSink, IsOn
<1>8. CASE q.matcher.on = <<"c">> /\ q.matcher.name \in {"json", "text", "html", "body"}
  BY <1>3, <1>5, <1>8 DEF IsResponseSink, IsOn
<1>9. CASE q.matcher.on \in {<<"Response">>, <<"NextResponse">>} /\ q.matcher.name = "json"
  BY <1>3, <1>5, <1>9 DEF IsResponseSink, IsOn
<1> QED BY <1>2, <1>6, <1>7, <1>8, <1>9, ResponsePatterns

\* The auth checks among the patterns, each one of the inline helpers by name.
LEMMA AuthPatterns ==
  ASSUME NEW a \in Registry, NEW q \in a.patterns,
         (q.role = "sanitiser" /\ q.type = "auth-check") \/ q.role = "guard"
  PROVE  q.matcher.match \in {"method", "any", "import"} /\ q.matcher.name \in AuthHelperNames
<1>1. CASE a.patterns \in {NodePatterns, BunPatterns, PrismaPatterns, DrizzlePatterns, PgPatterns, Mysql2Patterns,
                           OpenAiPatterns, AnthropicPatterns}
  <2>1. q.role = "sink"
    <3>1. CASE a.patterns = NodePatterns
      BY <3>1, SinksAre DEF NodePatterns, NodeExecSinks, NodeFsSinks
    <3>2. CASE a.patterns = BunPatterns
      BY <3>2, SinksAre DEF BunPatterns
    <3>3. CASE a.patterns = PrismaPatterns
      BY <3>3, SinksAre DEF PrismaPatterns
    <3>4. CASE a.patterns = DrizzlePatterns
      BY <3>4, SinksAre DEF DrizzlePatterns
    <3>5. CASE a.patterns = PgPatterns
      BY <3>5, SinksAre DEF PgPatterns
    <3>6. CASE a.patterns = Mysql2Patterns
      BY <3>6, SinksAre DEF Mysql2Patterns
    <3>7. CASE a.patterns = OpenAiPatterns
      BY <3>7, SinksAre DEF OpenAiPatterns
    <3>8. CASE a.patterns = AnthropicPatterns
      BY <3>8, SinksAre DEF AnthropicPatterns
    <3> QED BY <1>1, <3>1, <3>2, <3>3, <3>4, <3>5, <3>6, <3>7, <3>8
  <2> QED BY <2>1
<1>2. CASE a.patterns \in {ExpressPatterns, FastifyPatterns, HonoPatterns, NestPatterns, NextPatterns}
  <2>1. q.role \in {"source", "sink"}
    <3>1. CASE a.patterns = ExpressPatterns
      BY <3>1, SourcesAre, SinksAre DEF ExpressPatterns
    <3>2. CASE a.patterns = FastifyPatterns
      BY <3>2, SourcesAre, SinksAre DEF FastifyPatterns
    <3>3. CASE a.patterns = HonoPatterns
      BY <3>3, SourcesAre, SinksAre DEF HonoPatterns
    <3>4. CASE a.patterns = NestPatterns
      BY <3>4, SourcesAre, SinksAre DEF NestPatterns
    <3>5. CASE a.patterns = NextPatterns
      BY <3>5, SourcesAre, SinksAre DEF NextPatterns
    <3> QED BY <1>2, <3>1, <3>2, <3>3, <3>4, <3>5
  <2> QED BY <2>1
<1>3. CASE a.patterns \in {ZodPatterns, ValibotPatterns, JoiPatterns, YupPatterns, AjvPatterns, ClassValidatorPatterns}
  <2>1. q.role = "sanitiser" /\ q.type = "schema-parse"
    <3>1. CASE a.patterns = ZodPatterns
      BY <3>1, SchemaParsesAre DEF ZodPatterns
    <3>2. CASE a.patterns = ValibotPatterns
      BY <3>2, SchemaParsesAre DEF ValibotPatterns
    <3>3. CASE a.patterns = JoiPatterns
      BY <3>3, SchemaParsesAre DEF JoiPatterns
    <3>4. CASE a.patterns = YupPatterns
      BY <3>4, SchemaParsesAre DEF YupPatterns
    <3>5. CASE a.patterns = AjvPatterns
      BY <3>5, SchemaParsesAre DEF AjvPatterns
    <3>6. CASE a.patterns = ClassValidatorPatterns
      BY <3>6, SchemaParsesAre DEF ClassValidatorPatterns
    <3> QED BY <1>3, <3>1, <3>2, <3>3, <3>4, <3>5, <3>6
  <2> QED BY <2>1
<1>4. CASE a.patterns = BetterAuthPatterns
  <2>1. q.matcher \in {OnAny("getSession"), OnCall(<<"auth", "api">>, "getSession")}
    BY <1>4, AuthChecksAre DEF BetterAuthPatterns
  <2> QED BY <2>1 DEF OnAny, OnCall, OnImport, AuthHelperNames
<1>5. CASE a.patterns = AuthJsPatterns
  <2>1. q.matcher \in {OnImport("next-auth", "getServerSession"), OnImport("@auth/core", "auth"), OnAny("auth"), OnAny("getSession")}
    BY <1>5, AuthChecksAre DEF AuthJsPatterns
  <2> QED BY <2>1 DEF OnAny, OnCall, OnImport, AuthHelperNames
<1>6. CASE a.patterns = ClerkPatterns
  <2>1. PICK m \in {"@clerk/nextjs/server", "@clerk/nextjs"}, n \in {"auth", "currentUser"} : q.matcher = OnImport(m, n)
    BY <1>6, AuthChecksAre DEF ClerkPatterns
  <2> QED BY <2>1 DEF OnAny, OnCall, OnImport, AuthHelperNames
<1> QED BY <1>1, <1>2, <1>3, <1>4, <1>5, <1>6, ContributedPatterns

LEMMA AuthChecksAgree ==
  ASSUME NEW e, NEW imports, IsAuthCheck(Registry, e, imports)
  PROVE  InvokesAuthHelper(e)
<1>1. CASE InvokesAuthHelper(e)
  BY <1>1
<1>2. CASE \/ "auth-check" \in Recognised(Registry, "sanitiser", e, imports)
           \/ "session-required" \in Recognised(Registry, "guard", e, imports)
  <2>0. PICK a \in Registry :
          \E p \in a.patterns :
            /\ (p.role = "sanitiser" /\ p.type = "auth-check") \/ p.role = "guard"
            /\ Matches(p.matcher, e, imports)
    BY <1>2 DEF Recognised
  <2>1. PICK q \in a.patterns :
          /\ (q.role = "sanitiser" /\ q.type = "auth-check") \/ q.role = "guard"
          /\ Matches(q.matcher, e, imports)
    BY <2>0
  <2>2. q.matcher.match \in {"method", "any", "import"} /\ q.matcher.name \in AuthHelperNames
    BY <2>1, AuthPatterns
  <2>3. IsMethodCall(e, {q.matcher.name}) \/ IsBareCall(e, {q.matcher.name})
    BY <2>1, <2>2 DEF Matches
  <2> QED BY <2>2, <2>3 DEF IsMethodCall, IsBareCall, InvokesAuthHelper
<1> QED BY <1>1, <1>2 DEF IsAuthCheck

(* Which adapters are enabled decides nothing about responses and auth checks: *)
(* every pattern of theirs is one of the inline recognisers'.               *)
THEOREM AdaptersNeverAdd == Spec => []AdaptersAddNothing
<1>1. AdaptersAddNothing
  BY ResponsesAgree, AuthChecksAgree DEF AdaptersAddNothing
<1> QED BY <1>1, PTL

-----------------------------------------------------------------------------
(* A rule gets one answer about the body source, whichever of the three     *)
(* methods of the step it asks.                                             *)
THEOREM BodySourcesAgree == Spec => []SourcesAgree
<1>1. SourcesAgree
  <2>1. SUFFICES ASSUME looked # Nothing, NEW active \in BOOLEAN
        PROVE AsSource(looked, active) <=>
                \/ looked.form = "call" /\ AsCallSource(looked, active)
                \/ looked.form = "member" /\ IsStaticMember(looked.path)
                     /\ AsMemberSource(Receiver(looked), Method(looked), active)
    BY DEF SourcesAgree
  <2>2. IsBodySourceCall(looked) => looked.form = "call"
    BY DEF IsBodySourceCall, IsMethodCall
  <2> QED BY <2>2 DEF AsSource, AsCallSource, AsMemberSource
<1> QED BY <1>1, PTL

-----------------------------------------------------------------------------
(* Which decorators taint a parameter.                                      *)

\* Only NestJS registers decorators, and Body is one of them.
LEMMA DecoratedPatterns ==
  ASSUME NEW a \in Registry, NEW q \in a.patterns, q.matcher.match = "decorated"
  PROVE  a.patterns = NestPatterns
<1>1. ASSUME a.patterns = NodePatterns PROVE FALSE
  BY <1>1, MatcherFields, NameFields, SinksAre DEF NodePatterns, NodeExecSinks, NodeFsSinks
<1>2. ASSUME a.patterns = BunPatterns PROVE FALSE
  BY <1>2, MatcherFields, NameFields, SinksAre DEF BunPatterns
<1>3. ASSUME a.patterns = PrismaPatterns PROVE FALSE
  BY <1>3, MatcherFields, NameFields, SinksAre DEF PrismaPatterns
<1>4. ASSUME a.patterns = DrizzlePatterns PROVE FALSE
  BY <1>4, MatcherFields, NameFields, SinksAre DEF DrizzlePatterns
<1>5. ASSUME a.patterns = PgPatterns PROVE FALSE
  BY <1>5, MatcherFields, NameFields, SinksAre DEF PgPatterns
<1>6. ASSUME a.patterns = Mysql2Patterns PROVE FALSE
  BY <1>6, MatcherFields, NameFields, SinksAre DEF Mysql2Patterns
<1>7. ASSUME a.patterns = OpenAiPatterns PROVE FALSE
  BY <1>7, MatcherFields, NameFields, SinksAre DEF OpenAiPatterns
<1>8. ASSUME a.patterns = AnthropicPatterns PROVE FALSE
  BY <1>8, MatcherFields, NameFields, SinksAre DEF AnthropicPatterns
<1>9. ASSUME a.patterns = ExpressPatterns PROVE FALSE
  BY <1>9, MatcherFields, NameFields, SourcesAre, SinksAre DEF ExpressPatterns
<1>10. ASSUME a.patterns = FastifyPatterns PROVE FALSE
  BY <1>10, MatcherFields, NameFields, SourcesAre, SinksAre DEF FastifyPatterns
<1>11. ASSUME a.patterns = HonoPatterns PROVE FALSE
  BY <1>11, MatcherFields, NameFields, SourcesAre, SinksAre DEF HonoPatterns
<1>12. ASSUME a.patterns = NextPatterns PROVE FALSE
  BY <1>12, MatcherFields, NameFields, SourcesAre, SinksAre DEF NextPatterns
<1>13. ASSUME a.patterns = ZodPatterns PROVE FALSE
  BY <1>13, MatcherFields, NameFields, SchemaParsesAre DEF ZodPatterns
<1>14. ASSUME a.patterns = ValibotPatterns PROVE FALSE
  BY <1>14, MatcherFields, NameFields, SchemaParsesAre DEF ValibotPatterns
<1>15. ASSUME a.patterns = JoiPatterns PROVE FALSE
  BY <1>15, MatcherFields, NameFields, SchemaParsesAre DEF JoiPatterns
<1>16. ASSUME a.patterns = YupPatterns PROVE FALSE
  BY <1>16, MatcherFields, NameFields, SchemaParsesAre DEF YupPatterns
<1>17. ASSUME a.patterns = AjvPatterns PROVE FALSE
  BY <1>17, MatcherFields, NameFields, SchemaParsesAre DEF AjvPatterns
<1>18. ASSUME a.patterns = ClassValidatorPatterns PROVE FALSE
  BY <1>18, MatcherFields, NameFields, SchemaParsesAre DEF ClassValidatorPatterns
<1>19. ASSUME a.patterns = BetterAuthPatterns PROVE FALSE
  BY <1>19, MatcherFields, NameFields, AuthChecksAre DEF BetterAuthPatterns
<1>20. ASSUME a.patterns = AuthJsPatterns PROVE FALSE
  BY <1>20, MatcherFields, NameFields, AuthChecksAre DEF AuthJsPatterns
<1>21. ASSUME a.patterns = ClerkPatterns PROVE FALSE
  BY <1>21, MatcherFields, NameFields, AuthChecksAre DEF ClerkPatterns
<1> QED
  BY <1>1, <1>2, <1>3, <1>4, <1>5, <1>6, <1>7, <1>8, <1>9, <1>10, <1>11, <1>12, <1>13, <1>14, <1>15, <1>16, <1>17, <1>18, <1>19, <1>20, <1>21, ContributedPatterns

LEMMA BodyIsActive ==
  ASSUME NEW adapters \in SUBSET Registry
  PROVE  "Body" \in ActiveTaintDecorators(adapters)
<1> DEFINE named == {p.matcher.name : p \in {q \in UNION {a.patterns : a \in adapters} : q.matcher.match = "decorated"}}
<1>1. CASE named = {}
  BY <1>1 DEF ActiveTaintDecorators
<1>2. CASE named # {}
  <2>1. PICK a \in adapters : \E p \in a.patterns : p.matcher.match = "decorated"
    BY <1>2
  <2>2. a.patterns = NestPatterns
    BY <2>1, DecoratedPatterns
  <2>3. [role |-> "source", type |-> "user-input", matcher |-> OnDecorated("Body")] \in NestPatterns
    BY DEF NestPatterns, Sources, Roles
  <2>4. "Body" \in named
    BY <2>1, <2>2, <2>3, NameFields
  <2> QED BY <1>2, <2>4 DEF ActiveTaintDecorators
<1> QED BY <1>1, <1>2

\* What is tainted is what the adapters of some profile decorate.
DecoratedInv == \E adapters \in SUBSET Registry : tainted = DecoratedParams(method, adapters)

LEMMA DecoratedIsInvariant == Spec => []DecoratedInv
<1>1. Init => DecoratedInv
  <2> SUFFICES ASSUME Init PROVE tainted = DecoratedParams(method, {})
    BY DEF DecoratedInv
  <2> QED BY DEF Init, DecoratedParams
<1>2. DecoratedInv /\ [Next]_vars => DecoratedInv'
  <2> SUFFICES ASSUME DecoratedInv, [Next]_vars PROVE DecoratedInv'
    OBVIOUS
  <2>1. CASE LookAt
    <3>1. \A p : EnabledFor(p) \in SUBSET Registry
      BY DEF EnabledFor
    <3>2. PICK adapters \in SUBSET Registry : tainted' = DecoratedParams(method', adapters)
      BY <2>1, <3>1 DEF LookAt
    <3> QED BY <3>2 DEF DecoratedInv, DecoratedParams
  <2>2. CASE DetectStep \/ UNCHANGED vars
    BY <2>2 DEF DetectStep, visitVars, vars, DecoratedInv
  <2> QED BY <2>1, <2>2 DEF Next
<1> QED BY <1>1, <1>2, PTL DEF Spec

(* Whatever is enabled, an unvalidated @Body() parameter is tainted when a  *)
(* rule enters a controller method: the registered decorators either are    *)
(* none, and the fallback is Body, or are NestJS's, and Body is among them. *)
THEOREM BodyIsAlwaysTainted == Spec => []BodyAlwaysTaints
<1>1. DecoratedInv => BodyAlwaysTaints
  BY BodyIsActive DEF DecoratedInv, BodyAlwaysTaints, DecoratedParams
<1> QED BY <1>1, DecoratedIsInvariant, PTL

-----------------------------------------------------------------------------
(* Merging the workspaces.                                                  *)

\* A merged package keeps its own keys and gains the other's.
LEMMA MergedDomains ==
  ASSUME NEW mine, NEW other
  PROVE  /\ DOMAIN OrInsert(mine, other) = DOMAIN mine \cup DOMAIN other
         /\ \A k \in DOMAIN mine : OrInsert(mine, other)[k] = mine[k]
         /\ \A k \in DOMAIN other \ DOMAIN mine : OrInsert(mine, other)[k] = other[k]
  BY DEF OrInsert, Either

LEMMA MergedPackage ==
  ASSUME NEW ws
  PROVE  /\ MergePackage(ws) # NoPackage
         /\ MergePackage(ws).dependencies = OrInsert(package.dependencies, ws.dependencies)
         /\ MergePackage(ws).devDependencies = OrInsert(package.devDependencies, ws.devDependencies)
         /\ MergePackage(ws).scripts = OrInsert(package.scripts, ws.scripts)
         /\ MergePackage(ws).manager = package.manager
         /\ MergePackage(ws).enginesNode = package.enginesNode
         /\ MergePackage(ws).typeModule = package.typeModule
         /\ MergePackage(ws).workspaces = package.workspaces
<1>1. "manager" \in DOMAIN MergePackage(ws) /\ "manager" \notin DOMAIN NoPackage
  BY DEF MergePackage, NoPackage
<1> QED BY <1>1 DEF MergePackage

\* What is found in one package is found in another.
Names(q) == DOMAIN q.dependencies \cup DOMAIN q.devDependencies
Kept(old, new) == \A e \in old : \E d \in new : Found(d) = Found(e)

LEMMA KeptDependencies ==
  ASSUME NEW p, NEW q, Names(p) \subseteq Names(q), NEW hint, NEW names
  PROVE  Kept(DepEvidence(p, hint, names), DepEvidence(q, hint, names))
<1> SUFFICES ASSUME NEW e \in DepEvidence(p, hint, names)
             PROVE  \E d \in DepEvidence(q, hint, names) : Found(d) = Found(e)
  BY DEF Kept
<1>1. PICK n \in names \cap Names(p) : e.id = hint /\ e.detail = n
  BY DEF DepEvidence, Names
<1> DEFINE d == [id |-> hint, kind |-> IF n \in DOMAIN q.dependencies THEN "dependency" ELSE "dev-dependency", detail |-> n]
<1>2. d \in DepEvidence(q, hint, names)
  BY DEF DepEvidence, Names
<1>3. Found(d) = Found(e)
  BY <1>1 DEF Found
<1> QED BY <1>2, <1>3

LEMMA KeptFamily ==
  ASSUME NEW t, NEW p, NEW q, p # NoPackage, q # NoPackage, Names(p) \subseteq Names(q),
         q.manager = p.manager, q.enginesNode = p.enginesNode, NEW f \in Families
  PROVE  Kept(Evidence(t, p, f, {}), Evidence(t, q, f, {}))
<1>1. ASSUME NEW hint, NEW names
      PROVE  \A e \in DepEvidence(p, hint, names) : \E d \in DepEvidence(q, hint, names) : Found(d) = Found(e)
  <2>1. Kept(DepEvidence(p, hint, names), DepEvidence(q, hint, names))
    BY KeptDependencies
  <2> QED BY <2>1 DEF Kept
<1>2. CASE f = "runtimes"
  <2>1. BunEvidence(t, p, {}) = BunEvidence(t, q, {}) /\ NodeEvidence(t, p) = NodeEvidence(t, q)
    BY DEF BunEvidence, NodeEvidence
  <2>2. Kept(WorkersEvidence(t, p), WorkersEvidence(t, q))
    BY <1>1 DEF WorkersEvidence, Kept
  <2> QED BY <1>2, <2>1, <2>2 DEF Evidence, DetectRuntimes, Kept
<1>3. CASE f = "deployments"
  BY <1>3 DEF Evidence, Kept
<1>4. CASE f = "frameworks"
  <2>1. Kept(DetectFrameworks(t, p), DetectFrameworks(t, q))
    BY <1>1 DEF DetectFrameworks, Kept
  <2> QED BY <1>4, <2>1 DEF Evidence
<1>5. CASE f = "dataLayers"
  <2>1. Kept(DetectDataLayers(p), DetectDataLayers(q))
    BY <1>1 DEF DetectDataLayers, Kept
  <2> QED BY <1>5, <2>1 DEF Evidence
<1>6. CASE f = "validators"
  <2>1. Kept(DetectValidators(p), DetectValidators(q))
    BY <1>1 DEF DetectValidators, Kept
  <2> QED BY <1>6, <2>1 DEF Evidence
<1>7. CASE f = "authLayers"
  <2>1. Kept(DetectAuth(p), DetectAuth(q))
    BY <1>1 DEF DetectAuth, Kept
  <2> QED BY <1>7, <2>1 DEF Evidence
<1>8. CASE f = "llmSdks"
  <2>1. Kept(DetectLlm(p), DetectLlm(q))
    BY <1>1 DEF DetectLlm, Kept
  <2> QED BY <1>8, <2>1 DEF Evidence
<1> QED BY <1>2, <1>3, <1>4, <1>5, <1>6, <1>7, <1>8 DEF Families

(* A workspace never takes away what was found without it: a merge keeps    *)
(* the root's names and adds to them, and every family of evidence grows    *)
(* with the names.                                                          *)
THEOREM WorkspacesOnlyAdd == Spec => WorkspaceOnlyAdds
<1>1. OnlyAdds
  <2> SUFFICES ASSUME MergeWorkspace, package # NoPackage
               PROVE  /\ \A f \in Families : FoundIn(f) \subseteq FoundIn(f)'
                      /\ BunScripts(package) \subseteq BunScripts(package')
    BY DEF OnlyAdds
  <2> DEFINE Grown == /\ package' # NoPackage /\ Names(package) \subseteq Names(package')
                      /\ package'.manager = package.manager /\ package'.enginesNode = package.enginesNode
                      /\ DOMAIN package.scripts \subseteq DOMAIN package'.scripts
                      /\ \A s \in DOMAIN package.scripts : package'.scripts[s] = package.scripts[s]
  <2>1. Grown
    <3>1. CASE package' = package
      BY <3>1
    <3>2. ASSUME NEW ws, package' = MergePackage(ws) PROVE Grown
      <4>1. /\ package' # NoPackage
            /\ package'.dependencies = OrInsert(package.dependencies, ws.dependencies)
            /\ package'.devDependencies = OrInsert(package.devDependencies, ws.devDependencies)
            /\ package'.scripts = OrInsert(package.scripts, ws.scripts)
            /\ package'.manager = package.manager /\ package'.enginesNode = package.enginesNode
        BY <3>2, MergedPackage
      <4>2. Names(package) \subseteq Names(package')
        <5>1. /\ DOMAIN OrInsert(package.dependencies, ws.dependencies) = DOMAIN package.dependencies \cup DOMAIN ws.dependencies
              /\ DOMAIN OrInsert(package.devDependencies, ws.devDependencies) =
                   DOMAIN package.devDependencies \cup DOMAIN ws.devDependencies
          BY MergedDomains
        <5> QED BY <4>1, <5>1 DEF Names
      <4>3. /\ DOMAIN package.scripts \subseteq DOMAIN package'.scripts
            /\ \A s \in DOMAIN package.scripts : package'.scripts[s] = package.scripts[s]
        <5>1. DOMAIN OrInsert(package.scripts, ws.scripts) = DOMAIN package.scripts \cup DOMAIN ws.scripts
          BY MergedDomains
        <5>2. \A s \in DOMAIN package.scripts : OrInsert(package.scripts, ws.scripts)[s] = package.scripts[s]
          BY MergedDomains
        <5> QED BY <4>1, <5>1, <5>2
      <4> QED BY <4>1, <4>2, <4>3
    <3> QED BY <3>1, <3>2 DEF MergeWorkspace
  <2>2. ASSUME NEW f \in Families PROVE FoundIn(f) \subseteq FoundIn(f)'
    <3>1. Kept(Evidence(tree, package, f, {}), Evidence(tree, package', f, {}))
      BY <2>1, KeptFamily
    <3>2. FoundIn(f)' = {Found(e) : e \in Evidence(tree, package', f, {})}
      BY DEF FoundIn, MergeWorkspace
    <3> QED BY <3>1, <3>2 DEF FoundIn, Kept
  <2> QED BY <2>1, <2>2 DEF BunScripts
<1> QED BY <1>1, PTL DEF WorkspaceOnlyAdds

-----------------------------------------------------------------------------
(* What a scan has read.                                                    *)

Patterns == [dir : STRING, glob : BOOLEAN]

PackageInv ==
  /\ tree \in Trees /\ (package = NoPackage \/ IsPackage(package))
  /\ patterns \in Seq(Patterns) /\ opened \subseteq Directories(tree)
  /\ package = NoPackage \/ profile # NoProfile => patterns = <<>> /\ opened = {}

LEMMA RootIsRead ==
  ASSUME NEW t \in Trees
  PROVE  /\ ReadPackageJson(t, Root) = NoPackage \/ IsPackage(ReadPackageJson(t, Root))
         /\ WorkspacesOf(ReadPackageJson(t, Root)) \in Seq(Patterns)
<1>1. ReadPackageJson(t, Root) = NoPackage \/ IsPackage(ReadPackageJson(t, Root))
  BY ProfileAssumption DEF ReadPackageJson
<1>2. <<>> \in Seq(Patterns)
  OBVIOUS
<1> QED BY <1>1, <1>2 DEF WorkspacesOf, IsPackage, Patterns

LEMMA MergedIsPackage ==
  ASSUME IsPackage(package), NEW ws, IsPackage(ws)
  PROVE  IsPackage(MergePackage(ws))
<1> DEFINE m == MergePackage(ws)
<1>1. /\ m.dependencies = OrInsert(package.dependencies, ws.dependencies)
      /\ m.devDependencies = OrInsert(package.devDependencies, ws.devDependencies)
      /\ m.scripts = OrInsert(package.scripts, ws.scripts)
      /\ m.manager = package.manager /\ m.enginesNode = package.enginesNode
      /\ m.typeModule = package.typeModule /\ m.workspaces = package.workspaces
  BY MergedPackage
<1>2. /\ IsFiniteSet(DOMAIN package.dependencies) /\ IsFiniteSet(DOMAIN package.devDependencies)
      /\ IsFiniteSet(DOMAIN ws.dependencies) /\ IsFiniteSet(DOMAIN ws.devDependencies)
  BY DEF IsPackage
<1>3. /\ DOMAIN m.dependencies = DOMAIN package.dependencies \cup DOMAIN ws.dependencies
      /\ DOMAIN m.devDependencies = DOMAIN package.devDependencies \cup DOMAIN ws.devDependencies
  <2>1. /\ DOMAIN OrInsert(package.dependencies, ws.dependencies) = DOMAIN package.dependencies \cup DOMAIN ws.dependencies
        /\ DOMAIN OrInsert(package.devDependencies, ws.devDependencies) =
             DOMAIN package.devDependencies \cup DOMAIN ws.devDependencies
    BY MergedDomains
  <2> QED BY <1>1, <2>1
<1>4. IsFiniteSet(DOMAIN m.dependencies) /\ IsFiniteSet(DOMAIN m.devDependencies)
  <2>1. /\ IsFiniteSet(DOMAIN package.dependencies \cup DOMAIN ws.dependencies)
        /\ IsFiniteSet(DOMAIN package.devDependencies \cup DOMAIN ws.devDependencies)
    BY <1>2, FS_Union
  <2> QED BY <1>3, <2>1
<1>5. Range(m.scripts) \subseteq {"bun", "other"}
  <2>1. Range(OrInsert(package.scripts, ws.scripts)) \subseteq Range(package.scripts) \cup Range(ws.scripts)
    BY DEF OrInsert, Either, Range
  <2> QED BY <1>1, <2>1 DEF IsPackage
<1> HIDE DEF m
<1>6. IsPackage(m)
  BY <1>1, <1>4, <1>5 DEF IsPackage
<1> QED BY <1>6 DEF m

LEMMA ExpandedInTree ==
  ASSUME NEW t \in Trees, NEW pattern \in Patterns
  PROVE  ExpandPattern(t, pattern) \subseteq Directories(t)
  BY ProfileAssumption DEF ExpandPattern

LEMMA PackageStep ==
  ASSUME PackageInv, ProfileNext
  PROVE  PackageInv'
<1>1. CASE OpenPattern
  <2>1. Head(patterns) \in Patterns /\ Tail(patterns) \in Seq(Patterns)
    BY <1>1 DEF OpenPattern, PackageInv
  <2>2. ExpandPattern(tree, Head(patterns)) \subseteq Directories(tree)
    BY <2>1, ExpandedInTree DEF PackageInv
  <2> QED BY <1>1, <2>1, <2>2 DEF OpenPattern, PackageInv
<1>2. CASE MergeWorkspace
  <2>1. PICK dir \in opened :
          /\ opened' = opened \ {dir}
          /\ package' = IF ReadPackageJson(tree, dir) = NoPackage THEN package ELSE MergePackage(ReadPackageJson(tree, dir))
    BY <1>2 DEF MergeWorkspace
  <2>2. dir \in Directories(tree) /\ package # NoPackage /\ IsPackage(package)
    BY <2>1 DEF PackageInv
  <2>3. ReadPackageJson(tree, dir) = NoPackage \/ IsPackage(ReadPackageJson(tree, dir))
    BY <2>2, ProfileAssumption DEF ReadPackageJson, PackageInv
  <2>4. package' # NoPackage /\ IsPackage(package')
    BY <2>1, <2>2, <2>3, MergedIsPackage, MergedPackage
  <2> QED BY <1>2, <2>1, <2>4 DEF MergeWorkspace, PackageInv
<1>3. CASE Detect
  BY <1>3 DEF Detect, PackageInv
<1>4. CASE ScanAgain
  <2>1. package' = ReadPackageJson(tree, Root) /\ patterns' = WorkspacesOf(ReadPackageJson(tree, Root))
    BY <1>4 DEF ScanAgain
  <2>2. /\ package' = NoPackage \/ IsPackage(package')
        /\ patterns' \in Seq(Patterns) /\ (package' = NoPackage => patterns' = <<>>)
    BY <2>1, RootIsRead DEF PackageInv, WorkspacesOf
  <2> QED BY <1>4, <2>2 DEF ScanAgain, PackageInv
<1> QED BY <1>1, <1>2, <1>3, <1>4 DEF ProfileNext

LEMMA PackageInit == Init => PackageInv
  BY RootIsRead DEF Init, ProfileInit, PackageInv, WorkspacesOf

LEMMA PackageIsInvariant == Spec => []PackageInv
<1>1. PackageInv /\ [Next]_vars => PackageInv'
  <2>1. PackageInv /\ UNCHANGED profileVars => PackageInv'
    BY DEF PackageInv, profileVars
  <2> QED BY <2>1, PackageStep DEF Next, DetectStep, LookAt, vars, profileVars
<1> QED BY <1>1, PackageInit, PTL DEF Spec

-----------------------------------------------------------------------------
(* The names a whole tree contributes, in whatever order.                   *)

DependenciesOf(t, d) == IF ReadPackageJson(t, d) = NoPackage THEN {} ELSE DOMAIN ReadPackageJson(t, d).dependencies
DevDependenciesOf(t, d) == IF ReadPackageJson(t, d) = NoPackage THEN {} ELSE DOMAIN ReadPackageJson(t, d).devDependencies
ScriptsOf(t, d) == IF ReadPackageJson(t, d) = NoPackage THEN {} ELSE DOMAIN ReadPackageJson(t, d).scripts
\* The directories still to be merged when o is left of the pattern open and ps are the patterns left.
LeftOf(t, o, ps) == o \cup UNION {ExpandPattern(t, ps[i]) : i \in DOMAIN ps}
ListedIn(t) == LeftOf(t, {Root}, WorkspacesOf(ReadPackageJson(t, Root)))
\* Where a merged package may have a script from: the root if it has one of
\* the name, and a workspace that has if not.
Gives(t, s, v) ==
  IF s \in ScriptsOf(t, Root) THEN v = ReadPackageJson(t, Root).scripts[s]
  ELSE \E d \in Workspaces(t) : s \in ScriptsOf(t, d) /\ v = ReadPackageJson(t, d).scripts[s]

\* Merged so far, and left to be merged, are together what the tree names.
IsMerged(t, p, o, ps) ==
  /\ p = NoPackage <=> ReadPackageJson(t, Root) = NoPackage
  /\ LeftOf(t, o, ps) \subseteq LeftOf(t, {}, WorkspacesOf(ReadPackageJson(t, Root)))
  /\ p # NoPackage =>
       /\ p.typeModule = ReadPackageJson(t, Root).typeModule
       /\ p.manager = ReadPackageJson(t, Root).manager /\ p.enginesNode = ReadPackageJson(t, Root).enginesNode
       /\ DOMAIN p.dependencies \cup UNION {DependenciesOf(t, d) : d \in LeftOf(t, o, ps)} =
            UNION {DependenciesOf(t, d) : d \in ListedIn(t)}
       /\ DOMAIN p.devDependencies \cup UNION {DevDependenciesOf(t, d) : d \in LeftOf(t, o, ps)} =
            UNION {DevDependenciesOf(t, d) : d \in ListedIn(t)}
       /\ DOMAIN p.scripts \cup UNION {ScriptsOf(t, d) : d \in LeftOf(t, o, ps)} =
            UNION {ScriptsOf(t, d) : d \in ListedIn(t)}
       /\ ScriptsOf(t, Root) \subseteq DOMAIN p.scripts /\ \A s \in DOMAIN p.scripts : Gives(t, s, p.scripts[s])
MergeInv == IsMerged(tree, package, opened, patterns)

LEMMA OpenedIsLeft ==
  ASSUME NEW t, NEW ps \in Seq(Patterns), ps # <<>>
  PROVE  LeftOf(t, ExpandPattern(t, Head(ps)), Tail(ps)) = LeftOf(t, {}, ps)
<1>1. DOMAIN ps = 1..Len(ps) /\ DOMAIN Tail(ps) = 1..(Len(ps) - 1) /\ Len(ps) \in Nat /\ Len(ps) >= 1
  OBVIOUS
<1>2. Head(ps) = ps[1] /\ \A i \in 1..(Len(ps) - 1) : Tail(ps)[i] = ps[i + 1]
  OBVIOUS
<1>3. ASSUME NEW d \in LeftOf(t, {}, ps) PROVE d \in LeftOf(t, ExpandPattern(t, Head(ps)), Tail(ps))
  <2>1. PICK i \in 1..Len(ps) : d \in ExpandPattern(t, ps[i])
    BY <1>1 DEF LeftOf
  <2>2. CASE i = 1
    BY <1>2, <2>1, <2>2 DEF LeftOf
  <2>3. CASE i # 1
    <3>1. i - 1 \in 1..(Len(ps) - 1) /\ ps[(i - 1) + 1] = ps[i]
      BY <1>1, <2>3
    <3>2. d \in ExpandPattern(t, Tail(ps)[i - 1])
      BY <1>2, <2>1, <3>1
    <3> QED BY <1>1, <3>1, <3>2 DEF LeftOf
  <2> QED BY <2>2, <2>3
<1>4. ASSUME NEW d \in LeftOf(t, ExpandPattern(t, Head(ps)), Tail(ps)) PROVE d \in LeftOf(t, {}, ps)
  <2>1. CASE d \in ExpandPattern(t, Head(ps))
    BY <1>1, <1>2, <2>1 DEF LeftOf
  <2>2. CASE d \notin ExpandPattern(t, Head(ps))
    <3>1. PICK i \in 1..(Len(ps) - 1) : d \in ExpandPattern(t, Tail(ps)[i])
      BY <1>1, <2>2 DEF LeftOf
    <3>2. i + 1 \in 1..Len(ps) /\ d \in ExpandPattern(t, ps[i + 1])
      BY <1>1, <1>2, <3>1
    <3> QED BY <1>1, <3>2 DEF LeftOf
  <2> QED BY <2>1, <2>2
<1> QED BY <1>3, <1>4

LEMMA MergeStarts ==
  ASSUME NEW t
  PROVE  IsMerged(t, ReadPackageJson(t, Root), {}, WorkspacesOf(ReadPackageJson(t, Root)))
<1> DEFINE root == ReadPackageJson(t, Root)
<1>1. ListedIn(t) = {Root} \cup LeftOf(t, {}, WorkspacesOf(root))
  BY DEF ListedIn, LeftOf
<1>2. ASSUME root # NoPackage
      PROVE  /\ DOMAIN root.dependencies = DependenciesOf(t, Root)
             /\ DOMAIN root.devDependencies = DevDependenciesOf(t, Root)
             /\ DOMAIN root.scripts = ScriptsOf(t, Root)
  BY <1>2 DEF DependenciesOf, DevDependenciesOf, ScriptsOf
<1>3. root # NoPackage => \A s \in DOMAIN root.scripts : Gives(t, s, root.scripts[s])
  BY <1>2 DEF Gives
<1> QED BY <1>1, <1>2, <1>3 DEF IsMerged

\* A script that the merged package has stays; one that it gains is the workspace's.
LEMMA ScriptsMerge ==
  ASSUME NEW t, NEW p, NEW q, NEW dir \in Workspaces(t), ReadPackageJson(t, dir) # NoPackage,
         q.scripts = OrInsert(p.scripts, ReadPackageJson(t, dir).scripts),
         ScriptsOf(t, Root) \subseteq DOMAIN p.scripts, \A s \in DOMAIN p.scripts : Gives(t, s, p.scripts[s])
  PROVE  /\ DOMAIN q.scripts = DOMAIN p.scripts \cup ScriptsOf(t, dir)
         /\ \A s \in DOMAIN q.scripts : Gives(t, s, q.scripts[s])
<1> DEFINE ws == ReadPackageJson(t, dir)
<1>1. /\ DOMAIN OrInsert(p.scripts, ws.scripts) = DOMAIN p.scripts \cup DOMAIN ws.scripts
      /\ \A k \in DOMAIN p.scripts : OrInsert(p.scripts, ws.scripts)[k] = p.scripts[k]
      /\ \A k \in DOMAIN ws.scripts \ DOMAIN p.scripts : OrInsert(p.scripts, ws.scripts)[k] = ws.scripts[k]
  BY MergedDomains
<1>2. ScriptsOf(t, dir) = DOMAIN ws.scripts
  BY DEF ScriptsOf
<1>3. ASSUME NEW s \in DOMAIN ws.scripts, s \notin DOMAIN p.scripts PROVE Gives(t, s, ws.scripts[s])
  BY <1>2, <1>3 DEF Gives
<1> QED BY <1>1, <1>2, <1>3

LEMMA MergeStep ==
  ASSUME PackageInv, MergeInv, ProfileNext
  PROVE  MergeInv'
<1>0. tree' = tree
  BY DEF ProfileNext, OpenPattern, MergeWorkspace, Detect, ScanAgain
<1>1. CASE OpenPattern
  <2>1. LeftOf(tree, opened', patterns') = LeftOf(tree, opened, patterns)
    BY <1>1, OpenedIsLeft DEF OpenPattern, PackageInv
  <2>2. IsMerged(tree, package, opened', patterns')
    BY <2>1 DEF MergeInv, IsMerged
  <2>3. package' = package
    BY <1>1 DEF OpenPattern
  <2> QED BY <1>0, <2>2, <2>3 DEF MergeInv
<1>2. CASE MergeWorkspace
  <2>1. PICK dir \in opened :
          /\ opened' = opened \ {dir}
          /\ package' = IF ReadPackageJson(tree, dir) = NoPackage THEN package ELSE MergePackage(ReadPackageJson(tree, dir))
    BY <1>2 DEF MergeWorkspace
  <2>2. /\ package # NoPackage /\ package' # NoPackage /\ package'.typeModule = package.typeModule
        /\ package'.manager = package.manager /\ package'.enginesNode = package.enginesNode
    BY <2>1, MergedPackage DEF PackageInv
  <2>3. /\ DOMAIN package'.dependencies = DOMAIN package.dependencies \cup DependenciesOf(tree, dir)
        /\ DOMAIN package'.devDependencies = DOMAIN package.devDependencies \cup DevDependenciesOf(tree, dir)
    <3>1. CASE ReadPackageJson(tree, dir) = NoPackage
      BY <2>1, <3>1 DEF DependenciesOf, DevDependenciesOf
    <3>2. CASE ReadPackageJson(tree, dir) # NoPackage
      <4> DEFINE ws == ReadPackageJson(tree, dir)
      <4>1. /\ package'.dependencies = OrInsert(package.dependencies, ws.dependencies)
            /\ package'.devDependencies = OrInsert(package.devDependencies, ws.devDependencies)
        BY <2>1, <3>2, MergedPackage
      <4>2. /\ DOMAIN OrInsert(package.dependencies, ws.dependencies) = DOMAIN package.dependencies \cup DOMAIN ws.dependencies
            /\ DOMAIN OrInsert(package.devDependencies, ws.devDependencies) =
                 DOMAIN package.devDependencies \cup DOMAIN ws.devDependencies
        BY MergedDomains
      <4> QED BY <3>2, <4>1, <4>2 DEF DependenciesOf, DevDependenciesOf
    <3> QED BY <3>1, <3>2
  <2>4. LeftOf(tree, opened, patterns) = {dir} \cup LeftOf(tree, opened', patterns')
    BY <1>2, <2>1 DEF LeftOf, MergeWorkspace
  <2>5. /\ ScriptsOf(tree, Root) \subseteq DOMAIN package.scripts
        /\ \A s \in DOMAIN package.scripts : Gives(tree, s, package.scripts[s])
    BY <2>2 DEF MergeInv, IsMerged
  <2>6. /\ DOMAIN package'.scripts = DOMAIN package.scripts \cup ScriptsOf(tree, dir)
        /\ \A s \in DOMAIN package'.scripts : Gives(tree, s, package'.scripts[s])
    <3>1. CASE ReadPackageJson(tree, dir) = NoPackage
      BY <2>1, <2>5, <3>1 DEF ScriptsOf
    <3>2. CASE ReadPackageJson(tree, dir) # NoPackage
      <4>1. dir \in Workspaces(tree)
        BY <2>4, <3>2 DEF MergeInv, IsMerged, LeftOf, Workspaces
      <4>2. package'.scripts = OrInsert(package.scripts, ReadPackageJson(tree, dir).scripts)
        BY <2>1, <3>2, MergedPackage
      <4> QED BY <2>5, <3>2, <4>1, <4>2, ScriptsMerge
    <3> QED BY <3>1, <3>2
  <2>7. /\ DOMAIN package'.dependencies \cup UNION {DependenciesOf(tree, d) : d \in LeftOf(tree, opened', patterns')} =
             DOMAIN package.dependencies \cup UNION {DependenciesOf(tree, d) : d \in LeftOf(tree, opened, patterns)}
        /\ DOMAIN package'.devDependencies \cup UNION {DevDependenciesOf(tree, d) : d \in LeftOf(tree, opened', patterns')} =
             DOMAIN package.devDependencies \cup UNION {DevDependenciesOf(tree, d) : d \in LeftOf(tree, opened, patterns)}
        /\ DOMAIN package'.scripts \cup UNION {ScriptsOf(tree, d) : d \in LeftOf(tree, opened', patterns')} =
             DOMAIN package.scripts \cup UNION {ScriptsOf(tree, d) : d \in LeftOf(tree, opened, patterns)}
    BY <2>3, <2>4, <2>6
  <2>8. LeftOf(tree, opened', patterns') \subseteq LeftOf(tree, opened, patterns)
    BY <2>4
  <2> QED BY <1>0, <2>2, <2>5, <2>6, <2>7, <2>8 DEF MergeInv, IsMerged
<1>3. CASE Detect
  BY <1>3 DEF Detect, MergeInv
<1>4. CASE ScanAgain
  <2>1. opened' = {} /\ package' = ReadPackageJson(tree, Root) /\ patterns' = WorkspacesOf(ReadPackageJson(tree, Root))
    BY <1>4 DEF ScanAgain, PackageInv
  <2> QED BY <1>0, <2>1, MergeStarts DEF MergeInv
<1> QED BY <1>1, <1>2, <1>3, <1>4 DEF ProfileNext

-----------------------------------------------------------------------------
(* What evidence there can be.                                              *)

HintIds == Range(HintOrder)
Kinds == {"config-file", "lockfile", "package-manager", "dependency", "dev-dependency", "package-script"}

LEMMA FirstNumbersAreFinite ==
  ASSUME NEW n \in Int
  PROVE  IsFiniteSet(1..n)
<1>1. 1 \in Int
  OBVIOUS
<1> QED BY <1>1, FS_Interval

LEMMA HintsAreOrdered ==
  /\ {"node", "bun", "deno", "cloudflare-workers", "vercel-edge", "next-backend", "hono",
     "express", "fastify", "nestjs", "elysia", "oak", "prisma", "drizzle",
     "kysely", "knex", "pg", "mysql2", "mongoose", "zod", "valibot",
     "yup", "joi", "ajv", "arktype", "typebox", "class-validator", "better-auth",
     "auth-js", "clerk", "supabase-auth", "lucia", "openai", "anthropic", "vercel-ai-sdk",
     "langchain", "vercel", "cloudflare", "aws-lambda", "netlify", "fly-io", "docker"}
       \subseteq HintIds
  /\ IsFiniteSet(HintIds)
<1>1. /\ DOMAIN HintOrder = 1..42
      /\ HintOrder[1] = "node" /\ HintOrder[2] = "bun" /\ HintOrder[3] = "deno" /\ HintOrder[4] = "cloudflare-workers" /\ HintOrder[5] = "vercel-edge" /\ HintOrder[6] = "next-backend"
      /\ HintOrder[7] = "hono" /\ HintOrder[8] = "express" /\ HintOrder[9] = "fastify" /\ HintOrder[10] = "nestjs" /\ HintOrder[11] = "elysia" /\ HintOrder[12] = "oak"
      /\ HintOrder[13] = "prisma" /\ HintOrder[14] = "drizzle" /\ HintOrder[15] = "kysely" /\ HintOrder[16] = "knex" /\ HintOrder[17] = "pg" /\ HintOrder[18] = "mysql2"
      /\ HintOrder[19] = "mongoose" /\ HintOrder[20] = "zod" /\ HintOrder[21] = "valibot" /\ HintOrder[22] = "yup" /\ HintOrder[23] = "joi" /\ HintOrder[24] = "ajv"
      /\ HintOrder[25] = "arktype" /\ HintOrder[26] = "typebox" /\ HintOrder[27] = "class-validator" /\ HintOrder[28] = "better-auth" /\ HintOrder[29] = "auth-js" /\ HintOrder[30] = "clerk"
      /\ HintOrder[31] = "supabase-auth" /\ HintOrder[32] = "lucia" /\ HintOrder[33] = "openai" /\ HintOrder[34] = "anthropic" /\ HintOrder[35] = "vercel-ai-sdk" /\ HintOrder[36] = "langchain"
      /\ HintOrder[37] = "vercel" /\ HintOrder[38] = "cloudflare" /\ HintOrder[39] = "aws-lambda" /\ HintOrder[40] = "netlify" /\ HintOrder[41] = "fly-io" /\ HintOrder[42] = "docker"
  BY DEF HintOrder
<1>2. \A i \in 1..42 : HintOrder[i] \in HintIds
  BY <1>1 DEF HintIds, Range
<1>3. HintOrder \in Surjection(1..42, HintIds)
  <2>1. HintOrder = [i \in 1..42 |-> HintOrder[i]]
    BY DEF HintOrder
  <2> QED BY <1>1, <1>2, <2>1 DEF HintIds, Range, Surjection
<1>4. IsFiniteSet(HintIds)
  <2>0. 42 \in Int
    OBVIOUS
  <2>1. IsFiniteSet(1..42)
    BY <2>0, FirstNumbersAreFinite, Zenon
  <2> QED BY <1>3, <2>1, FS_Surjection
<1> QED BY <1>1, <1>2, <1>4

LEMMA OrdinalIsInjective ==
  ASSUME NEW h \in HintIds
  PROVE  Ordinal(h) \in Int /\ HintOrder[Ordinal(h)] = h
<1>1. \E i \in DOMAIN HintOrder : HintOrder[i] = h
  BY DEF HintIds, Range
<1>2. Ordinal(h) \in DOMAIN HintOrder /\ HintOrder[Ordinal(h)] = h
  BY <1>1 DEF Ordinal
<1>3. DOMAIN HintOrder = 1..42
  BY DEF HintOrder
<1> QED BY <1>2, <1>3

\* The image of a finite set is finite.
LEMMA FiniteImage ==
  ASSUME NEW S, IsFiniteSet(S), NEW f, DOMAIN f = S
  PROVE  IsFiniteSet({f[x] : x \in S})
<1> DEFINE T == {f[x] : x \in S}
<1>1. [x \in S |-> f[x]] \in Surjection(S, T)
  BY DEF Surjection
<1> QED BY <1>1, FS_Surjection

LEMMA KindsAreFinite == IsFiniteSet(Kinds)
<1> DEFINE f == <<"config-file", "lockfile", "package-manager", "dependency", "dev-dependency", "package-script">>
<1>0. DOMAIN f = 1..6
  OBVIOUS
<1>1. IsFiniteSet(1..6)
  <2>1. 6 \in Int
    OBVIOUS
  <2> QED BY <2>1, FirstNumbersAreFinite, Zenon
<1>3. Kinds = {f[x] : x \in 1..6}
  BY DEF Kinds
<1>2. IsFiniteSet({f[x] : x \in 1..6})
  <2> HIDE DEF f
  <2> QED BY <1>0, <1>1, FiniteImage
<1> QED BY <1>2, <1>3

\* Evidence of the hints there are, of the kinds there are, in one of the details.
EvidenceOf(details) == {[id |-> h, kind |-> k, detail |-> n] : h \in HintIds, k \in Kinds, n \in details}

LEMMA EvidenceIsFinite ==
  ASSUME NEW details, IsFiniteSet(details)
  PROVE  IsFiniteSet(EvidenceOf(details))
<1> DEFINE P == (HintIds \X Kinds) \X details
           f == [x \in P |-> [id |-> x[1][1], kind |-> x[1][2], detail |-> x[2]]]
<1>1. IsFiniteSet(HintIds \X Kinds)
  BY HintsAreOrdered, KindsAreFinite, FS_Product
<1>2. IsFiniteSet(P)
  BY <1>1, FS_Product
<1>3. EvidenceOf(details) \subseteq {f[x] : x \in P}
  <2> SUFFICES ASSUME NEW e \in EvidenceOf(details) PROVE e \in {f[x] : x \in P}
    OBVIOUS
  <2>1. PICK h \in HintIds, k \in Kinds, n \in details : e = [id |-> h, kind |-> k, detail |-> n]
    BY DEF EvidenceOf
  <2>2. <<<<h, k>>, n>> \in P
    OBVIOUS
  <2>3. f[<<<<h, k>>, n>>] = e
    BY <2>1, <2>2
  <2> QED BY <2>2, <2>3
<1>4. DOMAIN f = P
  OBVIOUS
<1> HIDE DEF P, f
<1>5. IsFiniteSet({f[x] : x \in P})
  BY <1>2, <1>4, FiniteImage
<1> QED BY <1>3, <1>5, FS_Subset

\* What the details of one detection can be.
DetailsOf(t, p, scripts) ==
  t.files \cup scripts \cup {"packageManager", "engines.node"} \cup IF p = NoPackage THEN {} ELSE Names(p)

LEMMA DetailsAreFinite ==
  ASSUME NEW t \in Trees, NEW p, p = NoPackage \/ IsPackage(p), NEW scripts \in ScriptChoices(p)
  PROVE  IsFiniteSet(DetailsOf(t, p, scripts))
<1>1. IsFiniteSet(t.files)
  BY ProfileAssumption
<1>2. IsFiniteSet(scripts)
  BY FS_EmptySet, FS_Singleton DEF ScriptChoices
<1>3. IsFiniteSet({"packageManager"} \cup {"engines.node"})
  BY FS_Singleton, FS_AddElement
<1>4. IsFiniteSet(IF p = NoPackage THEN {} ELSE Names(p))
  <2>1. CASE p = NoPackage
    BY <2>1, FS_EmptySet
  <2>2. CASE p # NoPackage
    <3>1. IsFiniteSet(DOMAIN p.dependencies) /\ IsFiniteSet(DOMAIN p.devDependencies)
      BY <2>2 DEF IsPackage
    <3> QED BY <2>2, <3>1, FS_Union DEF Names
  <2> QED BY <2>1, <2>2
<1>5. IsFiniteSet(t.files \cup scripts)
  BY <1>1, <1>2, FS_Union
<1>6. IsFiniteSet((t.files \cup scripts) \cup ({"packageManager"} \cup {"engines.node"}))
  BY <1>3, <1>5, FS_Union
<1>7. IsFiniteSet(((t.files \cup scripts) \cup ({"packageManager"} \cup {"engines.node"}))
                   \cup IF p = NoPackage THEN {} ELSE Names(p))
  BY <1>4, <1>6, FS_Union
<1>8. DetailsOf(t, p, scripts) = ((t.files \cup scripts) \cup ({"packageManager"} \cup {"engines.node"}))
                                   \cup IF p = NoPackage THEN {} ELSE Names(p)
  BY DEF DetailsOf
<1> QED BY <1>7, <1>8

LEMMA DependenciesGive ==
  ASSUME NEW p, p # NoPackage, NEW hint \in HintIds, NEW names, NEW details, Names(p) \subseteq details
  PROVE  DepEvidence(p, hint, names) \subseteq EvidenceOf(details)
  BY DEF DepEvidence, Names, EvidenceOf, Kinds

LEMMA FilesGive ==
  ASSUME NEW t, NEW hint \in HintIds, NEW kind \in Kinds, NEW names, NEW details, t.files \subseteq details
  PROVE  /\ FileEvidence(t, hint, kind, names) \subseteq EvidenceOf(details)
         /\ FirstFile(t, hint, kind, names) \subseteq EvidenceOf(details)
<1>1. \A some : FileEvidence(t, hint, kind, some) \subseteq EvidenceOf(details)
  BY DEF FileEvidence, EvidenceOf
<1> QED BY <1>1 DEF FirstFile

\* Every family's evidence names a hint there is, and is finite.
LEMMA EvidenceIsTyped ==
  ASSUME NEW t \in Trees, NEW p, p = NoPackage \/ IsPackage(p), NEW scripts \in ScriptChoices(p), NEW f \in Families
  PROVE  /\ Evidence(t, p, f, scripts) \subseteq EvidenceOf(DetailsOf(t, p, scripts))
         /\ IsFiniteSet(Evidence(t, p, f, scripts))
<1> DEFINE U == EvidenceOf(DetailsOf(t, p, scripts))
<1>1. \A hint \in HintIds, kind \in Kinds : \A names :
        FileEvidence(t, hint, kind, names) \subseteq U /\ FirstFile(t, hint, kind, names) \subseteq U
  <2>1. t.files \subseteq DetailsOf(t, p, scripts)
    BY DEF DetailsOf
  <2> QED BY <2>1, FilesGive
<1>2. p # NoPackage => \A hint \in HintIds : \A names : DepEvidence(p, hint, names) \subseteq U
  <2> SUFFICES ASSUME p # NoPackage, NEW hint \in HintIds, NEW names PROVE DepEvidence(p, hint, names) \subseteq U
    OBVIOUS
  <2>1. Names(p) \subseteq DetailsOf(t, p, scripts)
    BY DEF DetailsOf
  <2> QED BY <2>1, DependenciesGive
<1>3. {"packageManager", "engines.node"} \cup scripts \subseteq DetailsOf(t, p, scripts)
  BY DEF DetailsOf
<1>4. \A hint \in HintIds, kind \in Kinds, n \in DetailsOf(t, p, scripts) : [id |-> hint, kind |-> kind, detail |-> n] \in U
  BY DEF EvidenceOf
<1>5. {"config-file", "lockfile", "package-manager", "package-script"} \subseteq Kinds
  BY DEF Kinds
<1>6. Evidence(t, p, f, scripts) \subseteq U
  <2> HIDE DEF U
  <2>1. CASE f = "runtimes"
    <3>1. BunEvidence(t, p, scripts) \subseteq U
      BY <1>1, <1>3, <1>4, <1>5, HintsAreOrdered DEF BunEvidence
    <3>2. NodeEvidence(t, p) \subseteq U
      BY <1>1, <1>3, <1>4, <1>5, HintsAreOrdered DEF NodeEvidence
    <3>3. WorkersEvidence(t, p) \subseteq U
      BY <1>1, <1>2, <1>5, HintsAreOrdered DEF WorkersEvidence
    <3>4. DenoEvidence(t) \subseteq U
      BY <1>1, <1>5, HintsAreOrdered DEF DenoEvidence
    <3> QED BY <2>1, <3>1, <3>2, <3>3, <3>4 DEF Evidence, DetectRuntimes
  <2>2. CASE f = "deployments"
    BY <1>1, <1>5, <2>2, HintsAreOrdered DEF Evidence, DetectDeployments
  <2>3. CASE f \notin {"runtimes", "deployments"} /\ p = NoPackage
    BY <2>3 DEF Evidence
  <2>4. CASE f = "frameworks" /\ p # NoPackage
    BY <1>1, <1>2, <1>5, <2>4, HintsAreOrdered DEF Evidence, DetectFrameworks
  <2>5. CASE f = "dataLayers" /\ p # NoPackage
    BY <1>2, <2>5, HintsAreOrdered DEF Evidence, DetectDataLayers
  <2>6. CASE f = "validators" /\ p # NoPackage
    BY <1>2, <2>6, HintsAreOrdered DEF Evidence, DetectValidators
  <2>7. CASE f = "authLayers" /\ p # NoPackage
    BY <1>2, <2>7, HintsAreOrdered DEF Evidence, DetectAuth
  <2>8. CASE f = "llmSdks" /\ p # NoPackage
    BY <1>2, <2>8, HintsAreOrdered DEF Evidence, DetectLlm
  <2> QED BY <2>1, <2>2, <2>3, <2>4, <2>5, <2>6, <2>7, <2>8 DEF Families
<1>7. IsFiniteSet(U)
  BY DetailsAreFinite, EvidenceIsFinite
<1> QED BY <1>6, <1>7, FS_Subset

-----------------------------------------------------------------------------
(* The confidence in a hint.                                                *)

IsEvidence(evidence) == IsFiniteSet(evidence) /\ \A e \in evidence : e.id \in HintIds /\ e.kind \in Kinds

LEMMA CountIsNat ==
  ASSUME NEW evidence, IsFiniteSet(evidence), NEW kinds
  PROVE  /\ Count(evidence, kinds) \in Nat
         /\ (\E e \in evidence : e.kind \in kinds) => Count(evidence, kinds) >= 1
         /\ (\A e \in evidence : e.kind \notin kinds) => Count(evidence, kinds) = 0
         /\ (\A e \in evidence : e.kind \in kinds) => Count(evidence, kinds) = Cardinality(evidence)
<1> DEFINE S == {e \in evidence : e.kind \in kinds}
<1>1. IsFiniteSet(S) /\ Cardinality(S) \in Nat
  BY FS_Subset, FS_CardinalityType
<1>2. Cardinality(S) = 0 <=> S = {}
  BY <1>1, FS_EmptySet
<1>3. Count(evidence, kinds) = Cardinality(S)
  BY DEF Count
<1>4. /\ (\E e \in evidence : e.kind \in kinds) => S # {}
      /\ (\A e \in evidence : e.kind \notin kinds) => S = {}
      /\ (\A e \in evidence : e.kind \in kinds) => S = evidence
  OBVIOUS
<1> HIDE DEF S
<1>5. S # {} => Cardinality(S) >= 1
  BY <1>1, <1>2
<1> QED BY <1>1, <1>2, <1>3, <1>4, <1>5

LEMMA MinIs ==
  ASSUME NEW w \in Nat
  PROVE  Min({100, w}) = IF w < 100 THEN w ELSE 100
<1> DEFINE m == IF w < 100 THEN w ELSE 100
<1>1. m \in {100, w} /\ \A y \in {100, w} : m <= y
  OBVIOUS
<1>2. \A x \in {100, w} : (\A y \in {100, w} : x <= y) => x = m
  OBVIOUS
<1> QED BY <1>1, <1>2 DEF Min

LEMMA ConfidenceIs ==
  ASSUME NEW evidence, IsEvidence(evidence)
  PROVE  /\ Confidence(evidence) \in 0..100
         /\ evidence # {} => Confidence(evidence) \in 1..100
         /\ (\A e \in evidence : e.kind \in {"dependency", "dev-dependency"}) =>
              Confidence(evidence) = IF 30 * Cardinality(evidence) < 100 THEN 30 * Cardinality(evidence) ELSE 100
<1> DEFINE a == Count(evidence, {"config-file"})
           b == Count(evidence, {"lockfile", "package-manager"})
           c == Count(evidence, {"dependency", "dev-dependency"})
           d == Count(evidence, {"package-script"})
<1>1. a \in Nat /\ b \in Nat /\ c \in Nat /\ d \in Nat
  BY CountIsNat DEF IsEvidence
<1>2. Weight(evidence) = 40 * a + 35 * b + 30 * c + 20 * d
  BY DEF Weight
<1>3. evidence # {} => a >= 1 \/ b >= 1 \/ c >= 1 \/ d >= 1
  <2> SUFFICES ASSUME NEW e \in evidence PROVE a >= 1 \/ b >= 1 \/ c >= 1 \/ d >= 1
    OBVIOUS
  <2>1. \/ e.kind \in {"config-file"} \/ e.kind \in {"lockfile", "package-manager"}
        \/ e.kind \in {"dependency", "dev-dependency"} \/ e.kind \in {"package-script"}
    BY DEF IsEvidence, Kinds
  <2> QED BY <2>1, CountIsNat DEF IsEvidence
<1>4. (\A e \in evidence : e.kind \in {"dependency", "dev-dependency"}) =>
        a = 0 /\ b = 0 /\ c = Cardinality(evidence) /\ d = 0
  BY CountIsNat DEF IsEvidence
<1> HIDE DEF a, b, c, d
<1>5. Weight(evidence) \in Nat /\ (evidence # {} => Weight(evidence) >= 1)
  BY <1>1, <1>2, <1>3
<1>6. Confidence(evidence) = IF Weight(evidence) < 100 THEN Weight(evidence) ELSE 100
  BY <1>5, MinIs DEF Confidence
<1>7. (\A e \in evidence : e.kind \in {"dependency", "dev-dependency"}) => Weight(evidence) = 30 * Cardinality(evidence)
  <2> SUFFICES ASSUME \A e \in evidence : e.kind \in {"dependency", "dev-dependency"}
               PROVE  Weight(evidence) = 30 * Cardinality(evidence)
    OBVIOUS
  <2>1. a = 0 /\ b = 0 /\ c = Cardinality(evidence) /\ d = 0
    BY <1>4
  <2>2. Cardinality(evidence) \in Nat
    BY FS_CardinalityType DEF IsEvidence
  <2> QED BY <1>2, <2>1, <2>2
<1> QED BY <1>5, <1>6, <1>7

-----------------------------------------------------------------------------
(* The order of the hints.                                                  *)

Hints(evidence) == {Detected(evidence, e.id) : e \in evidence}
Ahead(S, d) == {other \in S : Before(other, d)}

LEMMA HintsAre ==
  ASSUME NEW evidence, IsEvidence(evidence)
  PROVE  /\ IsFiniteSet(Hints(evidence))
         /\ \A d \in Hints(evidence) :
              /\ d.id \in HintIds /\ d.evidence = {e \in evidence : e.id = d.id} /\ d.evidence # {}
              /\ d.confidence = Confidence(d.evidence) /\ d.confidence \in 1..100
         /\ \A x, y \in Hints(evidence) : x.id = y.id => x = y
<1>1. IsFiniteSet(Hints(evidence))
  <2> DEFINE f == [e \in evidence |-> Detected(evidence, e.id)]
  <2>1. Hints(evidence) = {f[e] : e \in evidence} /\ DOMAIN f = evidence
    BY DEF Hints
  <2> HIDE DEF f
  <2> QED BY <2>1, FiniteImage DEF IsEvidence
<1>2. ASSUME NEW d \in Hints(evidence)
      PROVE  /\ d.id \in HintIds /\ d.evidence = {e \in evidence : e.id = d.id} /\ d.evidence # {}
             /\ d.confidence = Confidence(d.evidence) /\ d.confidence \in 1..100
             /\ d = Detected(evidence, d.id)
  <2>1. PICK e \in evidence : d = Detected(evidence, e.id)
    BY DEF Hints
  <2>2. d.id = e.id /\ d.evidence = {x \in evidence : x.id = e.id} /\ d.confidence = Confidence(d.evidence)
    BY <2>1 DEF Detected
  <2>3. e \in d.evidence /\ e.id \in HintIds
    BY <2>2 DEF IsEvidence
  <2>4. IsFiniteSet(d.evidence) /\ \A x \in d.evidence : x.id \in HintIds /\ x.kind \in Kinds
    BY <2>2, FS_Subset DEF IsEvidence
  <2>5. d.confidence \in 1..100
    BY <2>2, <2>3, <2>4, ConfidenceIs DEF IsEvidence
  <2> QED BY <2>1, <2>2, <2>3, <2>5
<1>3. ASSUME NEW x \in Hints(evidence), NEW y \in Hints(evidence), x.id = y.id PROVE x = y
  BY <1>2, <1>3
<1> QED BY <1>1, <1>2, <1>3

\* Before is a strict total order on the hints.
IsOrdered(S) ==
  /\ \A x \in S : ~ Before(x, x)
  /\ \A x, y \in S : x # y => Before(x, y) \/ Before(y, x)
  /\ \A x, y, z \in S : Before(x, y) /\ Before(y, z) => Before(x, z)

LEMMA HintsAreTotal ==
  ASSUME NEW evidence, IsEvidence(evidence)
  PROVE  IsOrdered(Hints(evidence))
<1>1. \A x \in Hints(evidence) : x.confidence \in Int /\ Ordinal(x.id) \in Int /\ HintOrder[Ordinal(x.id)] = x.id
  BY HintsAre, OrdinalIsInjective
<1>2. \A x, y \in Hints(evidence) : x # y => Ordinal(x.id) # Ordinal(y.id)
  BY <1>1, HintsAre
<1>3. \A x \in Hints(evidence) : ~ Before(x, x)
  BY <1>1 DEF Before
<1>4. \A x, y \in Hints(evidence) : x # y => Before(x, y) \/ Before(y, x)
  BY <1>1, <1>2 DEF Before
<1>5. \A x, y, z \in Hints(evidence) : Before(x, y) /\ Before(y, z) => Before(x, z)
  BY <1>1 DEF Before
<1> QED BY <1>3, <1>4, <1>5 DEF IsOrdered

\* Each place of the list is that of one hint: their ranks are different numbers below their number.
LEMMA EveryRankIsTaken ==
  ASSUME NEW S, IsFiniteSet(S), IsOrdered(S)
  PROVE  /\ Cardinality(S) \in Nat
         /\ \A k \in 0..(Cardinality(S) - 1) : \E d \in S : Cardinality(Ahead(S, d)) = k
         /\ \A x, y \in S : Before(x, y) => Cardinality(Ahead(S, x)) < Cardinality(Ahead(S, y))
         /\ \A d \in S : Cardinality(Ahead(S, d)) \in 0..(Cardinality(S) - 1)
<1> DEFINE n == Cardinality(S)
           rank == [d \in S |-> Cardinality(Ahead(S, d))]
<1>1. n \in Nat
  BY FS_CardinalityType
<1>2. ASSUME NEW d \in S
      PROVE  IsFiniteSet(Ahead(S, d)) /\ Cardinality(Ahead(S, d)) \in 0..(n - 1)
  <2>1. Ahead(S, d) \subseteq S \ {d}
    BY DEF Ahead, IsOrdered
  <2>2. IsFiniteSet(S \ {d}) /\ Cardinality(S \ {d}) = n - 1
    BY FS_RemoveElement
  <2>3. IsFiniteSet(Ahead(S, d)) /\ Cardinality(Ahead(S, d)) <= n - 1
    BY <2>1, <2>2, FS_Subset
  <2>4. Cardinality(Ahead(S, d)) \in Nat
    BY <2>3, FS_CardinalityType
  <2> QED BY <1>1, <2>3, <2>4
<1>3. ASSUME NEW x \in S, NEW y \in S, Before(x, y)
      PROVE  Cardinality(Ahead(S, x)) < Cardinality(Ahead(S, y))
  <2>1. Ahead(S, x) \subseteq Ahead(S, y) /\ x \in Ahead(S, y) /\ x \notin Ahead(S, x)
    BY <1>3 DEF Ahead, IsOrdered
  <2>2. IsFiniteSet(Ahead(S, y)) /\ IsFiniteSet(Ahead(S, x))
    BY <1>2
  <2>3. Cardinality(Ahead(S, x)) <= Cardinality(Ahead(S, y)) /\ Cardinality(Ahead(S, x)) # Cardinality(Ahead(S, y))
    BY <2>1, <2>2, FS_Subset
  <2>4. Cardinality(Ahead(S, x)) \in Int /\ Cardinality(Ahead(S, y)) \in Int
    BY <1>2
  <2> QED BY <2>3, <2>4
<1>4. ASSUME NEW x \in S, NEW y \in S, Cardinality(Ahead(S, x)) = Cardinality(Ahead(S, y)) PROVE x = y
  <2>1. Cardinality(Ahead(S, x)) \in Int /\ Cardinality(Ahead(S, y)) \in Int
    BY <1>2
  <2> QED BY <1>3, <1>4, <2>1 DEF IsOrdered
<1>5. rank \in Injection(S, 0..(n - 1))
  BY <1>2, <1>4 DEF Injection, IsInjective
<1>6. IsFiniteSet(0..(n - 1)) /\ Cardinality(0..(n - 1)) = n
  <2>1. 0 \in Int /\ n - 1 \in Int
    BY <1>1
  <2>2. IsFiniteSet(0..(n - 1)) /\ Cardinality(0..(n - 1)) = IF 0 > n - 1 THEN 0 ELSE (n - 1) - 0 + 1
    BY <2>1, FS_Interval
  <2> QED BY <1>1, <2>2
<1>7. rank \in Surjection(S, 0..(n - 1))
  <2> HIDE DEF rank
  <2> QED BY <1>5, <1>6, FS_Injection
<1>8. \A k \in 0..(n - 1) : \E d \in S : Cardinality(Ahead(S, d)) = k
  BY <1>7 DEF Surjection
<1> QED BY <1>1, <1>2, <1>3, <1>8

LEMMA FinalizedIsSorted ==
  ASSUME NEW evidence, IsEvidence(evidence)
  PROVE  /\ \A i \in DOMAIN Finalize(evidence) : Finalize(evidence)[i] \in Hints(evidence)
         /\ \A i, j \in DOMAIN Finalize(evidence) : Before(Finalize(evidence)[i], Finalize(evidence)[j]) => i < j
<1> DEFINE S == Hints(evidence)
           n == Cardinality(S)
           place(i) == CHOOSE d \in S : Cardinality(Ahead(S, d)) = i - 1
<1>1. Finalize(evidence) = [i \in 1..n |-> place(i)]
  BY DEF Finalize, Hints, Ahead
<1>2. IsFiniteSet(S) /\ IsOrdered(S)
  BY HintsAre, HintsAreTotal
<1> HIDE DEF S
<1>3. ASSUME NEW i \in 1..n
      PROVE  place(i) \in S /\ Cardinality(Ahead(S, place(i))) = i - 1
  <2>1. i - 1 \in 0..(n - 1)
    BY <1>2, EveryRankIsTaken
  <2>2. \E d \in S : Cardinality(Ahead(S, d)) = i - 1
    BY <1>2, <2>1, EveryRankIsTaken
  <2> QED BY <2>2
<1>4. ASSUME NEW i \in 1..n, NEW j \in 1..n, Before(place(i), place(j))
      PROVE  i < j
  <2>1. place(i) \in S /\ place(j) \in S /\ Cardinality(Ahead(S, place(i))) = i - 1 /\ Cardinality(Ahead(S, place(j))) = j - 1
    BY <1>3
  <2> HIDE DEF place
  <2>2. Cardinality(Ahead(S, place(i))) < Cardinality(Ahead(S, place(j)))
    BY <1>2, <1>4, <2>1, EveryRankIsTaken
  <2>3. i \in Int /\ j \in Int
    OBVIOUS
  <2> QED BY <2>1, <2>2, <2>3
<1> HIDE DEF place
<1> QED BY <1>1, <1>3, <1>4 DEF S

-----------------------------------------------------------------------------
(* The profile detected.                                                    *)

LEMMA EvidenceIsEvidence ==
  ASSUME NEW t \in Trees, NEW p, p = NoPackage \/ IsPackage(p), NEW scripts \in ScriptChoices(p), NEW f \in Families
  PROVE  IsEvidence(Evidence(t, p, f, scripts))
<1>1. \A e \in Evidence(t, p, f, scripts) : e \in EvidenceOf(DetailsOf(t, p, scripts))
  BY EvidenceIsTyped
<1>2. \A e \in EvidenceOf(DetailsOf(t, p, scripts)) : e.id \in HintIds /\ e.kind \in Kinds
  BY DEF EvidenceOf
<1>3. IsFiniteSet(Evidence(t, p, f, scripts))
  BY EvidenceIsTyped
<1> QED BY <1>1, <1>2, <1>3 DEF IsEvidence

LEMMA ProfilesAreTyped ==
  ASSUME NEW t \in Trees, NEW p, p = NoPackage \/ IsPackage(p), NEW scripts \in ScriptChoices(p)
  PROVE  IsProfile(ProfileOf(t, p, scripts))
<1>1. ProfileOf(t, p, scripts).language \in {"typescript", "javascript", "unknown"}
  BY DEF ProfileOf, DetectLanguage
<1>2. ASSUME NEW f \in Families, NEW i \in DOMAIN ProfileOf(t, p, scripts).hints[f]
      PROVE  /\ ProfileOf(t, p, scripts).hints[f][i].confidence \in 1..100
             /\ ProfileOf(t, p, scripts).hints[f][i].evidence # {}
  <2>1. ProfileOf(t, p, scripts).hints[f] = Finalize(Evidence(t, p, f, scripts))
    BY DEF ProfileOf
  <2>2. IsEvidence(Evidence(t, p, f, scripts))
    BY EvidenceIsEvidence
  <2>3. PICK d : d = ProfileOf(t, p, scripts).hints[f][i]
    OBVIOUS
  <2>4. d \in Hints(Evidence(t, p, f, scripts))
    BY <2>1, <2>2, <2>3, FinalizedIsSorted
  <2>5. d.confidence \in 1..100 /\ d.evidence # {}
    BY <2>2, <2>4, HintsAre
  <2> QED BY <2>3, <2>5
<1> QED BY <1>1, <1>2 DEF IsProfile

\* The profile is that of the package as it is; the earlier one is a profile.
NowInv ==
  /\ profile # NoProfile => \E scripts \in ScriptChoices(package) : profile = ProfileOf(tree, package, scripts)
  /\ earlier = NoProfile \/ IsProfile(earlier)

LEMMA NowIsTyped ==
  ASSUME PackageInv, NowInv
  PROVE  ProfileTypeOK
  BY ProfilesAreTyped DEF PackageInv, NowInv, ProfileTypeOK

LEMMA NowStep ==
  ASSUME PackageInv, NowInv, ProfileNext
  PROVE  NowInv'
<1>1. CASE Detect
  BY <1>1 DEF Detect, NowInv
<1>2. CASE OpenPattern \/ MergeWorkspace
  BY <1>2 DEF OpenPattern, MergeWorkspace, NowInv
<1>3. CASE ScanAgain
  <2>1. IsProfile(profile)
    BY <1>3, NowIsTyped DEF ScanAgain, ProfileTypeOK
  <2> QED BY <1>3, <2>1 DEF ScanAgain, NowInv
<1> QED BY <1>1, <1>2, <1>3 DEF ProfileNext

LEMMA NowIsInvariant == Spec => [](PackageInv /\ NowInv)
<1>1. Init => PackageInv /\ NowInv
  BY PackageInit DEF Init, ProfileInit, NowInv
<1>2. (PackageInv /\ NowInv) /\ [Next]_vars => (PackageInv /\ NowInv)'
  <2> SUFFICES ASSUME PackageInv, NowInv, [Next]_vars PROVE PackageInv' /\ NowInv'
    OBVIOUS
  <2>1. CASE ProfileNext
    BY <2>1, PackageStep, NowStep
  <2>2. CASE UNCHANGED profileVars
    BY <2>2 DEF profileVars, PackageInv, NowInv
  <2> QED BY <2>1, <2>2 DEF Next, DetectStep, LookAt, vars, profileVars
<1> QED BY <1>1, <1>2, PTL DEF Spec

(* Whatever the workspace holds, a hint that is reported has evidence and a *)
(* confidence above 0 and of at most 100, and what is merged is a package.  *)
THEOREM ProfileIsTyped == Spec => []ProfileTypeOK
<1>1. PackageInv /\ NowInv => ProfileTypeOK
  BY NowIsTyped
<1> QED BY <1>1, NowIsInvariant, PTL

\* The evidence of NestJS and of the transports is of dependencies only.
LEMMA FrameworkEvidence ==
  ASSUME NEW t, NEW p, NEW e \in DetectFrameworks(t, p)
  PROVE  /\ e.id = "nestjs" => e.kind \in {"dependency", "dev-dependency"}
         /\ e.id = "express" => e.kind \in {"dependency", "dev-dependency"} /\ e \in DepEvidence(p, "express", {"express"})
         /\ e.id = "fastify" => e.kind \in {"dependency", "dev-dependency"} /\ e \in DepEvidence(p, "fastify", {"fastify"})
<1>1. ASSUME NEW hint, NEW names, NEW x \in DepEvidence(p, hint, names)
      PROVE  x.id = hint /\ x.kind \in {"dependency", "dev-dependency"}
  BY DEF DepEvidence
<1>2. ASSUME NEW kind, NEW names, NEW x \in FirstFile(t, "next-backend", kind, names)
      PROVE  x.id = "next-backend"
  BY DEF FirstFile, FileEvidence
<1> QED BY <1>1, <1>2 DEF DetectFrameworks

LEMMA OneDependency ==
  ASSUME NEW p, NEW hint, NEW name, NEW of \in SUBSET DepEvidence(p, hint, {name})
  PROVE  IsFiniteSet(of) /\ Cardinality(of) <= 1
<1>1. PICK x : DepEvidence(p, hint, {name}) \subseteq {x}
  BY DEF DepEvidence
<1>2. of \subseteq {x} /\ IsFiniteSet({x}) /\ Cardinality({x}) = 1
  BY <1>1, FS_Singleton
<1> QED BY <1>2, FS_Subset

(* With two of its packages NestJS has at least 60; a transport has one     *)
(* package, and 30: NestJS is listed first.                                 *)
THEOREM NestComesFirst == Spec => []NestOutranksTransport
<1>1. PackageInv /\ NowInv => NestOutranksTransport
  <2> SUFFICES ASSUME PackageInv, NowInv, profile # NoProfile, package # NoPackage,
                      NEW i \in DOMAIN profile.hints["frameworks"], NEW j \in DOMAIN profile.hints["frameworks"],
                      profile.hints["frameworks"][i].id = "nestjs",
                      Cardinality(profile.hints["frameworks"][i].evidence) >= 2,
                      profile.hints["frameworks"][j].id \in {"express", "fastify"}
               PROVE  i < j
    BY DEF NestOutranksTransport
  <2>1. PICK scripts \in ScriptChoices(package) : profile = ProfileOf(tree, package, scripts)
    BY DEF NowInv
  <2> DEFINE ev == Evidence(tree, package, "frameworks", scripts)
  <2>2. profile.hints["frameworks"] = Finalize(ev) /\ ev = DetectFrameworks(tree, package)
    BY <2>1 DEF ProfileOf, Families, Evidence
  <2>3. IsEvidence(ev)
    BY EvidenceIsEvidence DEF PackageInv, Families
  <2>4. PICK a : a = profile.hints["frameworks"][i]
    OBVIOUS
  <2>5. PICK b : b = profile.hints["frameworks"][j]
    OBVIOUS
  <2> HIDE DEF ev
  <2>6. a \in Hints(ev) /\ b \in Hints(ev)
    BY <2>2, <2>3, <2>4, <2>5, FinalizedIsSorted
  <2>7. /\ a.evidence = {e \in ev : e.id = "nestjs"} /\ a.confidence = Confidence(a.evidence)
        /\ b.evidence = {e \in ev : e.id = b.id} /\ b.evidence # {} /\ b.confidence = Confidence(b.evidence)
    BY <2>3, <2>4, <2>5, <2>6, HintsAre
  <2>8. IsEvidence(a.evidence) /\ IsEvidence(b.evidence)
    BY <2>3, <2>7, FS_Subset DEF IsEvidence
  <2>9. a.confidence >= 60
    <3>1. \A e \in a.evidence : e.kind \in {"dependency", "dev-dependency"}
      BY <2>2, <2>7, FrameworkEvidence
    <3>2. Cardinality(a.evidence) \in Nat /\ Cardinality(a.evidence) >= 2
      BY <2>4, <2>8, FS_CardinalityType DEF IsEvidence
    <3> QED BY <2>7, <2>8, <3>1, <3>2, ConfidenceIs
  <2>10. b.confidence <= 30
    <3>1. \A e \in b.evidence : e.kind \in {"dependency", "dev-dependency"}
      BY <2>2, <2>5, <2>7, FrameworkEvidence
    <3>2. \/ b.evidence \in SUBSET DepEvidence(package, "express", {"express"})
          \/ b.evidence \in SUBSET DepEvidence(package, "fastify", {"fastify"})
      BY <2>2, <2>5, <2>7, FrameworkEvidence
    <3>3. Cardinality(b.evidence) <= 1 /\ Cardinality(b.evidence) \in Nat
      BY <2>8, <3>2, OneDependency, FS_CardinalityType DEF IsEvidence
    <3> QED BY <2>7, <2>8, <3>1, <3>3, ConfidenceIs
  <2>11. a.confidence \in Int /\ b.confidence \in Int
    BY <2>3, <2>6, HintsAre
  <2>12. Before(a, b)
    BY <2>9, <2>10, <2>11 DEF Before
  <2> QED BY <2>2, <2>3, <2>4, <2>5, <2>12, FinalizedIsSorted
<1> QED BY <1>1, NowIsInvariant, PTL

-----------------------------------------------------------------------------
(* Two scans of one tree.                                                   *)

\* What the scan of a tree ends with, whatever the order it merged in.
MergedFrom(t, p) == (p = NoPackage \/ IsPackage(p)) /\ IsMerged(t, p, {}, <<>>)
SameNames(p, q) ==
  /\ p # NoPackage /\ q # NoPackage /\ p.typeModule = q.typeModule
  /\ p.manager = q.manager /\ p.enginesNode = q.enginesNode
  /\ DOMAIN p.dependencies = DOMAIN q.dependencies /\ DOMAIN p.devDependencies = DOMAIN q.devDependencies
Alike(p, q) == SameNames(p, q) \/ (p = NoPackage /\ q = NoPackage)

LEMMA MergesAreAlike ==
  ASSUME NEW t, NEW p, NEW q, MergedFrom(t, p), MergedFrom(t, q)
  PROVE  /\ Alike(p, q)
         /\ ~Disputed(t) /\ p # NoPackage => BunScripts(p) = BunScripts(q)
<1>1. LeftOf(t, {}, <<>>) = {}
  BY DEF LeftOf
<1>2. CASE p = NoPackage
  BY <1>2 DEF MergedFrom, IsMerged, Alike
<1>3. CASE p # NoPackage
  <2>1. q # NoPackage /\ ReadPackageJson(t, Root) # NoPackage
    BY <1>3 DEF MergedFrom, IsMerged
  <2>2. SameNames(p, q) /\ DOMAIN p.scripts = DOMAIN q.scripts
    BY <1>1, <1>3, <2>1 DEF MergedFrom, IsMerged, SameNames
  <2>3. \A s \in DOMAIN p.scripts : Gives(t, s, p.scripts[s]) /\ Gives(t, s, q.scripts[s])
    BY <1>3, <2>1, <2>2 DEF MergedFrom, IsMerged
  <2>4. ASSUME ~Disputed(t), NEW s \in DOMAIN p.scripts PROVE p.scripts[s] = q.scripts[s]
    <3>1. CASE s \in ScriptsOf(t, Root)
      BY <2>3, <3>1 DEF Gives
    <3>2. CASE s \notin ScriptsOf(t, Root)
      <4>1. PICK d \in Workspaces(t) : s \in ScriptsOf(t, d) /\ p.scripts[s] = ReadPackageJson(t, d).scripts[s]
        BY <2>3, <3>2 DEF Gives
      <4>2. PICK e \in Workspaces(t) : s \in ScriptsOf(t, e) /\ q.scripts[s] = ReadPackageJson(t, e).scripts[s]
        BY <2>3, <3>2 DEF Gives
      <4>3. s \in (DOMAIN ReadPackageJson(t, d).scripts \cap DOMAIN ReadPackageJson(t, e).scripts) \ DOMAIN ReadPackageJson(t, Root).scripts
        BY <2>1, <3>2, <4>1, <4>2 DEF ScriptsOf
      <4> QED BY <2>4, <4>1, <4>2, <4>3 DEF Disputed
    <3> QED BY <3>1, <3>2
  <2>5. ~Disputed(t) => BunScripts(p) = BunScripts(q)
    BY <2>2, <2>4 DEF BunScripts
  <2> QED BY <2>2, <2>5 DEF Alike
<1> QED BY <1>2, <1>3

\* The evidence of a script that runs bun.
OfScript(name) == [id |-> "bun", kind |-> "package-script", detail |-> name]

LEMMA SameEvidence ==
  ASSUME NEW t, NEW p, NEW q, Alike(p, q)
  PROVE  /\ DetectLanguage(t, p) = DetectLanguage(t, q)
         /\ \A f \in Families \ {"runtimes"} : \A mine, others : Evidence(t, p, f, mine) = Evidence(t, q, f, others)
         /\ Evidence(t, p, "runtimes", {}) = Evidence(t, q, "runtimes", {})
<1>1. CASE p = NoPackage /\ q = NoPackage
  BY <1>1 DEF Evidence, DetectLanguage, Families
<1>2. CASE SameNames(p, q)
  <2>1. \A hint, names : DepEvidence(p, hint, names) = DepEvidence(q, hint, names)
    BY <1>2 DEF SameNames, DepEvidence
  <2>2. DetectLanguage(t, p) = DetectLanguage(t, q)
    BY <1>2, <2>1 DEF SameNames, DetectLanguage
  <2>3. /\ DetectFrameworks(t, p) = DetectFrameworks(t, q) /\ DetectDataLayers(p) = DetectDataLayers(q)
        /\ DetectValidators(p) = DetectValidators(q) /\ DetectAuth(p) = DetectAuth(q) /\ DetectLlm(p) = DetectLlm(q)
    BY <2>1 DEF DetectFrameworks, DetectDataLayers, DetectValidators, DetectAuth, DetectLlm
  <2>4. p # NoPackage /\ q # NoPackage /\ p.manager = q.manager /\ p.enginesNode = q.enginesNode
    BY <1>2 DEF SameNames
  <2>5. /\ BunEvidence(t, p, {}) = BunEvidence(t, q, {}) /\ NodeEvidence(t, p) = NodeEvidence(t, q)
        /\ WorkersEvidence(t, p) = WorkersEvidence(t, q)
    BY <2>1, <2>4 DEF BunEvidence, NodeEvidence, WorkersEvidence
  <2>6. Evidence(t, p, "runtimes", {}) = Evidence(t, q, "runtimes", {})
    BY <2>5 DEF Evidence, DetectRuntimes
  <2>7. \A f \in Families \ {"runtimes"} : \A mine, others : Evidence(t, p, f, mine) = Evidence(t, q, f, others)
    BY <2>3, <2>4 DEF Evidence, Families
  <2> QED BY <2>2, <2>6, <2>7
<1> QED BY <1>1, <1>2 DEF Alike

\* Scripts add themselves to the evidence, and there are no others in it.
LEMMA ScriptsAdd ==
  ASSUME NEW t, NEW p, NEW scripts
  PROVE  /\ Evidence(t, p, "runtimes", scripts) = Evidence(t, p, "runtimes", {}) \cup {OfScript(s) : s \in scripts}
         /\ \A e \in Evidence(t, p, "runtimes", {}) : ~IsScript(e)
<1>1. BunEvidence(t, p, scripts) = BunEvidence(t, p, {}) \cup {OfScript(s) : s \in scripts}
  BY DEF BunEvidence, OfScript
<1>2. \A hint, names : \A e \in FileEvidence(t, hint, "config-file", names) \cup FileEvidence(t, hint, "lockfile", names) : ~IsScript(e)
  BY DEF FileEvidence, IsScript
<1>3. \A e \in BunEvidence(t, p, {}) : ~IsScript(e)
  BY <1>2 DEF BunEvidence, IsScript
<1>4. \A e \in NodeEvidence(t, p) : ~IsScript(e)
  BY <1>2 DEF NodeEvidence, IsScript
<1>5. \A e \in WorkersEvidence(t, p) : ~IsScript(e)
  BY <1>2 DEF WorkersEvidence, DepEvidence, IsScript
<1>6. \A e \in DenoEvidence(t) : ~IsScript(e)
  BY <1>2 DEF DenoEvidence, FirstFile
<1> QED BY <1>1, <1>3, <1>4, <1>5, <1>6 DEF Evidence, DetectRuntimes

Of(evidence, hint) == {e \in evidence : e.id = hint}
Ids(evidence) == {e.id : e \in evidence}

\* The list holds every hint, at the place of its rank.
LEMMA FinalizedIsWhole ==
  ASSUME NEW evidence, IsEvidence(evidence)
  PROVE  /\ IsFiniteSet(Hints(evidence)) /\ Cardinality(Hints(evidence)) \in Nat
         /\ DOMAIN Finalize(evidence) = 1..Cardinality(Hints(evidence))
         /\ \A i \in DOMAIN Finalize(evidence) :
              /\ Finalize(evidence)[i] \in Hints(evidence)
              /\ Cardinality(Ahead(Hints(evidence), Finalize(evidence)[i])) = i - 1
         /\ \A x, y \in Hints(evidence) :
              Cardinality(Ahead(Hints(evidence), x)) = Cardinality(Ahead(Hints(evidence), y)) => x = y
         /\ \A d \in Hints(evidence) : \E i \in DOMAIN Finalize(evidence) : Finalize(evidence)[i] = d
<1> DEFINE S == Hints(evidence)
           n == Cardinality(S)
           place(i) == CHOOSE d \in S : Cardinality(Ahead(S, d)) = i - 1
<1>1. Finalize(evidence) = [i \in 1..n |-> place(i)]
  BY DEF Finalize, Hints, Ahead
<1>2. IsFiniteSet(S) /\ IsOrdered(S)
  BY HintsAre, HintsAreTotal
<1> HIDE DEF S
<1>3. /\ n \in Nat /\ \A k \in 0..(n - 1) : \E d \in S : Cardinality(Ahead(S, d)) = k
      /\ \A x, y \in S : Before(x, y) => Cardinality(Ahead(S, x)) < Cardinality(Ahead(S, y))
      /\ \A d \in S : Cardinality(Ahead(S, d)) \in 0..(n - 1)
  BY <1>2, EveryRankIsTaken
<1> HIDE DEF n
<1>4. ASSUME NEW x \in S, NEW y \in S, Cardinality(Ahead(S, x)) = Cardinality(Ahead(S, y)) PROVE x = y
  <2>1. Cardinality(Ahead(S, x)) \in Int /\ Cardinality(Ahead(S, y)) \in Int
    BY <1>3
  <2>2. ~Before(x, y) /\ ~Before(y, x)
    BY <1>3, <1>4, <2>1
  <2> QED BY <1>2, <2>2 DEF IsOrdered
<1>5. ASSUME NEW i \in 1..n PROVE place(i) \in S /\ Cardinality(Ahead(S, place(i))) = i - 1
  <2>1. i - 1 \in 0..(n - 1)
    BY <1>3
  <2>2. \E d \in S : Cardinality(Ahead(S, d)) = i - 1
    BY <1>3, <2>1
  <2> QED BY <2>2
<1> HIDE DEF place
<1>6. ASSUME NEW d \in S PROVE \E i \in 1..n : place(i) = d
  <2> DEFINE i == Cardinality(Ahead(S, d)) + 1
  <2>1. i \in 1..n /\ i - 1 = Cardinality(Ahead(S, d))
    BY <1>3
  <2>2. place(i) = d
    BY <1>4, <1>5, <2>1
  <2> QED BY <2>1, <2>2
<1> QED BY <1>1, <1>2, <1>3, <1>4, <1>5, <1>6 DEF S, n

LEMMA OneToOne ==
  ASSUME NEW S, IsFiniteSet(S), NEW T, NEW f \in [S -> T],
         \A x, y \in S : f[x] = f[y] => x = y, \A z \in T : \E x \in S : f[x] = z
  PROVE  Cardinality(S) = Cardinality(T)
<1>1. f \in Bijection(S, T)
  BY DEF Bijection, Injection, Surjection, IsInjective
<1>2. ExistsBijection(S, T)
  BY <1>1 DEF ExistsBijection
<1> QED BY <1>2, FS_Bijection

\* Evidence of the same hints, with the same confidence in each, is listed in the same order.
LEMMA SameRanks ==
  ASSUME NEW E, IsEvidence(E), NEW G, IsEvidence(G), Ids(E) = Ids(G),
         \A h \in HintIds : Confidence(Of(E, h)) = Confidence(Of(G, h))
  PROVE  /\ DOMAIN Finalize(E) = DOMAIN Finalize(G)
         /\ \A i \in DOMAIN Finalize(E) :
              \E h \in HintIds : Finalize(E)[i] = Detected(E, h) /\ Finalize(G)[i] = Detected(G, h)
<1> DEFINE S == Hints(E)
           T == Hints(G)
           g == [d \in S |-> Detected(G, d.id)]
<1>1. ASSUME NEW h
      PROVE  /\ Detected(E, h) = [id |-> h, confidence |-> Confidence(Of(E, h)), evidence |-> Of(E, h)]
             /\ Detected(G, h) = [id |-> h, confidence |-> Confidence(Of(G, h)), evidence |-> Of(G, h)]
  BY DEF Detected, Of
<1>2. ASSUME NEW d \in S PROVE d.id \in HintIds /\ d.id \in Ids(E) /\ d = Detected(E, d.id)
  <2>1. PICK e \in E : d = Detected(E, e.id)
    BY DEF Hints
  <2> QED BY <1>1, <2>1 DEF IsEvidence, Ids
<1>3. ASSUME NEW d \in T PROVE d.id \in Ids(G) /\ d = Detected(G, d.id)
  <2>1. PICK e \in G : d = Detected(G, e.id)
    BY DEF Hints
  <2>2. d.id = e.id /\ e.id \in Ids(G)
    BY <1>1, <2>1 DEF Ids
  <2> QED BY <2>1, <2>2
<1>4. \A h \in Ids(E) : Detected(E, h) \in S
  BY DEF Hints, Ids
<1>5. \A h \in Ids(G) : Detected(G, h) \in T
  BY DEF Hints, Ids
<1>6. ASSUME NEW d \in S
      PROVE  g[d] \in T /\ g[d] = Detected(G, d.id) /\ g[d].id = d.id /\ g[d].confidence = d.confidence
  <2>1. g[d] = Detected(G, d.id)
    OBVIOUS
  <2>2. d.confidence = Confidence(Of(E, d.id))
    BY <1>1, <1>2
  <2> QED BY <1>1, <1>2, <1>5, <2>1, <2>2
<1>7. ASSUME NEW z \in T PROVE Detected(E, z.id) \in S /\ g[Detected(E, z.id)] = z
  <2>1. z.id \in Ids(E) /\ z = Detected(G, z.id)
    BY <1>3
  <2>2. Detected(E, z.id) \in S /\ Detected(E, z.id).id = z.id
    BY <1>1, <1>4, <2>1
  <2>3. g[Detected(E, z.id)] = Detected(G, z.id)
    BY <1>6, <2>2
  <2> QED BY <2>1, <2>2, <2>3
<1>8. g \in [S -> T] /\ \A x, y \in S : g[x] = g[y] => x = y
  BY <1>2, <1>6
<1>9. \A x, y \in S : Before(x, y) <=> Before(g[x], g[y])
  BY <1>6 DEF Before
<1>10. IsFiniteSet(S)
  BY HintsAre
<1> HIDE DEF S, T, g
<1>11. Cardinality(S) = Cardinality(T)
  BY <1>7, <1>8, <1>10, OneToOne
<1>12. ASSUME NEW d \in S PROVE Cardinality(Ahead(S, d)) = Cardinality(Ahead(T, g[d]))
  <2> DEFINE A == Ahead(S, d)
             B == Ahead(T, g[d])
             f == [x \in A |-> g[x]]
  <2>1. A \subseteq S /\ IsFiniteSet(A)
    BY <1>10, FS_Subset DEF Ahead
  <2>2. \A x \in A : g[x] \in B
    BY <1>6, <1>9, <2>1 DEF Ahead
  <2>3. \A z \in B : Detected(E, z.id) \in A /\ g[Detected(E, z.id)] = z
    BY <1>7, <1>9 DEF Ahead
  <2>4. \A x \in A : f[x] = g[x]
    OBVIOUS
  <2>5. f \in [A -> B]
    BY <2>2
  <2> HIDE DEF A, B, f
  <2>6. \A x, y \in A : f[x] = f[y] => x = y
    BY <1>8, <2>1, <2>4
  <2>7. \A z \in B : \E x \in A : f[x] = z
    BY <2>3, <2>4
  <2>8. Cardinality(A) = Cardinality(B)
    BY <2>1, <2>5, <2>6, <2>7, OneToOne
  <2> QED BY <2>8 DEF A, B
<1>13. DOMAIN Finalize(E) = DOMAIN Finalize(G)
  BY <1>11, FinalizedIsWhole DEF S, T
<1>14. ASSUME NEW i \in DOMAIN Finalize(E)
       PROVE  \E h \in HintIds : Finalize(E)[i] = Detected(E, h) /\ Finalize(G)[i] = Detected(G, h)
  <2>1. PICK x : x = Finalize(E)[i]
    OBVIOUS
  <2>2. PICK y : y = Finalize(G)[i]
    OBVIOUS
  <2>3. x \in S /\ Cardinality(Ahead(S, x)) = i - 1
    BY <2>1, FinalizedIsWhole DEF S
  <2>4. y \in T /\ Cardinality(Ahead(T, y)) = i - 1
    BY <1>13, <2>2, FinalizedIsWhole DEF T
  <2>5. g[x] \in T /\ Cardinality(Ahead(T, g[x])) = Cardinality(Ahead(T, y))
    BY <1>6, <1>12, <2>3, <2>4
  <2>6. g[x] = y
    BY <2>4, <2>5, FinalizedIsWhole DEF T
  <2>7. x = Detected(E, x.id) /\ y = Detected(G, x.id) /\ x.id \in HintIds
    BY <1>2, <1>6, <2>3, <2>6
  <2> QED BY <2>1, <2>2, <2>7
<1> QED BY <1>13, <1>14

\* One script more, whichever it is: the same list but for its name.
LEMMA ScriptsWeighTheSame ==
  ASSUME NEW X, \A e \in X : ~IsScript(e), NEW s, NEW r, NEW h,
         IsEvidence(X \cup {OfScript(s)}), IsEvidence(X \cup {OfScript(r)})
  PROVE  /\ Confidence(Of(X \cup {OfScript(s)}, h)) = Confidence(Of(X \cup {OfScript(r)}, h))
         /\ Nameless(Of(X \cup {OfScript(s)}, h)) = Nameless(Of(X \cup {OfScript(r)}, h))
<1> DEFINE E == Of(X \cup {OfScript(s)}, h)
           G == Of(X \cup {OfScript(r)}, h)
<1>1. \A n : OfScript(n).id = "bun" /\ OfScript(n).kind = "package-script"
  BY DEF OfScript
<1>2. CASE h # "bun"
  <2>1. E = Of(X, h) /\ G = Of(X, h)
    BY <1>1, <1>2 DEF Of
  <2> QED BY <2>1
<1>3. CASE h = "bun"
  <2>1. E = Of(X, h) \cup {OfScript(s)} /\ G = Of(X, h) \cup {OfScript(r)}
    BY <1>1, <1>3 DEF Of
  <2>2. \A e \in Of(X, h) : e.kind # "package-script"
    BY DEF Of, IsScript
  <2> HIDE DEF E, G
  <2>3. ASSUME NEW kinds, "package-script" \notin kinds PROVE Count(E, kinds) = Count(G, kinds)
    <3>1. {e \in E : e.kind \in kinds} = {e \in G : e.kind \in kinds}
      BY <1>1, <2>1, <2>3
    <3> QED BY <3>1 DEF Count
  <2>4. Count(E, {"package-script"}) = 1 /\ Count(G, {"package-script"}) = 1
    <3>1. {e \in E : e.kind \in {"package-script"}} = {OfScript(s)} /\ {e \in G : e.kind \in {"package-script"}} = {OfScript(r)}
      BY <1>1, <2>1, <2>2
    <3>2. Cardinality({OfScript(s)}) = 1 /\ Cardinality({OfScript(r)}) = 1
      BY FS_Singleton
    <3> QED BY <3>1, <3>2 DEF Count
  <2>5. Weight(E) = Weight(G)
    BY <2>3, <2>4 DEF Weight
  <2>6. ASSUME NEW n
        PROVE  Nameless(Of(X, h) \cup {OfScript(n)}) = Nameless(Of(X, h)) \cup {OfScript("a script")}
    <3>0. /\ OfScript(n).id = "bun" /\ OfScript(n).kind = "package-script" /\ IsScript(OfScript(n))
          /\ OfScript("a script") = [id |-> "bun", kind |-> "package-script", detail |-> "a script"]
      BY DEF OfScript, IsScript
    <3>1. Nameless({OfScript(n)}) = {OfScript("a script")}
      BY <3>0, Zenon DEF Nameless
    <3>2. \A A, B : Nameless(A \cup B) = Nameless(A) \cup Nameless(B)
      BY DEF Nameless
    <3> QED BY <3>1, <3>2
  <2> QED BY <2>1, <2>5, <2>6 DEF Confidence, E, G
<1> QED BY <1>2, <1>3

LEMMA NamelessList ==
  ASSUME NEW E, IsEvidence(E), NEW G, IsEvidence(G), Ids(E) = Ids(G),
         \A h \in HintIds : Confidence(Of(E, h)) = Confidence(Of(G, h)) /\ Nameless(Of(E, h)) = Nameless(Of(G, h))
  PROVE  Unnamed(Finalize(E)) = Unnamed(Finalize(G))
<1>1. DOMAIN Finalize(E) = DOMAIN Finalize(G)
  BY SameRanks
<1>2. ASSUME NEW i \in DOMAIN Finalize(E)
      PROVE  /\ Finalize(E)[i].id = Finalize(G)[i].id /\ Finalize(E)[i].confidence = Finalize(G)[i].confidence
             /\ Nameless(Finalize(E)[i].evidence) = Nameless(Finalize(G)[i].evidence)
  <2>1. PICK h \in HintIds : Finalize(E)[i] = Detected(E, h) /\ Finalize(G)[i] = Detected(G, h)
    BY SameRanks
  <2>2. ASSUME NEW ev
        PROVE  Detected(ev, h).id = h /\ Detected(ev, h).confidence = Confidence(Of(ev, h)) /\ Detected(ev, h).evidence = Of(ev, h)
    BY DEF Detected, Of
  <2>3. Confidence(Of(E, h)) = Confidence(Of(G, h)) /\ Nameless(Of(E, h)) = Nameless(Of(G, h))
    OBVIOUS
  <2>4. /\ Detected(E, h).id = Detected(G, h).id /\ Detected(E, h).confidence = Detected(G, h).confidence
        /\ Nameless(Detected(E, h).evidence) = Nameless(Detected(G, h).evidence)
    BY <2>2, <2>3
  <2> QED BY <2>1, <2>4
<1> QED BY <1>1, <1>2 DEF Unnamed

\* What is listed that is no script is the evidence that is none.
LEMMA ListedEvidence ==
  ASSUME NEW E, IsEvidence(E)
  PROVE  NotScripts(Finalize(E)) = {e \in E : ~IsScript(e)}
<1>1. ASSUME NEW i \in DOMAIN Finalize(E) PROVE Finalize(E)[i].evidence \subseteq E
  <2>1. PICK d : d = Finalize(E)[i]
    OBVIOUS
  <2> QED BY <2>1, FinalizedIsWhole, HintsAre
<1>2. ASSUME NEW e \in E PROVE \E i \in DOMAIN Finalize(E) : e \in Finalize(E)[i].evidence
  <2>1. Detected(E, e.id) \in Hints(E) /\ e \in Detected(E, e.id).evidence
    BY DEF Hints, Detected
  <2> QED BY <2>1, FinalizedIsWhole
<1> QED BY <1>1, <1>2 DEF NotScripts

LEMMA SameRuntimes ==
  ASSUME NEW t \in Trees, NEW p, NEW q, MergedFrom(t, p), MergedFrom(t, q),
         NEW mine \in ScriptChoices(p), NEW others \in ScriptChoices(q)
  PROVE  LET E == Finalize(Evidence(t, p, "runtimes", mine))
             G == Finalize(Evidence(t, q, "runtimes", others))
         IN  /\ NotScripts(E) = NotScripts(G)
             /\ ~Disputed(t) => Unnamed(E) = Unnamed(G)
<1> DEFINE X == Evidence(t, p, "runtimes", {})
           E == Evidence(t, p, "runtimes", mine)
           G == Evidence(t, q, "runtimes", others)
<1>1. Alike(p, q) /\ (~Disputed(t) /\ p # NoPackage => BunScripts(p) = BunScripts(q))
  BY MergesAreAlike
<1>2. /\ E = X \cup {OfScript(s) : s \in mine} /\ G = X \cup {OfScript(s) : s \in others}
      /\ \A e \in X : ~IsScript(e)
  <2>1. E = X \cup {OfScript(s) : s \in mine} /\ \A e \in X : ~IsScript(e)
    BY ScriptsAdd
  <2>2. G = Evidence(t, q, "runtimes", {}) \cup {OfScript(s) : s \in others}
    BY ScriptsAdd
  <2>3. Evidence(t, q, "runtimes", {}) = X
    BY <1>1, SameEvidence
  <2> QED BY <2>1, <2>2, <2>3
<1>3. IsEvidence(E) /\ IsEvidence(G)
  BY EvidenceIsEvidence DEF MergedFrom, Families
<1> HIDE DEF X, E, G
<1>4. NotScripts(Finalize(E)) = NotScripts(Finalize(G))
  <2>1. \A s : IsScript(OfScript(s))
    BY DEF IsScript, OfScript
  <2>2. {e \in E : ~IsScript(e)} = X /\ {e \in G : ~IsScript(e)} = X
    BY <1>2, <2>1
  <2> QED BY <1>3, <2>2, ListedEvidence
<1>5. ASSUME ~Disputed(t) PROVE Unnamed(Finalize(E)) = Unnamed(Finalize(G))
  <2>1. ScriptChoices(p) = ScriptChoices(q)
    BY <1>1, <1>5 DEF Alike, SameNames, ScriptChoices
  <2>2. CASE mine = {}
    <3>1. others = {}
      BY <2>1, <2>2 DEF ScriptChoices
    <3> QED BY <1>2, <2>2, <3>1
  <2>3. CASE mine # {}
    <3>1. PICK s, r : mine = {s} /\ others = {r}
      BY <2>1, <2>3 DEF ScriptChoices
    <3>2. E = X \cup {OfScript(s)} /\ G = X \cup {OfScript(r)}
      BY <1>2, <3>1
    <3>3. \A h \in HintIds : Confidence(Of(E, h)) = Confidence(Of(G, h)) /\ Nameless(Of(E, h)) = Nameless(Of(G, h))
      BY <1>2, <1>3, <3>2, ScriptsWeighTheSame
    <3>4. ASSUME NEW n PROVE Ids(X \cup {OfScript(n)}) = Ids(X) \cup {"bun"}
      <4>1. OfScript(n).id = "bun"
        BY DEF OfScript
      <4> QED BY <4>1 DEF Ids
    <3>5. Ids(E) = Ids(G)
      BY <3>2, <3>4
    <3> QED BY <1>3, <3>3, <3>5, NamelessList
  <2> QED BY <2>2, <2>3
<1> QED BY <1>4, <1>5 DEF E, G

\* A profile is that of a package merged from the tree in some order.
OfTree(t, x) == \E p : MergedFrom(t, p) /\ \E scripts \in ScriptChoices(p) : x = ProfileOf(t, p, scripts)
StackInv == \A x \in {profile, earlier} : x = NoProfile \/ OfTree(tree, x)

LEMMA ProfilesOfOneTree ==
  ASSUME NEW t \in Trees, NEW x, NEW y, OfTree(t, x), OfTree(t, y)
  PROVE  /\ x.language = y.language
         /\ \A f \in Families \ {"runtimes"} : x.hints[f] = y.hints[f]
         /\ NotScripts(x.hints["runtimes"]) = NotScripts(y.hints["runtimes"])
         /\ ~Disputed(t) => Unnamed(x.hints["runtimes"]) = Unnamed(y.hints["runtimes"])
<1>1. PICK p : MergedFrom(t, p) /\ \E scripts \in ScriptChoices(p) : x = ProfileOf(t, p, scripts)
  BY DEF OfTree
<1>2. PICK q : MergedFrom(t, q) /\ \E scripts \in ScriptChoices(q) : y = ProfileOf(t, q, scripts)
  BY DEF OfTree
<1>3. PICK mine \in ScriptChoices(p) : x = ProfileOf(t, p, mine)
  BY <1>1
<1>4. PICK others \in ScriptChoices(q) : y = ProfileOf(t, q, others)
  BY <1>2
<1>5. Alike(p, q)
  BY <1>1, <1>2, MergesAreAlike
<1>6. /\ x.language = DetectLanguage(t, p) /\ \A f \in Families : x.hints[f] = Finalize(Evidence(t, p, f, mine))
      /\ y.language = DetectLanguage(t, q) /\ \A f \in Families : y.hints[f] = Finalize(Evidence(t, q, f, others))
  BY <1>3, <1>4 DEF ProfileOf
<1>7. x.language = y.language /\ \A f \in Families \ {"runtimes"} : x.hints[f] = y.hints[f]
  BY <1>5, <1>6, SameEvidence
<1>8. "runtimes" \in Families
  BY DEF Families
<1>9. /\ x.hints["runtimes"] = Finalize(Evidence(t, p, "runtimes", mine))
      /\ y.hints["runtimes"] = Finalize(Evidence(t, q, "runtimes", others))
  BY <1>6, <1>8
<1> QED BY <1>1, <1>2, <1>7, <1>9, SameRuntimes

LEMMA StackStep ==
  ASSUME PackageInv, MergeInv, StackInv, ProfileNext
  PROVE  StackInv'
<1>0. tree' = tree
  BY DEF ProfileNext, OpenPattern, MergeWorkspace, Detect, ScanAgain
<1>1. CASE Detect
  <2>1. MergedFrom(tree, package)
    BY <1>1 DEF Detect, PackageInv, MergeInv, MergedFrom
  <2>2. OfTree(tree, profile') /\ earlier' = earlier
    BY <1>1, <2>1 DEF Detect, OfTree
  <2> QED BY <1>0, <2>2 DEF StackInv
<1>2. CASE OpenPattern \/ MergeWorkspace
  BY <1>0, <1>2 DEF OpenPattern, MergeWorkspace, StackInv
<1>3. CASE ScanAgain
  BY <1>0, <1>3 DEF ScanAgain, StackInv
<1> QED BY <1>1, <1>2, <1>3 DEF ProfileNext

LEMMA StackIsInvariant == Spec => [](PackageInv /\ MergeInv /\ StackInv)
<1> DEFINE Inv == PackageInv /\ MergeInv /\ StackInv
<1>1. Init => Inv
  <2> SUFFICES ASSUME Init PROVE MergeInv /\ StackInv
    BY PackageInit
  <2>1. MergeInv
    BY MergeStarts DEF Init, ProfileInit, MergeInv
  <2>2. StackInv
    BY DEF Init, ProfileInit, StackInv
  <2> QED BY <2>1, <2>2
<1>2. Inv /\ [Next]_vars => Inv'
  <2> SUFFICES ASSUME Inv, [Next]_vars PROVE Inv'
    OBVIOUS
  <2>1. CASE ProfileNext
    BY <2>1, PackageStep, MergeStep, StackStep
  <2>2. CASE UNCHANGED profileVars
    BY <2>2 DEF profileVars, PackageInv, MergeInv, StackInv
  <2> QED BY <2>1, <2>2 DEF Next, DetectStep, LookAt, vars, profileVars
<1> QED BY <1>1, <1>2, PTL DEF Spec

(* Two scans of one tree detect the same stack in the same order: whatever  *)
(* order the workspaces are merged in, the names merged are those of the    *)
(* whole tree, the evidence is a function of the names, and the list of     *)
(* hints a function of the evidence.  Of the runtimes a script may differ   *)
(* in name, and in being there where workspaces dispute one; the list is    *)
(* otherwise the same, for a script weighs the same whatever its name.      *)
THEOREM DetectionIsStable == Spec => []SameTreeSameStack
<1>1. PackageInv /\ StackInv => SameTreeSameStack
  BY ProfilesOfOneTree DEF PackageInv, StackInv, SameTreeSameStack
<1> QED BY <1>1, StackIsInvariant, PTL
=============================================================================
