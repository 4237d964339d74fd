--------------------------- MODULE StackAdapters ---------------------------
(***************************************************************************)
(* The stack adapters: for each of the 22, the patterns it contributes,    *)
(* and which of them a project profile enables.  A pattern with several    *)
(* matchers is several patterns with one matcher each; its id and severity *)
(* floor, which only wording uses, are left out.                           *)
(***************************************************************************)
EXTENDS StepRecognisers

\* AstMatcher.  `on` is the receiver's path, AnyReceiver, or the module of an import.
OnParam(receiver, property) == [match |-> "param", on |-> <<receiver>>, name |-> property]
OnCall(receiver, method) == [match |-> "method", on |-> receiver, name |-> method]
OnNamespace(namespace, member) == [match |-> "namespace", on |-> <<namespace>>, name |-> member]
OnAny(method) == [match |-> "any", on |-> <<>>, name |-> method]
OnImport(module, name) == [match |-> "import", on |-> <<module>>, name |-> name]
OnDecorated(decorator) == [match |-> "decorated", on |-> <<>>, name |-> decorator]

\* AstMatcher::matches; imports is what the file's summary says, <<>> without an index.
Matches(m, e, imports) ==
  CASE m.match = "param" -> /\ e.form = "member" /\ Len(e.path) = 2 /\ Receiver(e) = m.on
                            /\ m.name \in {"*", Method(e)} /\ Method(e) \notin {"()", "[]"}
    [] m.match = "method" -> IsMethodCall(e, {m.name}) /\ Receiver(e) = m.on
    [] m.match = "namespace" -> IsMethodCall(e, {m.name}) /\ Receiver(e) = m.on
    [] m.match = "any" -> IsMethodCall(e, {m.name})
    [] m.match = "import" -> IsBareCall(e, {m.name}) /\ m.name \in DOMAIN imports /\ imports[m.name] = m.on[1]
    [] m.match = "decorated" -> FALSE

Roles(role, type, matchers) == {[role |-> role, type |-> type, matcher |-> m] : m \in matchers}
Sources(matchers) == Roles("source", "user-input", matchers)
Sinks(type, matchers) == Roles("sink", type, matchers)
SchemaParses(matchers) == Roles("sanitiser", "schema-parse", matchers)
\* The auth adapters register the same matchers as sanitisers and as guards.
AuthChecks(matchers) == Roles("sanitiser", "auth-check", matchers) \cup Roles("guard", "session-required", matchers)

-----------------------------------------------------------------------------
NodeExecSinks ==
  Sinks("exec", UNION {{OnImport("child_process", n), OnImport("node:child_process", n), OnCall(<<"child_process">>, n)} :
                         n \in ExecMethods})
NodeFsSinks ==
  Sinks("filesystem", {OnCall(r, n) : r \in {<<"fs">>, <<"fs", "promises">>},
    n \in {"readFile", "readFileSync", "writeFile", "writeFileSync", "appendFile", "appendFileSync",
           "unlink", "unlinkSync", "createReadStream", "createWriteStream"}})
NodePatterns == NodeExecSinks \cup NodeFsSinks
BunPatterns ==
  Sinks("exec", {OnNamespace("Bun", n) : n \in {"spawn", "spawnSync"}})
    \cup Sinks("filesystem", {OnNamespace("Bun", n) : n \in {"file", "write"}})
ExpressPatterns ==
  Sources({OnParam("req", n) : n \in {"body", "query", "params", "headers"}})
    \cup Sinks("response", {OnCall(<<"res">>, n) : n \in {"json", "send", "end", "write"}})
    \cup Sinks("redirect", {OnCall(<<"res">>, "redirect")})
FastifyPatterns ==
  Sources({OnParam("request", n) : n \in {"body", "query", "params", "headers", "cookies"}})
    \cup Sinks("response", {OnCall(<<"reply">>, "send")}) \cup Sinks("redirect", {OnCall(<<"reply">>, "redirect")})
HonoPatterns ==
  Sources({OnCall(<<"c", "req">>, n) :
             n \in {"json", "text", "arrayBuffer", "formData", "query", "queries", "param", "header", "valid"}})
    \cup Sinks("response", {OnCall(<<"c">>, n) : n \in {"json", "text", "html", "body"}})
    \cup Sinks("redirect", {OnCall(<<"c">>, "redirect")})
NestWithoutBody == Sources({OnDecorated(n) : n \in {"Query", "Param", "Headers", "Req"}})   \* mutant: the legacy decorator left to the fallback
NestPatterns == Sources({OnDecorated(n) : n \in {"Body", "Query", "Param", "Headers", "Req"}})
NextPatterns ==
  Sources({OnCall(<<"req">>, n) : n \in {"json", "formData", "text", "arrayBuffer"}}
            \cup {OnParam("req", n) : n \in {"body", "query", "cookies", "headers"}} \cup {OnParam("searchParams", "*")})
    \cup Sinks("response", {OnNamespace(n, "json") : n \in {"NextResponse", "Response"}})
    \cup Sinks("redirect", {OnNamespace(n, "redirect") : n \in {"NextResponse", "Response"}}
                             \cup {OnImport("next/navigation", "redirect")})
PrismaPatterns ==
  Sinks("db-write", {OnAny(n) : n \in {"create", "createMany", "update", "updateMany", "upsert", "delete", "deleteMany"}})
    \cup Sinks("raw-sql", {OnAny(n) : n \in {"$queryRawUnsafe", "$executeRawUnsafe"}})
DrizzlePatterns ==
  Sinks("db-write", {OnAny(n) : n \in {"insert", "update", "delete", "values", "set"}})
    \cup Sinks("raw-sql", {OnCall(<<"sql">>, "raw"), OnImport("drizzle-orm", "sql")})
PoolReceivers == {<<n>> : n \in {"pool", "client", "db", "connection"}}
PgPatterns == Sinks("raw-sql", {OnCall(r, "query") : r \in PoolReceivers})
Mysql2Patterns == Sinks("raw-sql", {OnCall(r, n) : r \in PoolReceivers, n \in {"query", "execute"}})
ParseMethods == {"parse", "safeParse", "parseAsync", "safeParseAsync"}
ZodPatterns == SchemaParses({OnAny(n) : n \in ParseMethods})
ValibotPatterns == SchemaParses({OnImport("valibot", n) : n \in ParseMethods})
JoiPatterns == SchemaParses({OnAny("validate")} \cup {OnNamespace("Joi", n) : n \in {"assert", "attempt"}})
YupPatterns == SchemaParses({OnAny(n) : n \in {"validate", "validateSync", "isValid", "isValidSync"}})
AjvPatterns == SchemaParses({OnAny(n) : n \in {"validate", "validateSchema"}})
ClassValidatorPatterns ==
  SchemaParses(UNION {{OnImport("class-validator", n), OnAny(n)} : n \in {"validate", "validateOrReject", "validateSync"}})
BetterAuthPatterns == AuthChecks({OnAny("getSession"), OnCall(<<"auth", "api">>, "getSession")})
AuthJsPatterns ==
  AuthChecks({OnImport("next-auth", "getServerSession"), OnImport("@auth/core", "auth"), OnAny("auth"), OnAny("getSession")})
ClerkPatterns ==
  AuthChecks({OnImport(m, n) : m \in {"@clerk/nextjs/server", "@clerk/nextjs"}, n \in {"auth", "currentUser"}})
OpenAiPatterns ==
  Sinks("llm-prompt", {OnCall(<<r>> \o api, "create") : r \in {"openai", "client"},
                         api \in {<<"chat", "completions">>, <<"responses">>, <<"completions">>}})
AnthropicPatterns ==
  Sinks("llm-prompt", {OnCall(<<r, "messages">>, n) : r \in {"anthropic", "client"}, n \in {"create", "stream"}})

-----------------------------------------------------------------------------
\* AdapterRegistry::builtin; a family is the profile's list an adapter's kind is looked up in.
Adapter(family, name, contributed) == [family |-> family, name |-> name, patterns |-> contributed]
Registry ==
  {Adapter("runtimes", "node", NodePatterns), Adapter("runtimes", "bun", BunPatterns),
   Adapter("frameworks", "express", ExpressPatterns), Adapter("frameworks", "fastify", FastifyPatterns),
   Adapter("frameworks", "hono", HonoPatterns), Adapter("frameworks", "nestjs", NestPatterns),
   Adapter("frameworks", "next-backend", NextPatterns),
   Adapter("dataLayers", "prisma", PrismaPatterns), Adapter("dataLayers", "drizzle", DrizzlePatterns),
   Adapter("dataLayers", "pg", PgPatterns), Adapter("dataLayers", "mysql2", Mysql2Patterns),
   Adapter("validators", "zod", ZodPatterns), Adapter("validators", "valibot", ValibotPatterns),
   Adapter("validators", "joi", JoiPatterns), Adapter("validators", "yup", YupPatterns),
   Adapter("validators", "ajv", AjvPatterns), Adapter("validators", "class-validator", ClassValidatorPatterns),
   Adapter("authLayers", "better-auth", BetterAuthPatterns), Adapter("authLayers", "auth-js", AuthJsPatterns),
   Adapter("authLayers", "clerk", ClerkPatterns),
   Adapter("llmSdks", "openai", OpenAiPatterns), Adapter("llmSdks", "anthropic", AnthropicPatterns)}

EnableConfidenceFloor == 60
\* is_enabled_default, which no adapter overrides.
IsEnabled(adapter, profile) ==
  \E i \in DOMAIN profile.hints[adapter.family] :
    /\ profile.hints[adapter.family][i].id = adapter.name
    /\ profile.hints[adapter.family][i].confidence >= EnableConfidenceFloor
EnabledFor(profile) == {a \in Registry : IsEnabled(a, profile)}

\* RuleContext::match_*: what the adapters of a set take an expression for.
Recognised(adapters, role, e, imports) ==
  {p.type : p \in {q \in UNION {a.patterns : a \in adapters} : q.role = role /\ Matches(q.matcher, e, imports)}}

\* secret_to_response: the inline recogniser, or a Response pattern (matched without the index).
IsResponse(adapters, e) == IsResponseSink(e) \/ "response" \in Recognised(adapters, "sink", e, <<>>)
\* The auth walk: the inline names, or an auth pattern.
IsAuthCheck(adapters, e, imports) ==
  \/ InvokesAuthHelper(e)
  \/ "auth-check" \in Recognised(adapters, "sanitiser", e, imports)
  \/ "session-required" \in Recognised(adapters, "guard", e, imports)

ActiveTaintDecorators(adapters) ==
  LET named == {p.matcher.name : p \in {q \in UNION {a.patterns : a \in adapters} : q.matcher.match = "decorated"}}
  IN  IF named = {} THEN {"Body"} ELSE named

\* A parameter: its decorators' names, and whether its type's name ends like a validated DTO's.
DecoratedParams(params, adapters) ==
  {i \in DOMAIN params :
     /\ params[i].decorators \cap ActiveTaintDecorators(adapters) # {}
     /\ ~params[i].looksValidated /\ params[i].bindsOneName}
=============================================================================
