-------------------------- MODULE StepRecognisers --------------------------
(***************************************************************************)
(* The step recognisers: which expressions the rules take for a source, a  *)
(* sink or a sanitiser.  An expression is its form, its path and the       *)
(* shapes of its arguments.  A path is the sequence of names of an         *)
(* identifier or a member chain, with "()" where the chain calls what is   *)
(* before it and "[]" where it indexes; the path of a call is that of its  *)
(* callee.  Names that are only compared by their ending or beginning are  *)
(* one representative each.                                                *)
(***************************************************************************)
EXTENDS Naturals, Sequences, FiniteSets, SequencesExt

Call(path, args) == [form |-> "call", path |-> path, args |-> args]
New(path, args) == [form |-> "new", path |-> path, args |-> args]
Member(path) == [form |-> "member", path |-> path, args |-> <<>>]

IsIdentifier(p) == Len(p) = 1
IsStaticMember(p) == Len(p) > 1 /\ Last(p) \notin {"()", "[]"}
IsCallOf(p) == Len(p) > 1 /\ Last(p) = "()"
Method(e) == Last(e.path)
Receiver(e) == Front(e.path)
IsBareCall(e, names) == e.form = "call" /\ IsIdentifier(e.path) /\ e.path[1] \in names
IsMethodCall(e, names) == e.form = "call" /\ IsStaticMember(e.path) /\ Method(e) \in names
IsOn(e, receivers) == Receiver(e) \in {<<r>> : r \in receivers}

-----------------------------------------------------------------------------
\* Sources.
IsRequestLike(p) ==
  \/ p \in {<<n>> : n \in {"req", "request", "ctx", "c"}}
  \/ p \in {<<n, r>> : n \in {"ctx", "c"}, r \in {"req", "request"}}
IsRequestBodyMember(object, prop) == prop \in {"body", "files", "query", "params"} /\ IsRequestLike(object)
IsBodySourceCall(e) ==
  IsMethodCall(e, {"json", "text", "formData", "arrayBuffer", "blob"}) /\ IsRequestLike(Receiver(e))
IsSearchParamsMember(object) == object = <<"searchParams">>

AsSource(e, active) ==
  /\ active
  /\ \/ e.form = "member" /\ IsStaticMember(e.path)
          /\ (IsRequestBodyMember(Receiver(e), Method(e)) \/ IsSearchParamsMember(Receiver(e)))
     \/ IsBodySourceCall(e)
AsCallSource(e, active) == active /\ IsBodySourceCall(e)
BodyMemberOnly(object, prop, active) == active /\ IsRequestBodyMember(object, prop)   \* mutant: searchParams forgotten
AsMemberSource(object, prop, active) ==
  active /\ (IsRequestBodyMember(object, prop) \/ IsSearchParamsMember(object))

-----------------------------------------------------------------------------
\* Sinks.
ExecMethods == {"exec", "execSync", "execFile", "execFileSync", "spawn", "spawnSync"}
IsExecSink(e) ==
  \/ IsBareCall(e, ExecMethods)
  \/ IsMethodCall(e, ExecMethods) /\ IsOn(e, {"cp", "childProcess", "child_process"})

FsMethods ==
  {"readFile", "readFileSync", "createReadStream", "writeFile", "writeFileSync", "createWriteStream",
   "appendFile", "appendFileSync", "unlink", "unlinkSync", "rm", "rmSync", "rmdir", "rmdirSync",
   "access", "accessSync", "stat", "statSync", "lstat", "lstatSync", "realpath", "realpathSync"}
IsFsReceiver(p) == p \in {<<"fs">>, <<"fsPromises">>, <<"fs", "promises">>}
IsFsSink(e) == IsMethodCall(e, FsMethods) /\ IsFsReceiver(Receiver(e))

HttpVerbs == {"get", "post", "put", "patch", "delete", "head", "options", "request"}
IsHttpSink(e) ==
  LET clients == {"got", "needle", "request", "superagent"}
  IN  \/ IsBareCall(e, clients \cup {"fetch"})
      \/ IsMethodCall(e, HttpVerbs) /\ IsOn(e, clients \cup {"axios"})
      \/ IsMethodCall(e, {"get", "request"}) /\ IsOn(e, {"http", "https"})

IsRedirectSink(e) ==
  \/ IsBareCall(e, {"redirect"})
  \/ IsMethodCall(e, {"redirect"}) /\ (IsIdentifier(Receiver(e)) \/ IsStaticMember(Receiver(e)))

\* mutant: Hono's text forgotten
LabelWithoutText(e) ==
  \/ IsMethodCall(e, {"json", "send", "end", "write"}) /\ IsOn(e, {"res"})
  \/ IsMethodCall(e, {"send"}) /\ IsOn(e, {"reply"})
  \/ IsMethodCall(e, {"json", "html", "body"}) /\ IsOn(e, {"c", "ctx"})
  \/ IsMethodCall(e, {"json"}) /\ IsOn(e, {"Response", "NextResponse"})
IsResponseSink(e) ==
  \/ IsMethodCall(e, {"json", "send", "end", "write"}) /\ IsOn(e, {"res"})
  \/ IsMethodCall(e, {"send"}) /\ IsOn(e, {"reply"})
  \/ IsMethodCall(e, {"json", "text", "html", "body"}) /\ IsOn(e, {"c", "ctx"})
  \/ IsMethodCall(e, {"json"}) /\ IsOn(e, {"Response", "NextResponse"})
IsResponseConstructor(e) == e.form = "new" /\ e.path = <<"Response">>

\* The last name of the receiver decides.
IsConventionalDbReceiver(p) ==
  (IsIdentifier(p) \/ IsStaticMember(p))
    /\ Last(p) \in {"pool", "client", "db", "connection", "sequelize", "dataSource", "knex"}
IsSqlSink(e) ==
  \/ IsMethodCall(e, {"$queryRawUnsafe", "$executeRawUnsafe"})
  \/ IsMethodCall(e, {"raw"}) /\ IsOn(e, {"sql"})
  \/ IsMethodCall(e, {"query"}) /\ IsConventionalDbReceiver(Receiver(e))

\* "AppPrismaService" stands for the names that end in PrismaService or PrismaClient.
IsPrismaName(n) == n \in {"prisma", "db", "database", "prismaService", "prismaClient", "AppPrismaService"}
IsPrismaReceiver(p) ==
  \/ (IsIdentifier(p) \/ IsStaticMember(p)) /\ IsPrismaName(Last(p))
  \/ IsCallOf(p) /\ IsStaticMember(Front(p))
       /\ Last(Front(p)) \in {"extendedPrismaClient", "extendedClient", "$extends", "client", "prisma"}
IsPrismaWriteSink(e) ==
  /\ IsMethodCall(e, {"create", "createMany", "createManyAndReturn", "update", "updateMany", "upsert", "delete", "deleteMany"})
  /\ IsStaticMember(Receiver(e)) /\ IsPrismaReceiver(Front(Receiver(e)))
\* <chain>.insert(t).values(x), <chain>.update(t).set(x)
IsDrizzleWriteSink(e) ==
  /\ IsMethodCall(e, {"values", "set"}) /\ IsCallOf(Receiver(e)) /\ IsStaticMember(Front(Receiver(e)))
  /\ Last(Front(Receiver(e))) = IF Method(e) = "values" THEN "insert" ELSE "update"
IsOrmWriteSink(e) == IsMethodCall(e, {"save", "insert", "upsert"}) /\ e.args # <<>>
IsDbWriteSink(e) == IsPrismaWriteSink(e) \/ IsDrizzleWriteSink(e) \/ IsOrmWriteSink(e)

FirstArg(e, shape) == e.args # <<>> /\ e.args[1] = shape
IsEvalSink(e) ==
  \/ IsBareCall(e, {"eval", "Function"})
  \/ IsBareCall(e, {"setTimeout", "setInterval"}) /\ ~FirstArg(e, "function")
IsEvalNew(e) == e.form = "new" /\ e.path = <<"Function">>

MongoMethods == {"find", "findOne", "updateOne", "updateMany", "deleteOne", "deleteMany", "replaceOne",
                 "aggregate", "countDocuments", "update", "remove", "count"}
IsNoSqlSink(e) ==
  /\ IsMethodCall(e, MongoMethods) /\ FirstArg(e, "object")
  /\ IsIdentifier(Receiver(e)) \/ IsStaticMember(Receiver(e)) \/ IsCallOf(Receiver(e))

IsDeserializeSink(e) ==
  \/ IsBareCall(e, {"unserialize"}) \/ IsMethodCall(e, {"unserialize"})
  \/ IsMethodCall(e, {"load"}) /\ IsOn(e, {"yaml", "jsyaml", "YAML"})
  \/ IsMethodCall(e, {"runInNewContext", "runInThisContext", "runInContext"}) /\ IsOn(e, {"vm"})

IsLlmPromptSink(e) ==
  /\ IsMethodCall(e, {"create"}) /\ IsStaticMember(Receiver(e))
  /\ \/ Last(Receiver(e)) \in {"responses", "messages"}
     \/ Last(Receiver(e)) = "completions" /\ IsStaticMember(Front(Receiver(e))) /\ Last(Front(Receiver(e))) = "chat"

-----------------------------------------------------------------------------
\* Sanitisers.
AuthHelperNames ==
  {"getServerSession", "getSession", "auth", "validateRequest", "getAuth", "currentUser", "getUser",
   "requireSession", "requireUser", "protect", "isAuthenticated", "verifyToken", "verifySession"}
InvokesAuthHelper(e) == IsBareCall(e, AuthHelperNames) \/ IsMethodCall(e, AuthHelperNames)

\* "schema" is an object literal with a schema key.
SecondArgHasSchemaKey(e) == Len(e.args) >= 2 /\ e.args[2] = "schema"
IsSanitizerCall(e) ==
  \/ IsBareCall(e, {"parse"}) /\ SecondArgHasSchemaKey(e)
  \/ IsMethodCall(e, {"parse", "safeParse", "parseAsync", "safeParseAsync"})
  \/ IsMethodCall(e, {"constructEvent"}) /\ IsStaticMember(Receiver(e)) /\ Last(Receiver(e)) = "webhooks"

RedactNames == {"redact", "mask", "fingerprint", "hash"}
IsRedactorCall(e) == IsBareCall(e, RedactNames) \/ IsMethodCall(e, RedactNames)
IsBooleanCoercion(e) == IsBareCall(e, {"Boolean"})

\* The guard `!ALLOWED.has(url.host)`: the name of the URL it is about.
IsValidatorCallee(n) == n \in {"isAllowed", "isAllowedHost", "isValid", "validate", "verify", "check"}
GuardsUrl(test, url) ==
  /\ test.negated
  /\ IsMethodCall(test.call, {"has", "includes"})
       \/ (test.call.form = "call" /\ IsIdentifier(test.call.path) /\ IsValidatorCallee(test.call.path[1]))
  /\ test.arg \in {<<url, p>> : p \in {"host", "hostname", "origin"}}

-----------------------------------------------------------------------------
\* StepKind: what the registered steps take a call for.
AsSink(e) ==
  {k \in {"db-write", "response", "http", "redirect", "fs", "llm", "sql", "exec"} :
     CASE k = "db-write" -> IsDbWriteSink(e) [] k = "response" -> IsResponseSink(e)
       [] k = "http" -> IsHttpSink(e) [] k = "redirect" -> IsRedirectSink(e)
       [] k = "fs" -> IsFsSink(e) [] k = "llm" -> IsLlmPromptSink(e)
       [] k = "sql" -> IsSqlSink(e) [] k = "exec" -> IsExecSink(e)}
AsSanitizer(e) ==
  {k \in {"parse", "auth", "redact"} :
     CASE k = "parse" -> IsSanitizerCall(e) [] k = "auth" -> InvokesAuthHelper(e)
       [] k = "redact" -> IsRedactorCall(e) \/ IsBooleanCoercion(e)}
\* The expressions whose taint is that of their parts.
Structural == {"await", "paren", "cast", "chain", "member", "object", "array", "template", "tagged",
               "conditional", "logical", "binary"}
AsPropagator(e) == e.form \in Structural
=============================================================================
