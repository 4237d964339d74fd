----------------------------- MODULE MCProfile -----------------------------
\* Eight workspaces, among them monorepos whose packages agree and disagree, and
\* the calls and members a recogniser or an adapter has a name for.
EXTENDS StackScan

NoDeps == [n \in {} |-> "1"]
Package(deps, dev, scripts, workspaces) ==
  [dependencies |-> deps, devDependencies |-> dev, scripts |-> scripts, workspaces |-> workspaces,
   manager |-> "none", enginesNode |-> FALSE, typeModule |-> FALSE]
All(names) == [n \in names |-> "1"]
Glob(dir) == [dir |-> dir, glob |-> TRUE]
Single(dir) == [dir |-> dir, glob |-> FALSE]
Alone(files, p) == [files |-> files, packages |-> [d \in {Root} |-> p], children |-> [d \in {} |-> {}]]

\* dev runs bun in one workspace and not in the other; zod has three versions.
Monorepo ==
  [files |-> {"tsconfig.json", "Dockerfile"},
   packages |-> [d \in {Root, "api", "web", "lib"} |->
     CASE d = Root -> Package([n \in {"zod"} |-> "3"], NoDeps, [s \in {"build"} |-> "bun"], <<Glob("packages")>>)
       [] d = "api" -> Package([n \in {"hono", "zod", "next-auth", "@nestjs/core"} |-> "4"], NoDeps,
                               [s \in {"dev", "test"} |-> "bun"], <<>>)
       [] d = "web" -> Package([n \in {"hono", "zod", "@auth/core"} |-> "5"], All({"@nestjs/common", "express"}),
                               [s \in {"dev", "build"} |-> "other"], <<>>)
       [] d = "lib" -> NoPackage],
   children |-> [d \in {"packages"} |-> {"api", "web", "lib"}]]
\* Root scripts hide a workspace's; literal patterns, one of a missing directory.
Classic ==
  [files |-> {"package-lock.json"},
   packages |-> [d \in {Root, "a", "b"} |->
     CASE d = Root -> [Package(All({"express"}), NoDeps, [s \in {"dev"} |-> "other"],
                               <<Single("a"), Single("gone"), Single("b"), Glob("none")>>) EXCEPT !.manager = "bun"]
       [] d = "a" -> Package(All({"pg", "express"}), NoDeps, [s \in {"dev"} |-> "bun"], <<>>)
       [] d = "b" -> Package(All({"mysql2", "@clerk/nextjs", "typescript"}), NoDeps, [s \in {"start"} |-> "bun"], <<>>)],
   children |-> [d \in {} |-> {}]]
Nest ==
  Alone({"yarn.lock", "serverless.yml"},
        [Package(All({"@nestjs/core", "@nestjs/common", "@nestjs/platform-express", "express", "class-validator"}), NoDeps,
                 [s \in {"a", "b"} |-> "other"], <<>>) EXCEPT !.enginesNode = TRUE])
NextApp ==
  Alone({"app", "pages", "vercel.json", "jsconfig.json"},
        Package(All({"next", "next-auth", "@auth/core", "@prisma/client", "openai"}),
                All({"@clerk/nextjs", "@clerk/clerk-sdk-node", "@anthropic-ai/sdk"}), [s \in {} |-> "bun"], <<>>))
Edge == Alone({"bun.lock", "bun.lockb", "bunfig.toml", "wrangler.toml", "deno.jsonc", "deno.lock"}, NoPackage)
Worker ==
  Alone({"wrangler.jsonc"},
        [Package(All({"hono", "better-auth", "drizzle-orm"}), All({"@cloudflare/workers-types"}),
                 [s \in {"x"} |-> "bun"], <<>>) EXCEPT !.manager = "yarn", !.typeModule = TRUE])
\* No script at the root: two packages that agree on dev and run bun for another
\* each, and two that do not agree and have no other sign of bun.
Pair(files, api, web) ==
  [files |-> files,
   packages |-> [d \in {Root, "api", "web"} |->
     CASE d = Root -> Package(NoDeps, NoDeps, [s \in {} |-> "bun"], <<Glob("apps")>>)
       [] d = "api" -> Package(All({"hono"}), NoDeps, api, <<>>)
       [] d = "web" -> Package(All({"zod"}), NoDeps, web, <<>>)],
   children |-> [d \in {"apps"} |-> {"api", "web"}]]
Agreeing ==
  Pair({"bun.lock", "package-lock.json"}, [s \in {"dev", "start"} |-> "bun"],
       [s \in {"dev", "lint", "test"} |-> IF s = "lint" THEN "other" ELSE "bun"])
Disputing == Pair({"yarn.lock"}, [s \in {"dev"} |-> "bun"], [s \in {"dev", "lint"} |-> "other"])
MCTrees == {Monorepo, Classic, Nest, NextApp, Edge, Worker, Agreeing, Disputing}

Receivers ==
  {<<n>> : n \in {"req", "c", "res", "reply", "Response", "fs", "child_process", "pool", "sql", "yaml", "axios", "Bun",
                  "searchParams", "utils"}}
    \cup {<<"c", "req">>, <<"fs", "promises">>, <<"prisma", "user">>, <<"db", "insert", "()">>, <<"auth", "api">>,
          <<"anthropic", "messages">>, <<"client", "chat", "completions">>, <<"stripe", "webhooks">>}
MethodNames ==
  {"json", "text", "body", "html", "send", "readFile", "exec", "query", "raw", "create", "update", "values", "insert",
   "find", "load", "stream", "redirect", "get", "parse", "hash", "getSession", "auth", "constructEvent", "validate", "spawn"}
Bare == {"exec", "fetch", "redirect", "eval", "setTimeout", "unserialize", "parse", "redact", "Boolean", "auth", "getServerSession"}
MCExpressions ==
  {Call(Append(r, n), <<"object">>) : r \in Receivers, n \in MethodNames}
    \cup {Call(<<n>>, a) : n \in Bare, a \in {<<>>, <<"other", "schema">>, <<"function">>}}
    \cup {Member(Append(r, n)) : r \in Receivers, n \in {"body", "headers", "id"}}
    \cup {New(<<n>>, <<"other">>) : n \in {"Response", "Function"}}
MCImports == [n \in {"exec", "auth", "redirect"} |->
                CASE n = "exec" -> "node:child_process" [] n = "auth" -> "@clerk/nextjs" [] OTHER -> "./mine"]

Param(decorators, validated) == [decorators |-> decorators, looksValidated |-> validated, bindsOneName |-> TRUE]
MCMethods == {<<Param({"Body"}, FALSE), Param({"Query", "Pipe"}, FALSE), Param({"Body"}, TRUE)>>}
=============================================================================
