--------------------------- MODULE ProjectProfile ---------------------------
(***************************************************************************)
(* Stack detection.  The root package.json is read, the packages its       *)
(* workspaces name are merged into it one at a time, and each family of    *)
(* hints collects its evidence from the merged package and the files at    *)
(* the root.  A package that is missing or does not parse is NoPackage.    *)
(* Versions are opaque; a script is told by whether it runs bun; weights   *)
(* are hundredths.                                                         *)
(***************************************************************************)
EXTENDS Naturals, Sequences, FiniteSets, SequencesExt, FiniteSetsExt

CONSTANTS Trees, NoProfile

VARIABLES
  tree,        \* the workspace scanned
  package,     \* the root package, with what has been merged in
  patterns,    \* the workspaces patterns left
  opened,      \* the directories of the one being expanded that are left
  profile,     \* what was detected
  earlier      \* what an earlier scan of the same tree detected

profileVars == <<tree, package, patterns, opened, profile, earlier>>

Root == "."
NoPackage == [parsed |-> FALSE]
Directories(t) == DOMAIN t.packages

IsPackage(p) ==
  /\ p.manager \in {"bun", "pnpm", "yarn", "npm", "none"} /\ {p.enginesNode, p.typeModule} \subseteq BOOLEAN
  /\ Range(p.scripts) \subseteq {"bun", "other"}
  /\ \A names \in {DOMAIN p.dependencies, DOMAIN p.devDependencies} : IsFiniteSet(names)
  /\ p.workspaces \in Seq([dir : STRING, glob : BOOLEAN])

ASSUME ProfileAssumption ==
  \A t \in Trees :
    /\ Root \in Directories(t) /\ IsFiniteSet(t.files)
    /\ \A d \in Directories(t) : t.packages[d] = NoPackage \/ IsPackage(t.packages[d])
    /\ \A d \in DOMAIN t.children : t.children[d] \subseteq Directories(t)

-----------------------------------------------------------------------------
\* push_ev, once for each of the files that is there.
FileEvidence(t, hint, kind, names) ==
  {[id |-> hint, kind |-> kind, detail |-> n] : n \in names \cap t.files}
\* push_dep_for, once for each name.
DepEvidence(p, hint, names) ==
  {[id |-> hint, kind |-> IF n \in DOMAIN p.dependencies THEN "dependency" ELSE "dev-dependency", detail |-> n] :
     n \in names \cap (DOMAIN p.dependencies \cup DOMAIN p.devDependencies)}
\* The first of the files that is there.
FirstFile(t, hint, kind, names) ==
  LET missing(i) == \A j \in 1..i : names[j] \notin t.files
  IN  UNION {FileEvidence(t, hint, kind, {names[i]}) : i \in {k \in DOMAIN names : missing(k - 1)}}

DetectLanguage(t, p) ==
  IF \/ "tsconfig.json" \in t.files
     \/ p # NoPackage /\ DepEvidence(p, "typescript", {"typescript"}) # {}
    THEN "typescript"
  ELSE IF "jsconfig.json" \in t.files \/ (p # NoPackage /\ p.typeModule)
    THEN "javascript" ELSE "unknown"

BunScripts(p) == {s \in DOMAIN p.scripts : p.scripts[s] = "bun"}
\* mutant: the first script the map yields, whatever it runs
FirstScriptOnly(p) ==
  IF p = NoPackage \/ DOMAIN p.scripts = {} THEN {{}} ELSE {{s} \cap BunScripts(p) : s \in DOMAIN p.scripts}
\* A script that runs bun is recorded once, whichever the map yields first.
ScriptChoices(p) == IF p = NoPackage \/ BunScripts(p) = {} THEN {{}} ELSE {{s} : s \in BunScripts(p)}
BunEvidence(t, p, scripts) ==
  FileEvidence(t, "bun", "lockfile", {"bun.lock", "bun.lockb"}) \cup FileEvidence(t, "bun", "config-file", {"bunfig.toml"})
    \cup {[id |-> "bun", kind |-> "package-manager", detail |-> n] :
            n \in IF p # NoPackage /\ p.manager = "bun" THEN {"packageManager"} ELSE {}}
    \cup {[id |-> "bun", kind |-> "package-script", detail |-> s] : s \in scripts}
NodeEvidence(t, p) ==
  FileEvidence(t, "node", "lockfile", {"package-lock.json", "pnpm-lock.yaml", "yarn.lock"})
    \cup {[id |-> "node", kind |-> "package-manager", detail |-> n] :
            n \in IF p = NoPackage THEN {}
                  ELSE {x \in {"engines.node", "packageManager"} :
                          \/ x = "engines.node" /\ p.enginesNode
                          \/ x = "packageManager" /\ p.manager \in {"pnpm", "yarn", "npm"}}}
WorkersEvidence(t, p) ==
  FileEvidence(t, "cloudflare-workers", "config-file", {"wrangler.toml", "wrangler.jsonc"})
    \cup IF p = NoPackage THEN {} ELSE DepEvidence(p, "cloudflare-workers", {"@cloudflare/workers-types"})
DenoEvidence(t) ==
  FirstFile(t, "deno", "config-file", <<"deno.json", "deno.jsonc">>) \cup FileEvidence(t, "deno", "lockfile", {"deno.lock"})
DetectRuntimes(t, p, scripts) == BunEvidence(t, p, scripts) \cup NodeEvidence(t, p) \cup WorkersEvidence(t, p) \cup DenoEvidence(t)

NestPackages == {"@nestjs/core", "@nestjs/common", "@nestjs/platform-express", "@nestjs/platform-fastify",
                 "@nestjs/config", "@nestjs/mapped-types", "@nestjs/swagger", "@nestjs/cli"}
DetectFrameworks(t, p) ==
  LET next == DepEvidence(p, "next-backend", {"next"})
  IN  next \cup DepEvidence(p, "hono", {"hono"}) \cup DepEvidence(p, "express", {"express"})
        \cup DepEvidence(p, "fastify", {"fastify"}) \cup DepEvidence(p, "elysia", {"elysia"})
        \cup DepEvidence(p, "oak", {"@oak/oak"}) \cup DepEvidence(p, "nestjs", NestPackages)
        \cup IF next = {} THEN {}
             ELSE FirstFile(t, "next-backend", "config-file", <<"app", "pages", "src/app", "src/pages">>)
DetectDataLayers(p) ==
  DepEvidence(p, "prisma", {"@prisma/client"}) \cup DepEvidence(p, "drizzle", {"drizzle-orm"})
    \cup UNION {DepEvidence(p, n, {n}) : n \in {"kysely", "knex", "pg", "mysql2", "mongoose"}}
DetectValidators(p) ==
  DepEvidence(p, "typebox", {"@sinclair/typebox"})
    \cup UNION {DepEvidence(p, n, {n}) : n \in {"zod", "valibot", "yup", "joi", "ajv", "arktype", "class-validator"}}
DetectAuth(p) ==
  DepEvidence(p, "better-auth", {"better-auth"}) \cup DepEvidence(p, "auth-js", {"next-auth", "@auth/core"})
    \cup DepEvidence(p, "clerk", {"@clerk/nextjs", "@clerk/clerk-sdk-node"})
    \cup DepEvidence(p, "supabase-auth", {"@supabase/supabase-js"}) \cup DepEvidence(p, "lucia", {"lucia"})
DetectLlm(p) ==
  DepEvidence(p, "openai", {"openai"}) \cup DepEvidence(p, "anthropic", {"@anthropic-ai/sdk"})
    \cup DepEvidence(p, "vercel-ai-sdk", {"ai"}) \cup DepEvidence(p, "langchain", {"langchain", "@langchain/core"})
DetectDeployments(t) ==
  FileEvidence(t, "vercel", "config-file", {"vercel.json"})
    \cup FileEvidence(t, "cloudflare", "config-file", {"wrangler.toml", "wrangler.jsonc"})
    \cup FileEvidence(t, "netlify", "config-file", {"netlify.toml"}) \cup FileEvidence(t, "fly-io", "config-file", {"fly.toml"})
    \cup FileEvidence(t, "docker", "config-file", {"Dockerfile"})
    \cup FileEvidence(t, "aws-lambda", "config-file", {"serverless.yml"})

-----------------------------------------------------------------------------
\* The hints that are sorted or looked up, in the order they are declared.
HintOrder ==
  <<"node", "bun", "deno", "cloudflare-workers", "vercel-edge",
    "next-backend", "hono", "express", "fastify", "nestjs", "elysia", "oak",
    "prisma", "drizzle", "kysely", "knex", "pg", "mysql2", "mongoose",
    "zod", "valibot", "yup", "joi", "ajv", "arktype", "typebox", "class-validator",
    "better-auth", "auth-js", "clerk", "supabase-auth", "lucia",
    "openai", "anthropic", "vercel-ai-sdk", "langchain",
    "vercel", "cloudflare", "aws-lambda", "netlify", "fly-io", "docker">>
Ordinal(hint) == CHOOSE i \in DOMAIN HintOrder : HintOrder[i] = hint

Count(evidence, kinds) == Cardinality({e \in evidence : e.kind \in kinds})
Weight(evidence) ==
  40 * Count(evidence, {"config-file"}) + 35 * Count(evidence, {"lockfile", "package-manager"})
    + 30 * Count(evidence, {"dependency", "dev-dependency"}) + 20 * Count(evidence, {"package-script"})
Uncapped(evidence) == Weight(evidence)   \* mutant: the cap forgotten
Confidence(evidence) == Min({100, Weight(evidence)})

WeakestFirst(a, b) ==   \* mutant: confidence ascending
  \/ a.confidence < b.confidence
  \/ a.confidence = b.confidence /\ Ordinal(a.id) < Ordinal(b.id)
Before(a, b) ==
  \/ a.confidence > b.confidence
  \/ a.confidence = b.confidence /\ Ordinal(a.id) < Ordinal(b.id)

Detected(evidence, hint) ==
  LET of == {e \in evidence : e.id = hint} IN [id |-> hint, confidence |-> Confidence(of), evidence |-> of]
\* Sorted: at i stands the one with i - 1 others before it.
Finalize(evidence) ==
  LET found == {Detected(evidence, e.id) : e \in evidence}
  IN  [i \in 1..Cardinality(found) |->
         CHOOSE d \in found : Cardinality({other \in found : Before(other, d)}) = i - 1]

Families == {"runtimes", "frameworks", "dataLayers", "validators", "authLayers", "llmSdks", "deployments"}
\* Without a package only what the root's files say is found.
Evidence(t, p, family, scripts) ==
  IF p = NoPackage /\ family \notin {"runtimes", "deployments"} THEN {} ELSE
  CASE family = "runtimes" -> DetectRuntimes(t, p, scripts)
    [] family = "deployments" -> DetectDeployments(t)
    [] family = "frameworks" -> DetectFrameworks(t, p)
    [] family = "dataLayers" -> DetectDataLayers(p)
    [] family = "validators" -> DetectValidators(p)
    [] family = "authLayers" -> DetectAuth(p)
    [] family = "llmSdks" -> DetectLlm(p)
ProfileOf(t, p, scripts) ==
  [language |-> DetectLanguage(t, p), hints |-> [f \in Families |-> Finalize(Evidence(t, p, f, scripts))]]

-----------------------------------------------------------------------------
ReadPackageJson(t, dir) == t.packages[dir]

\* Only a pattern that ends in /* or /** is expanded; what it lists is unordered.
ExpandPattern(t, pattern) ==
  IF pattern.glob THEN IF pattern.dir \in DOMAIN t.children THEN t.children[pattern.dir] ELSE {}
  ELSE {pattern.dir} \cap Directories(t)

Either(mine, other) ==
  [k \in DOMAIN mine \cup DOMAIN other |-> IF k \in DOMAIN mine THEN mine[k] ELSE other[k]]
Overwrite(mine, other) == Either(other, mine)   \* mutant: insert, not entry().or_insert()
OrInsert(mine, other) == Either(mine, other)

MergePackage(ws) ==
  [dependencies |-> OrInsert(package.dependencies, ws.dependencies),
   devDependencies |-> OrInsert(package.devDependencies, ws.devDependencies),
   scripts |-> OrInsert(package.scripts, ws.scripts),
   manager |-> package.manager, enginesNode |-> package.enginesNode,
   typeModule |-> package.typeModule, workspaces |-> package.workspaces]

WorkspacesOf(p) == IF p = NoPackage THEN <<>> ELSE p.workspaces

ProfileInit ==
  /\ tree \in Trees /\ earlier = NoProfile
  /\ package = ReadPackageJson(tree, Root) /\ patterns = WorkspacesOf(ReadPackageJson(tree, Root))
  /\ opened = {} /\ profile = NoProfile

OpenPattern ==
  /\ profile = NoProfile /\ opened = {} /\ patterns # <<>>
  /\ opened' = ExpandPattern(tree, Head(patterns))
  /\ patterns' = Tail(patterns)
  /\ UNCHANGED <<tree, package, profile, earlier>>

MergeWorkspace ==
  /\ profile = NoProfile
  /\ \E dir \in opened :
       /\ opened' = opened \ {dir}
       /\ package' = IF ReadPackageJson(tree, dir) = NoPackage THEN package ELSE MergePackage(ReadPackageJson(tree, dir))
  /\ UNCHANGED <<tree, patterns, profile, earlier>>

Detect ==
  /\ profile = NoProfile /\ opened = {} /\ patterns = <<>>
  /\ \E scripts \in ScriptChoices(package) : profile' = ProfileOf(tree, package, scripts)
  /\ UNCHANGED <<tree, package, patterns, opened, earlier>>

\* A second scan of the same tree.
ScanAgain ==
  /\ profile # NoProfile /\ earlier = NoProfile
  /\ earlier' = profile /\ profile' = NoProfile
  /\ package' = ReadPackageJson(tree, Root) /\ patterns' = WorkspacesOf(ReadPackageJson(tree, Root))
  /\ UNCHANGED <<tree, opened>>

ProfileNext == OpenPattern \/ MergeWorkspace \/ Detect \/ ScanAgain

-----------------------------------------------------------------------------
IsProfile(p) ==
  /\ p.language \in {"typescript", "javascript", "unknown"}
  /\ \A f \in Families : \A i \in DOMAIN p.hints[f] :
       p.hints[f][i].confidence \in 1..100 /\ p.hints[f][i].evidence # {}

ProfileTypeOK ==
  /\ tree \in Trees /\ (package = NoPackage \/ IsPackage(package))
  /\ opened \subseteq Directories(tree)
  /\ \A p \in {profile, earlier} : p = NoProfile \/ IsProfile(p)

\* Two workspaces define a script differently, one to run bun: the one that is
\* merged first decides, and read_dir lists them in any order.
Workspaces(t) ==
  LET ps == WorkspacesOf(ReadPackageJson(t, Root))
  IN  {d \in UNION {ExpandPattern(t, ps[i]) : i \in DOMAIN ps} : ReadPackageJson(t, d) # NoPackage}
Disputed(t) ==
  \E d, e \in Workspaces(t) :
    LET mine == ReadPackageJson(t, d).scripts
        other == ReadPackageJson(t, e).scripts
    IN  \E s \in (DOMAIN mine \cap DOMAIN other) \ DOMAIN ReadPackageJson(t, Root).scripts : mine[s] # other[s]

IsScript(e) == e.kind = "package-script"
Nameless(evidence) ==
  {[id |-> e.id, kind |-> e.kind, detail |-> IF IsScript(e) THEN "a script" ELSE e.detail] : e \in evidence}
Unnamed(hints) ==
  [i \in DOMAIN hints |->
     [id |-> hints[i].id, confidence |-> hints[i].confidence, evidence |-> Nameless(hints[i].evidence)]]
NotScripts(hints) == UNION {{e \in hints[i].evidence : ~IsScript(e)} : i \in DOMAIN hints}

\* Two scans of one tree detect the same stack in the same order, with the same
\* evidence and confidence, whatever order read_dir lists the workspaces and
\* the maps their entries in.  Of the runtimes the script that is named may
\* differ; that there is one does only where workspaces dispute a script, and
\* then the rest of the runtimes' evidence is still the same.
SameTreeSameStack ==
  profile # NoProfile /\ earlier # NoProfile =>
    /\ profile.language = earlier.language
    /\ \A f \in Families \ {"runtimes"} : profile.hints[f] = earlier.hints[f]
    /\ NotScripts(profile.hints["runtimes"]) = NotScripts(earlier.hints["runtimes"])
    /\ ~Disputed(tree) => Unnamed(profile.hints["runtimes"]) = Unnamed(earlier.hints["runtimes"])

\* A workspace never takes away what was found without it: no hint loses a
\* piece of its evidence while the packages are merged in.
Found(e) == <<e.id, e.detail>>
FoundIn(f) == {Found(e) : e \in Evidence(tree, package, f, {})}
OnlyAdds ==
  MergeWorkspace /\ package # NoPackage =>
    /\ \A f \in Families : FoundIn(f) \subseteq FoundIn(f)'
    /\ BunScripts(package) \subseteq BunScripts(package')
WorkspaceOnlyAdds == [][OnlyAdds]_profileVars

\* A NestJS application, which has two of its packages, is never reported as
\* the transport NestJS runs on.
NestOutranksTransport ==
  profile # NoProfile /\ package # NoPackage =>
    \A i, j \in DOMAIN profile.hints["frameworks"] :
      /\ profile.hints["frameworks"][i].id = "nestjs"
      /\ Cardinality(profile.hints["frameworks"][i].evidence) >= 2
      /\ profile.hints["frameworks"][j].id \in {"express", "fastify"}
      => i < j
=============================================================================
