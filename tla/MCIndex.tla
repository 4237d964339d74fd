------------------------------- MODULE MCIndex ------------------------------
(***************************************************************************)
(* Four-file projects for IndexResolve: an importer, a barrel, a module    *)
(* and a module with a dot in its name.                                    *)
(***************************************************************************)
EXTENDS IndexResolve, TLC

CONSTANTS db, sql

MCRules == <<db, sql>>
MCExtensions == <<"ts", "tsx", "js">>
Comp(base) == <<base, "ts">>
App == << <<"src">>, Comp("app") >>
Barrel == << <<"src">>, <<"lib">>, Comp("index") >>
Users == << <<"src">>, <<"lib">>, Comp("users") >>
Service == << <<"src">>, <<"lib">>, <<"users", "service", "ts">> >>
MCTargets == <<App, Barrel, Users, Service>>

Rel(p) == [kind |-> "relative", path |-> p]
Lib == Rel(<< <<"src">>, <<"lib">> >>)
ToUsers == Rel(<< <<"src">>, <<"lib">>, <<"users">> >>)
ToService == Rel(<< <<"src">>, <<"lib">>, <<"users", "service">> >>)
ToServiceTs == Rel(Service)
ToServiceJs == Rel(<< <<"src">>, <<"lib">>, <<"users", "service", "js">> >>)
Alias(p) == [kind |-> "aliased", path |-> p]
Npm == [kind |-> "package", path |-> << <<"zod">> >>]
MCAliases ==
  << [prefix |-> << <<"@">> >>, replacements |-> << << <<"gen">> >>, << <<"src">> >> >>] >>

MCSpecifiers == {Lib, ToUsers, ToService, ToServiceTs, ToServiceJs, Npm, Alias(<< <<"@">>, <<"lib">>, <<"users">> >>)}

Of(spec, n) == [spec |-> spec, name |-> n]
Nothing == [exports |-> {}, locals |-> {}, listed |-> {}, classes |-> {}, imports |-> <<>>,
            reExports |-> <<>>, stars |-> <<>>, reaching |-> [r \in {db, sql} |-> {}]]
Declares(names) == [Nothing EXCEPT !.exports = names, !.reaching = (db :> names @@ sql :> names)]
ReExports(f) == [Nothing EXCEPT !.reExports = f]
Stars(s) == [Nothing EXCEPT !.stars = s]

Imports ==
  {"u" :> Of(spec, "u") : spec \in {Lib, ToUsers, ToService, ToServiceJs, Npm}}
  \cup {("u" :> Of(Alias(<< <<"@">>, <<"lib">>, <<"users">> >>), "u") @@ "d" :> Of(Lib, "default"))}
AppTexts == {[Nothing EXCEPT !.imports = i] : i \in Imports}
BarrelTexts ==
  {ReExports("u" :> Of(ToUsers, "u")), ReExports("u" :> Of(ToServiceTs, "d") @@ "default" :> Of(ToUsers, "u")),
   Stars(<<ToUsers>>), Stars(<<ToUsers, ToServiceTs>>), Stars(<<ToService, ToUsers>>),
   [Stars(<<ToUsers>>) EXCEPT !.locals = {"u"}], [Stars(<<ToServiceTs>>) EXCEPT !.exports = {"d"}],
   [ReExports("u" :> Of(ToUsers, "d")) EXCEPT !.stars = <<ToServiceTs>>]}
UsersTexts ==
  {Declares({"u", "d"}), [Declares({"u"}) EXCEPT !.reaching[sql] = {}],
   [Nothing EXCEPT !.classes = {"u"}], [Nothing EXCEPT !.locals = {"u"}, !.listed = {"u"}],
   Stars(<<Lib>>), Stars(<<ToServiceTs>>), ReExports("u" :> Of(Lib, "u")), Nothing}
ServiceTexts == {Declares({"u", "d"}), Declares({"d", "default"}), Stars(<<Lib>>), Nothing}

Project(a, b, m, s) == App :> a @@ Barrel :> b @@ Users :> m @@ Service :> s
MCPrograms ==
  {Project(a, b, m, s) : a \in AppTexts, b \in BarrelTexts, m \in UsersTexts, s \in ServiceTexts}

\* For the disagreement with the comments: an import of `./users.service`.
DottedPrograms == {Project([Nothing EXCEPT !.imports = "u" :> Of(ToService, "u")],
                           Nothing, Nothing, Declares({"u"}))}
=============================================================================
