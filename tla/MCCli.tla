------------------------------- MODULE MCCli -------------------------------
(***************************************************************************)
(* Two files, one there at base and one not, and lines that hold the       *)
(* findings and the markers whose interplay is checked.                    *)
(***************************************************************************)
EXTENDS CliSession

Plain(finds) == [finds |-> finds, comment |-> {}]
Comment(keyword, ids, hidden) == [finds |-> <<>>, comment |-> {[keyword |-> keyword, ids |-> ids, hidden |-> hidden]}]
Times(n, x) == [i \in 1..n |-> x]

MCRuleIds == <<"flow/a", "flow/b">>
MCShortNames == {"a"}
MCFiles == {1, 2}

Query == Plain(<<<<"flow/b", "high">>>>)
Leak == Plain(<<<<"flow/a", "critical">>, <<"flow/b", "medium">>>>)
Crowd == Plain(Times(6, <<"flow/b", "critical">>))   \* two of them are more than the score can lose
MCStart == [f \in MCFiles |-> IF f = 1 THEN <<Query, Leak>> ELSE Absent]
MCNewLines == {
  Query, Leak, Crowd,
  Comment("next", {"flow/b"}, FALSE),
  Comment("next", {"a", "flow/a"}, FALSE),
  Comment("next", {"flow/b"}, TRUE),        \* behind the // of a URL
  Comment("file", {"flow/a"}, FALSE),
  Comment("misspelt", {"flow/b"}, FALSE)}   \* stryx-disable-nextline

Valid(surfaces) == [state |-> "valid", surfaces |-> surfaces]
NoSurfaces == [r \in {} |-> {}]
MCConfigs == {
  [state |-> "missing", surfaces |-> NoSurfaces],
  [state |-> "malformed", surfaces |-> ("default" :> {"ciFailure"})],
  Valid("flow/b" :> {"ciFailure"}),
  Valid("flow/a" :> {"score"} @@ "default" :> {"cli", "prComment"})}
MCThresholds == {"high", "critical", "severe"}
=============================================================================
