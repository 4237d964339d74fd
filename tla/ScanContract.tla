---------------------------- MODULE ScanContract ----------------------------
(***************************************************************************)
(* What a scan promises its caller, whatever the order of its workers, the *)
(* number of its rounds and the edits made under it: it pins one text per  *)
(* file, then publishes one report about exactly those texts.  The report  *)
(* names only real flows; a complete one misses none on a tracked axis.    *)
(***************************************************************************)
EXTENDS SourceTexts

VARIABLES
  pinned,   \* the text the scan has committed to, per file
  status,   \* "scanning", then "complete" or "partial"
  report    \* <<function, axis>> pairs

vars == <<pinned, status, report>>

Init ==
  /\ pinned = [f \in Files |-> NoText]
  /\ status = "scanning" /\ report = {}

Pin(f) ==
  /\ status = "scanning" /\ pinned[f] = NoText
  /\ \E text \in Texts[f] : pinned' = [pinned EXCEPT ![f] = text]
  /\ UNCHANGED <<status, report>>

Sound(R) ==
  \A fa \in R : Vulnerable(fa[2], fa[1], pinned) /\ ~Excused(fa[2], fa[1], pinned)
Complete(R) ==
  \A fn \in Fns, a \in Axes :
    Tracked(a, pinned) /\ Vulnerable(a, fn, pinned) /\ ~Excused(a, fn, pinned)
      => <<fn, a>> \in R

Publish ==
  /\ status = "scanning"
  /\ status' \in {"complete", "partial"}
  /\ Sound(report')
  /\ status' = "complete" => Complete(report')
  /\ UNCHANGED pinned

Next == (\E f \in Files : Pin(f)) \/ Publish
Spec == Init /\ [][Next]_vars
=============================================================================
