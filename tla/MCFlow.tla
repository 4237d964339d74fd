-------------------------------- MODULE MCFlow ------------------------------
(***************************************************************************)
(* Functions for FlowVisitor to walk: a parameter b, two other variables,  *)
(* objects of two fields, and a few helpers.                               *)
(***************************************************************************)
EXTENDS FlowVisitor, TLC

CONSTANTS b, u, v, x, y, same, wrap, pick, idle, far, save

AllHelpers == {same, wrap, pick, idle, far, save}
OnX == [p \in {<<>>, <<x>>} |-> IF p = <<>> THEN "none" ELSE "tainted"]
Says(propagates, reaches, shape) ==
  [propagates |-> propagates, reaches |-> reaches, returnShape |-> shape, paramShape |-> OnX]

\* same(a) returns a; wrap(a) returns {x: a.x}; pick(a) returns a.x; idle(a)
\* returns a constant; far is not in the index; save(a) writes a.x to the database.
MCSummary ==
  [h \in Helpers |->
     CASE h = same -> Says(TRUE, FALSE, TaintedCell)
       [] h \in {wrap, pick} -> Says(TRUE, FALSE, OnX)
       [] h = idle -> Says(FALSE, FALSE, NoCell)
       [] h = far -> NoSummary
       [] h = save -> Says(FALSE, TRUE, NoCell)]
MCGives ==
  [h \in Helpers |-> [L \in SUBSET Fields |->
     CASE h \in {same, far} -> L
       [] h = wrap -> L \cap {x}
       [] h = pick -> IF x \in L THEN Fields ELSE {}
       [] OTHER -> {}]]
MCStores == [h \in Helpers |-> IF h = save THEN {x} ELSE {}]

Alike == Permutations({x, y})
=============================================================================
