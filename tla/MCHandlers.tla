----------------------------- MODULE MCHandlers -----------------------------
\* Two variables; one export wraps a handler in a validator, one does not.
EXTENDS FlowHandlers

MCExports == {[wrapper |-> "withBody", inner |-> "create"], [wrapper |-> "withLog", inner |-> "list"]}
MCForms == {"bodyMember", "literal", "read", "alias", "member", "validated", "binary", "filtered", "receiver"}
MCMethods == {"map", "catch", "optional"}
MCPlaces == {"statement", "test"}
=============================================================================
