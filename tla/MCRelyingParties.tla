--------------------------- MODULE MCRelyingParties ---------------------------
EXTENDS RelyingParties

MCForms == {[public |-> FALSE, uri |-> FALSE], [public |-> TRUE, uri |-> TRUE]}

=============================================================================
