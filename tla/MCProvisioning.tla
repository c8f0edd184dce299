--------------------------- MODULE MCProvisioning ---------------------------
EXTENDS Provisioning, TLC

MCForms == {[active |-> TRUE, admin |-> FALSE, groups |-> Groups],
            [active |-> FALSE, admin |-> TRUE, groups |-> {}]}
MCAllKinds == AllKinds
Symmetric == Permutations(Users) \cup Permutations(Jobs)

=============================================================================
