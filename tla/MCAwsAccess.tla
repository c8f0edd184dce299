----------------------------- MODULE MCAwsAccess -----------------------------
EXTENDS AwsAccess

MCAccountOf == [r \in Roles |-> CHOOSE acc \in Accounts : acc \notin Unused]
MCSettings == {[list |-> <<>>, default |-> ""], [list |-> <<"near">>, default |-> ""],
               [list |-> <<"near", "near">>, default |-> "far"]}
MCEarlier == {{}, {"far"}}

ASSUME ListsAssumption == ListsAreSequences

=============================================================================
