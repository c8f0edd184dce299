------------------------------ MODULE MCIssuer ------------------------------
(* TLC instance of the token service, with its refinement of TokenContract,  *)
(* and of the replicas that run it.  They share no state in the models, so   *)
(* one moves only while the other has not begun.                             *)
EXTENDS TokenImplements, Replicas, TLC

MCForms == {[enabled |-> FALSE, config |-> "bearer", token |-> TRUE],
            [enabled |-> TRUE, config |-> "bearer", token |-> FALSE],
            [enabled |-> TRUE, config |-> "mtls", token |-> FALSE],
            [enabled |-> TRUE, config |-> "aws", token |-> FALSE]}

\* Two-element sets.  An idle component looks the same after any exchange, so
\* an exchange in each of the two can be one permutation.
Flip(S) == [x \in S |-> CHOOSE y \in S : y # x]
Flips(S, T) == {[x \in S \cup T |-> x], Flip(S) @@ Flip(T)}
Symmetry == {f @@ g : f \in Flips(Requests, Replicas), g \in Flips(Clients, Jobs)}

IssuerInit == Init /\ ReplicasInit
IssuerNext ==
  \/ Next /\ ReplicasInit /\ UNCHANGED replicasVars
  \/ ReplicasNext /\ Init /\ UNCHANGED vars
IssuerSpec == IssuerInit /\ [][IssuerNext]_<<vars, replicasVars>>

=============================================================================
