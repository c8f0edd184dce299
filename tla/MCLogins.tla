------------------------------ MODULE MCLogins ------------------------------
(* TLC instance of the two ways out of the browser: the device grant, and    *)
(* AWS federation with its revocation provisioner.  They share no state in   *)
(* the models, so one moves only while the other has not begun.              *)
EXTENDS DeviceGrant, MCAwsRevocation

\* Two-element sets.  An idle component looks the same after any exchange, so
\* an exchange in each of the two can be one permutation.
Flip(S) == [x \in S |-> CHOOSE y \in S : y # x]
Flips(S, T) == {[x \in S \cup T |-> x], Flip(S) @@ Flip(T)}
Symmetry == {f @@ g : f \in Permutations(Requests), g \in Flips(Users, People)}

LoginsInit == Init /\ AwsInit
LoginsNext ==
  \/ Next /\ AwsInit /\ UNCHANGED awsVars
  \/ AwsNext /\ Init /\ UNCHANGED vars
LoginsSpec == LoginsInit /\ [][LoginsNext]_<<vars, awsVars>>

=============================================================================
