--------------------------- MODULE MCAwsRevocation ---------------------------
(* TLC instance of AwsRevocation: sessions of every role last one tick.    *)
EXTENDS AwsRevocation, TLC

OneTick == [ro \in Roles |-> 1]
=============================================================================
