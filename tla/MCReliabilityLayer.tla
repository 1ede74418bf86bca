-------------------------- MODULE MCReliabilityLayer --------------------------
(* Small instances of ReliabilityLayer for TLC.                            *)
EXTENDS ReliabilityLayer, TLC

\* Payloads are only compared for equality.
MsgSymmetry == Permutations(Msg)

\* One direction at a time: nothing is said to a client that has issued a
\* message, and the other way round.  The two directions share nothing but the
\* connection, and no fairness is assumed of the steps this leaves out.
OneDirection == issued' = <<>> \/ said' = <<>>
OneDirectionSpec == Init /\ [][Next /\ OneDirection]_vars
OneDirectionFairSpec == Init /\ [][Next /\ OneDirection]_vars /\ Fairness
===============================================================================
