--------------------------- MODULE MCClusterSession --------------------------
(***************************************************************************)
(* Two servers, a and b.  The preferred one is a; b is the primary, once   *)
(* there is one.                                                           *)
(***************************************************************************)
EXTENDS ClusterSession

CONSTANTS t1, t2

R(address, primary, preferred, term) ==
    [address |-> address, primary |-> primary, preferred |-> preferred, term |-> term]

MCTask == {t1, t2}
MCMixed == [t \in MCTask |-> IF t = t1 THEN "transaction" ELSE "transactionAnyReplica"]
MCOneTask == {t1}
MCAny == [t \in MCOneTask |-> "transactionAnyReplica"]

MCErrors == {"UNAVAILABLE", "RPL01", "SESSION_CLOSED", "PERMISSION_DENIED"}

MCElected == <<R("a", FALSE, TRUE, 1), R("b", TRUE, FALSE, 2)>>
MCNoPrimary == <<R("a", FALSE, TRUE, 1), R("b", FALSE, FALSE, 1)>>
MCInfos == {MCElected}
MCInfosElection == {MCElected, MCNoPrimary}
=============================================================================
