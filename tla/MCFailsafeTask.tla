---------------------------- MODULE MCFailsafeTask ---------------------------
(***************************************************************************)
(* create() of a database and delete() of it, which share the cache.  Two  *)
(* replicas, a and b, and the lists a server may send about them: with     *)
(* neither a primary nor a preferred one, and with one preferred and two   *)
(* that claim to be the primary, of different terms.                       *)
(***************************************************************************)
EXTENDS FailsafeTask

CONSTANTS t1, t2

R(address, primary, preferred, term) ==
    [address |-> address, primary |-> primary, preferred |-> preferred, term |-> term]

MCTask == {t1, t2}
MCOperationOf == [t \in MCTask |-> IF t = t1 THEN "create" ELSE "databaseDelete"]
MCErrors == {"UNAVAILABLE", "RPL01", "ALREADY_EXISTS"}
MCInfos == { <<R("a", FALSE, FALSE, 1), R("b", FALSE, FALSE, 1)>>,
             <<R("a", TRUE, FALSE, 1), R("b", TRUE, TRUE, 2)>> }
=============================================================================
