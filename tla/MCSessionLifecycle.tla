------------------------- MODULE MCSessionLifecycle --------------------------
(***************************************************************************)
(* A client with two sessions, two transactions on the first and one on    *)
(* the second.                                                             *)
(***************************************************************************)
EXTENDS SessionLifecycle

CONSTANTS x1, x2, t1, t2, t3

MCTransaction == {t1, t2, t3}
MCSessionOf == [t \in MCTransaction |-> IF t = t3 THEN x2 ELSE x1]
=============================================================================
