-------------------------- MODULE TransactionCalls ---------------------------
(***************************************************************************)
(* What a transaction promises to its user about the calls made on it      *)
(* (connection/TypeDBTransactionImpl.ts, rpcExecute and rpcStream): a call *)
(* on an open transaction is answered only if the server has replied to    *)
(* it, fails only once the transaction is closed, and settles once; a call *)
(* on a closed transaction is refused; a closed transaction stays closed.  *)
(***************************************************************************)
CONSTANT Call

VARIABLES open,    \* isOpen()
          state,   \* how each call stands
          replied  \* the calls the server has replied to in full

vars == <<open, state, replied>>

Init == /\ open = TRUE
        /\ state = [r \in Call |-> "new"]
        /\ replied = {}

Become(r, s) == state' = [state EXCEPT ![r] = s]

Start(r) == /\ state[r] = "new"
            /\ Become(r, IF open THEN "pending" ELSE "refused")
            /\ UNCHANGED <<open, replied>>

Reply(r) == /\ state[r] \in {"pending", "failed"}
            /\ replied' = replied \cup {r}
            /\ UNCHANGED <<open, state>>

Answer(r) == /\ state[r] = "pending" /\ r \in replied
             /\ Become(r, "answered")
             /\ UNCHANGED <<open, replied>>

Fail(r) == /\ state[r] = "pending" /\ ~open
           /\ Become(r, "failed")
           /\ UNCHANGED <<open, replied>>

Close == /\ open' = FALSE
         /\ UNCHANGED <<state, replied>>

Next == Close \/ \E r \in Call : Start(r) \/ Reply(r) \/ Answer(r) \/ Fail(r)

Spec == Init /\ [][Next]_vars
=============================================================================
