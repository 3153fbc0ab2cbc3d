------------------------- MODULE MCTransactionStream -------------------------
(* A transaction with a few calls; the cfg files choose which. *)
EXTENDS TransactionStream
=============================================================================
