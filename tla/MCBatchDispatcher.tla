-------------------------- MODULE MCBatchDispatcher --------------------------
(* A dispatcher that is asked to send up to four requests of two kinds. *)
EXTENDS BatchDispatcher
=============================================================================
