--------------------------- MODULE MCBlockingQueue ---------------------------
(* The queue with two elements, up to four calls of add() and of take(). *)
EXTENDS BlockingQueue
=============================================================================
