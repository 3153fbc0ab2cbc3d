-------------------------- MODULE ResponseCollector --------------------------
(***************************************************************************)
(* stream/ResponseCollector.ts: the queues in which the calls of one       *)
(* transaction wait for their responses, by request id.  A ResponseQueue   *)
(* outlives its entry in the collector, because the caller holds it.       *)
(*                                                                         *)
(* Each queue is a BlockingQueue, used here as the first-in first-out      *)
(* queue that module BlockingQueue shows it to be: a take() that finds the *)
(* queue empty waits until it is not.                                      *)
(***************************************************************************)
EXTENDS Naturals, Sequences

CONSTANTS RequestId,  \* the ids of the requests this collector serves
          Value,      \* what a response carries
          Cause       \* what close() is called with: an error, or nothing

VARIABLES collectors, \* the keys of _collectors
          queues      \* queues[id]: the elements of the queue of request id

Response(v) == [done |-> FALSE, value |-> v]
Done(error) == [done |-> TRUE, error |-> error]

Element == [done : {FALSE}, value : Value] \cup [done : {TRUE}, error : Cause]

TypeOK == /\ collectors \in SUBSET RequestId
          /\ queues \in [RequestId -> Seq(Element)]

Init == /\ collectors = {}
        /\ queues = [id \in RequestId |-> <<>>]

(***************************************************************************)
(* queue(uuid): a new queue, entered in the collector.                     *)
(***************************************************************************)
Queue(id) == /\ collectors' = collectors \cup {id}
             /\ queues' = [queues EXCEPT ![id] = <<>>]

(***************************************************************************)
(* put() on the queue get() returned.                                      *)
(***************************************************************************)
Put(id, v) == /\ queues' = [queues EXCEPT ![id] = Append(@, Response(v))]
              /\ UNCHANGED collectors

(***************************************************************************)
(* take(): the first element leaves the queue.                             *)
(***************************************************************************)
Take(id) == /\ queues[id] # <<>>
            /\ queues' = [queues EXCEPT ![id] = Tail(@)]
            /\ UNCHANGED collectors

\* Mutant of Close: the entries stay in the collector.
CloseKeepsEntries(error) ==
    /\ queues' = [id \in RequestId |-> IF id \in collectors
                                       THEN Append(queues[id], Done(error))
                                       ELSE queues[id]]
    /\ UNCHANGED collectors

(***************************************************************************)
(* close(error): every registered queue gets a closing element, and no     *)
(* queue stays registered.                                                 *)
(***************************************************************************)
Close(error) ==
    /\ queues' = [id \in RequestId |-> IF id \in collectors
                                       THEN Append(queues[id], Done(error))
                                       ELSE queues[id]]
    /\ collectors' = {}
=============================================================================
