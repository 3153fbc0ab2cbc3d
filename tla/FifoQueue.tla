------------------------------ MODULE FifoQueue ------------------------------
(***************************************************************************)
(* What a blocking queue promises to the code that uses it                 *)
(* (common/util/BlockingQueue.ts, and through it every ResponseQueue of    *)
(* stream/ResponseCollector.ts): elements come out in the order they went  *)
(* in, each to one take, and the takes are served in the order they were   *)
(* made.                                                                   *)
(***************************************************************************)
EXTENDS Naturals, Sequences

CONSTANTS Element,   \* what the queue holds
          Pending    \* what a take has received while it is still waiting

VARIABLES contents,  \* the elements added and not yet taken
          received   \* received[k]: the element the k-th take got, or Pending

vars == <<contents, received>>

Init == /\ contents = <<>>
        /\ received = <<>>

(***************************************************************************)
(* A take that has to wait, and no earlier one does.                       *)
(***************************************************************************)
FirstWaiting(k) == /\ received[k] = Pending
                   /\ \A j \in 1 .. k - 1 : received[j] # Pending

Add(e) ==
    \/ /\ \E k \in DOMAIN received :
             /\ FirstWaiting(k)
             /\ received' = [received EXCEPT ![k] = e]
       /\ UNCHANGED contents
    \/ /\ \A k \in DOMAIN received : received[k] # Pending
       /\ contents' = Append(contents, e)
       /\ UNCHANGED received

Take ==
    \/ /\ contents # <<>>
       /\ received' = Append(received, Head(contents))
       /\ contents' = Tail(contents)
    \/ /\ contents = <<>>
       /\ received' = Append(received, Pending)
       /\ UNCHANGED contents

Next == Take \/ \E e \in Element : Add(e)

Spec == Init /\ [][Next]_vars
=============================================================================
