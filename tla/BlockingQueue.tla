---------------------------- MODULE BlockingQueue ----------------------------
(***************************************************************************)
(* common/util/BlockingQueue.ts: a queue made of two arrays, the promises  *)
(* nobody has taken yet and the resolvers nobody has called yet.  add()    *)
(* resolves the oldest unresolved promise and take() hands out the oldest  *)
(* promise; each of them creates a promise (with its resolver) when its    *)
(* array is empty.  The two arrays are never compared with each other, so  *)
(* that the k-th take gets the k-th element rests on both being shifted in *)
(* step.                                                                   *)
(*                                                                         *)
(* A promise is the number of its creation; a resolver is the number of    *)
(* the promise it resolves.                                                *)
(***************************************************************************)
EXTENDS Naturals, Sequences

CONSTANTS Element,   \* what the queue holds
          Pending,   \* the state of a promise that is not resolved
          MaxAdds,   \* bound: calls of add() that are explored
          MaxTakes   \* bound: calls of take() that are explored

ASSUME PendingIsNoElement == Pending \notin Element
ASSUME BoundsAreNat == MaxAdds \in Nat /\ MaxTakes \in Nat

VARIABLES promises,  \* _promises: created, not handed out
          resolvers, \* _resolvers: created, not called
          outcome,   \* outcome[p]: what promise p is resolved to, or Pending
          handed,    \* history: the promise returned by each take()
          added      \* history: the elements in the order of add()

vars == <<promises, resolvers, outcome, handed, added>>

TypeOK == /\ promises \in Seq(Nat \ {0})
          /\ resolvers \in Seq(Nat \ {0})
          /\ outcome \in Seq(Element \cup {Pending})
          /\ handed \in Seq(Nat \ {0})
          /\ added \in Seq(Element)

Init == /\ promises = <<>>
        /\ resolvers = <<>>
        /\ outcome = <<>>
        /\ handed = <<>>
        /\ added = <<>>

-----------------------------------------------------------------------------

NewPromise == Len(outcome) + 1

(***************************************************************************)
(* The queue after "if (!array.length) this.addPromise()".  The executor of *)
(* a Promise runs before its constructor returns, so the resolver is in     *)
(* its array before the promise is in the other.                           *)
(***************************************************************************)
WithPromise(missing) ==
    IF missing
    THEN [promises  |-> Append(promises, NewPromise),
          resolvers |-> Append(resolvers, NewPromise),
          outcome   |-> Append(outcome, Pending)]
    ELSE [promises  |-> promises,
          resolvers |-> resolvers,
          outcome   |-> outcome]

\* Mutant of Add: the newest resolver is called instead of the oldest.
AddNewest(e) ==
    LET q == WithPromise(resolvers = <<>>)
        n == Len(q.resolvers)
    IN  /\ Len(added) < MaxAdds
        /\ promises' = q.promises
        /\ resolvers' = SubSeq(q.resolvers, 1, n - 1)
        /\ outcome' = [q.outcome EXCEPT ![q.resolvers[n]] = e]
        /\ added' = Append(added, e)
        /\ UNCHANGED handed

Add(e) ==
    LET q == WithPromise(resolvers = <<>>)
    IN  /\ Len(added) < MaxAdds
        /\ promises' = q.promises
        /\ resolvers' = Tail(q.resolvers)
        /\ outcome' = [q.outcome EXCEPT ![Head(q.resolvers)] = e]
        /\ added' = Append(added, e)
        /\ UNCHANGED handed

\* Mutant of Take: the promise is handed out and left in the array.
TakeKeeps ==
    LET q == WithPromise(promises = <<>>)
    IN  /\ Len(handed) < MaxTakes
        /\ handed' = Append(handed, Head(q.promises))
        /\ promises' = q.promises
        /\ resolvers' = q.resolvers
        /\ outcome' = q.outcome
        /\ UNCHANGED added

Take ==
    LET q == WithPromise(promises = <<>>)
    IN  /\ Len(handed) < MaxTakes
        /\ handed' = Append(handed, Head(q.promises))
        /\ promises' = Tail(q.promises)
        /\ resolvers' = q.resolvers
        /\ outcome' = q.outcome
        /\ UNCHANGED added

Next == Take \/ \E e \in Element : Add(e)

Spec == Init /\ [][Next]_vars

-----------------------------------------------------------------------------

(***************************************************************************)
(* The k-th take() returns a promise of the k-th element: it is resolved   *)
(* to that element as soon as the element has been added, and to nothing   *)
(* before (BlockingQueue.add and take).                                    *)
(***************************************************************************)
KthTakeGetsKthElement ==
    \A k \in DOMAIN handed :
        outcome[handed[k]] = IF k <= Len(added) THEN added[k] ELSE Pending

(***************************************************************************)
(* The inductive invariant: the first Len(handed) promises were handed     *)
(* out and the others wait in order, the first Len(added) ones are         *)
(* resolved and the resolvers of the others wait in order, and no promise  *)
(* was created that neither a take nor an add needed.                      *)
(***************************************************************************)
CountsFrom(s, n) == \A i \in 1 .. Len(s) : s[i] = n + i

PromisesInOrder ==
    /\ Len(promises) = Len(outcome) - Len(handed)
    /\ CountsFrom(promises, Len(handed))
    /\ CountsFrom(handed, 0)

ResolversInOrder ==
    /\ Len(resolvers) = Len(outcome) - Len(added)
    /\ CountsFrom(resolvers, Len(added))

OutcomesInOrder ==
    \A i \in 1 .. Len(outcome) :
        outcome[i] = IF i <= Len(added) THEN added[i] ELSE Pending

NoSpare == Len(outcome) = IF Len(added) >= Len(handed) THEN Len(added)
                                                       ELSE Len(handed)

IInv == /\ TypeOK
        /\ PromisesInOrder
        /\ ResolversInOrder
        /\ OutcomesInOrder
        /\ NoSpare

-----------------------------------------------------------------------------

(***************************************************************************)
(* The queue implements the first-in first-out queue: its contents are the *)
(* resolved promises nobody has taken.                                     *)
(***************************************************************************)
Fifo == INSTANCE FifoQueue
          WITH contents <- [i \in 1 .. Len(promises) |-> outcome[promises[i]]],
               received <- [k \in 1 .. Len(handed) |-> outcome[handed[k]]]

ImplementsFifoQueue == Fifo!Spec
=============================================================================
