------------------------- MODULE BlockingQueueProofs -------------------------
(***************************************************************************)
(* Theorems about common/util/BlockingQueue.ts (module BlockingQueue): the *)
(* inductive invariant, the order property it implies, and the refinement  *)
(* of the first-in first-out queue FifoQueue.                              *)
(***************************************************************************)
EXTENDS BlockingQueue, SequenceTheorems, TLAPS

USE BoundsAreNat

(***************************************************************************)
(* Appending a place holder and overwriting it is appending the element.   *)
(***************************************************************************)
LEMMA OverwriteLast ==
  ASSUME NEW S, NEW s \in Seq(S), NEW x \in S, NEW e \in S
  PROVE  [Append(s, x) EXCEPT ![Len(s) + 1] = e] = Append(s, e)
<1> DEFINE a == Append(s, x)
           l == [a EXCEPT ![Len(s) + 1] = e]
           r == Append(s, e)
<1>1. /\ a \in Seq(S)
      /\ Len(a) = Len(s) + 1
      /\ \A i \in 1 .. Len(s) : a[i] = s[i]
  BY AppendProperties
<1>2. /\ r \in Seq(S)
      /\ Len(r) = Len(s) + 1
      /\ \A i \in 1 .. Len(s) : r[i] = s[i]
      /\ r[Len(s) + 1] = e
  BY AppendProperties
<1>3. Len(s) \in Nat
  OBVIOUS
<1> HIDE DEF a, r
<1>4. /\ l \in Seq(S)
      /\ Len(l) = Len(s) + 1
      /\ \A i \in 1 .. Len(a) : l[i] = IF i = Len(s) + 1 THEN e ELSE a[i]
  <2>1. Len(s) + 1 \in 1 .. Len(a)
    BY <1>1, <1>3
  <2> QED BY <1>1, <2>1, ExceptSeq
<1> HIDE DEF l
<1>5. \A i \in 1 .. Len(s) + 1 : l[i] = r[i]
  BY <1>1, <1>2, <1>3, <1>4
<1>6. l = r
  BY <1>2, <1>4, <1>5, SeqEqual
<1> QED BY <1>6 DEF a, l, r

(***************************************************************************)
(* A sequence that counts up from n keeps counting when its next number is *)
(* appended, and counts from n + 1 when its head is removed.               *)
(***************************************************************************)
LEMMA CountAppend ==
  ASSUME NEW s \in Seq(Nat \ {0}), NEW n \in Nat, CountsFrom(s, n)
  PROVE  CountsFrom(Append(s, n + Len(s) + 1), n)
<1> DEFINE r == Append(s, n + Len(s) + 1)
<1>1. /\ Len(r) = Len(s) + 1 /\ Len(s) \in Nat
      /\ \A i \in 1 .. Len(s) : r[i] = s[i]
      /\ r[Len(s) + 1] = n + Len(s) + 1
  BY AppendProperties
<1> HIDE DEF r
<1>2. ASSUME NEW i \in 1 .. Len(r)
      PROVE  r[i] = n + i
  <2>1. CASE i \in 1 .. Len(s)
    BY <1>1, <2>1 DEF CountsFrom
  <2>2. CASE i = Len(s) + 1
    BY <1>1, <2>2
  <2> QED BY <1>1, <2>1, <2>2
<1>3. CountsFrom(r, n)
  BY <1>2 DEF CountsFrom
<1> QED BY <1>3 DEF r

LEMMA CountTail ==
  ASSUME NEW s \in Seq(Nat \ {0}), NEW n \in Nat, CountsFrom(s, n), s # <<>>
  PROVE  CountsFrom(Tail(s), n + 1)
<1> DEFINE r == Tail(s)
<1>1. Len(r) = Len(s) - 1 /\ \A i \in 1 .. Len(r) : r[i] = s[i + 1]
  BY HeadTailProperties
<1>2. Len(s) \in Nat /\ Len(s) > 0
  OBVIOUS
<1> HIDE DEF r
<1>3. CountsFrom(r, n + 1)
  BY <1>1, <1>2 DEF CountsFrom
<1> QED BY <1>3 DEF r

LEMMA InitIInv == Init => IInv
  BY DEF Init, IInv, TypeOK, PromisesInOrder, ResolversInOrder,
         OutcomesInOrder, NoSpare, CountsFrom

(***************************************************************************)
(* The state after an add() that finds a resolver, and after one that has  *)
(* to create a promise first.                                              *)
(***************************************************************************)
LEMMA AddCases ==
  ASSUME NEW e \in Element, Add(e)
  PROVE  /\ added' = Append(added, e)
         /\ handed' = handed
         /\ resolvers # <<>> =>
               /\ promises' = promises
               /\ resolvers' = Tail(resolvers)
               /\ outcome' = [outcome EXCEPT ![Head(resolvers)] = e]
         /\ resolvers = <<>> =>
               /\ promises' = Append(promises, Len(outcome) + 1)
               /\ resolvers' = Tail(Append(resolvers, Len(outcome) + 1))
               /\ outcome' = [Append(outcome, Pending) EXCEPT
                                ![Head(Append(resolvers, Len(outcome) + 1))] = e]
  BY Zenon DEF Add, WithPromise, NewPromise

LEMMA TakeCases ==
  ASSUME Take
  PROVE  /\ added' = added
         /\ promises # <<>> =>
               /\ handed' = Append(handed, Head(promises))
               /\ promises' = Tail(promises)
               /\ resolvers' = resolvers
               /\ outcome' = outcome
         /\ promises = <<>> =>
               /\ handed' = Append(handed, Head(Append(promises, Len(outcome) + 1)))
               /\ promises' = Tail(Append(promises, Len(outcome) + 1))
               /\ resolvers' = Append(resolvers, Len(outcome) + 1)
               /\ outcome' = Append(outcome, Pending)
  BY Zenon DEF Take, WithPromise, NewPromise

LEMMA AddToEmpty ==
  ASSUME TypeOK, NEW e \in Element, Add(e), resolvers = <<>>
  PROVE  /\ promises' = Append(promises, Len(outcome) + 1)
         /\ resolvers' = <<>>
         /\ outcome' = Append(outcome, e)
<1> DEFINE p == Len(outcome) + 1
<1>1. outcome \in Seq(Element \cup {Pending}) /\ p \in Nat
  BY DEF TypeOK
<1>2. Head(Append(<<>>, p)) = p /\ Tail(Append(<<>>, p)) = <<>>
  BY <1>1
<1>3. [Append(outcome, Pending) EXCEPT ![p] = e] = Append(outcome, e)
  BY <1>1, OverwriteLast
<1> HIDE DEF p
<1>4. /\ promises' = Append(promises, p)
      /\ resolvers' = Tail(Append(<<>>, p))
      /\ outcome' = [Append(outcome, Pending) EXCEPT ![Head(Append(<<>>, p))] = e]
  BY AddCases, Zenon DEF p
<1> QED BY <1>2, <1>3, <1>4 DEF p

LEMMA AddIInv ==
  ASSUME IInv, NEW e \in Element, Add(e)
  PROVE  IInv'
<1>1. /\ TypeOK
      /\ Len(promises) \in Nat /\ Len(resolvers) \in Nat
      /\ Len(outcome) \in Nat /\ Len(handed) \in Nat /\ Len(added) \in Nat
  BY DEF IInv, TypeOK
<1>2. /\ added' = Append(added, e)
      /\ handed' = handed
  BY AddCases
<1>3. /\ added' \in Seq(Element)
      /\ Len(added') = Len(added) + 1
      /\ \A i \in 1 .. Len(added) : added'[i] = added[i]
      /\ added'[Len(added) + 1] = e
  BY <1>1, <1>2, AppendProperties DEF TypeOK
<1>4. CASE resolvers # <<>>
  <2> DEFINE k == Len(added) + 1
  <2>1. Head(resolvers) = k /\ k \in 1 .. Len(outcome)
    BY <1>1, <1>4 DEF IInv, TypeOK, ResolversInOrder, CountsFrom
  <2>2. /\ promises' = promises
        /\ resolvers' = Tail(resolvers)
        /\ outcome' = [outcome EXCEPT ![k] = e]
    BY <1>4, <2>1, AddCases
  <2>3. /\ outcome' \in Seq(Element \cup {Pending})
        /\ Len(outcome') = Len(outcome)
        /\ \A i \in 1 .. Len(outcome) :
              outcome'[i] = IF i = k THEN e ELSE outcome[i]
    BY <1>1, <2>1, <2>2, ExceptSeq DEF TypeOK
  <2>4. resolvers' \in Seq(Nat \ {0}) /\ Len(resolvers') = Len(resolvers) - 1
    BY <1>1, <1>4, <2>2, HeadTailProperties DEF TypeOK
  <2>5. TypeOK'
    BY <1>1, <1>2, <1>3, <2>2, <2>3, <2>4 DEF TypeOK
  <2>6. PromisesInOrder'
    BY <1>2, <2>2, <2>3 DEF IInv, PromisesInOrder
  <2>7. ResolversInOrder'
    <3>1. CountsFrom(resolvers', Len(added) + 1)
      BY <1>1, <1>4, <2>2, CountTail DEF IInv, TypeOK, ResolversInOrder
    <3> QED BY <1>1, <1>3, <2>3, <2>4, <3>1 DEF IInv, ResolversInOrder
  <2>8. OutcomesInOrder'
    BY <1>1, <1>3, <2>1, <2>3 DEF IInv, OutcomesInOrder
  <2>9. NoSpare'
    BY <1>1, <1>2, <1>3, <2>1, <2>3 DEF IInv, NoSpare
  <2> QED BY <2>5, <2>6, <2>7, <2>8, <2>9 DEF IInv
<1>5. CASE resolvers = <<>>
  <2>1. /\ promises' = Append(promises, Len(outcome) + 1)
        /\ resolvers' = <<>>
        /\ outcome' = Append(outcome, e)
    BY <1>1, <1>5, AddToEmpty
  <2>2. Len(outcome) = Len(added)
    BY <1>1, <1>5 DEF IInv, ResolversInOrder
  <2>3. /\ outcome' \in Seq(Element \cup {Pending})
        /\ Len(outcome') = Len(outcome) + 1
        /\ \A i \in 1 .. Len(outcome) : outcome'[i] = outcome[i]
        /\ outcome'[Len(outcome) + 1] = e
    BY <1>1, <2>1, AppendProperties DEF TypeOK
  <2>4. promises' \in Seq(Nat \ {0}) /\ Len(promises') = Len(promises) + 1
    BY <1>1, <2>1, AppendProperties DEF TypeOK
  <2>5. TypeOK'
    BY <1>1, <1>2, <1>3, <2>1, <2>3, <2>4 DEF TypeOK
  <2>6. PromisesInOrder'
    <3>1. Len(outcome) + 1 = Len(handed) + Len(promises) + 1
      BY <1>1 DEF IInv, PromisesInOrder
    <3>2. CountsFrom(promises', Len(handed))
      BY <1>1, <2>1, <3>1, CountAppend DEF IInv, TypeOK, PromisesInOrder
    <3> QED BY <1>1, <1>2, <2>3, <2>4, <3>2 DEF IInv, PromisesInOrder
  <2>7. ResolversInOrder'
    BY <1>1, <1>3, <2>1, <2>2, <2>3 DEF ResolversInOrder, CountsFrom
  <2>8. OutcomesInOrder'
    BY <1>1, <1>3, <2>2, <2>3 DEF IInv, OutcomesInOrder
  <2>9. NoSpare'
    BY <1>1, <1>2, <1>3, <2>2, <2>3 DEF IInv, NoSpare
  <2> QED BY <2>5, <2>6, <2>7, <2>8, <2>9 DEF IInv
<1> QED BY <1>4, <1>5

LEMMA TakeIInv ==
  ASSUME IInv, Take
  PROVE  IInv'
<1>1. /\ TypeOK
      /\ Len(promises) \in Nat /\ Len(resolvers) \in Nat
      /\ Len(outcome) \in Nat /\ Len(handed) \in Nat /\ Len(added) \in Nat
  BY DEF IInv, TypeOK
<1>2. added' = added
  BY TakeCases
<1>3. handed' = Append(handed, Len(handed) + 1)
  <2>1. CASE promises # <<>>
    <3>1. Head(promises) = Len(handed) + 1
      BY <1>1, <2>1 DEF IInv, TypeOK, PromisesInOrder, CountsFrom
    <3> QED BY <2>1, <3>1, TakeCases
  <2>2. CASE promises = <<>>
    <3>1. Len(outcome) = Len(handed)
      BY <1>1, <2>2 DEF IInv, PromisesInOrder
    <3>2. Head(Append(promises, Len(outcome) + 1)) = Len(handed) + 1
      BY <1>1, <2>2, <3>1
    <3> QED BY <2>2, <3>2, TakeCases
  <2> QED BY <2>1, <2>2
<1>4. /\ handed' \in Seq(Nat \ {0})
      /\ Len(handed') = Len(handed) + 1
  BY <1>1, <1>3, AppendProperties DEF TypeOK
<1>5. CountsFrom(handed', 0)
  <2>1. Len(handed) + 1 = 0 + Len(handed) + 1
    BY <1>1
  <2> QED BY <1>1, <1>3, <2>1, CountAppend DEF IInv, TypeOK, PromisesInOrder
<1>6. CASE promises # <<>>
  <2>1. promises' = Tail(promises) /\ resolvers' = resolvers /\ outcome' = outcome
    BY <1>6, TakeCases
  <2>2. /\ promises' \in Seq(Nat \ {0})
        /\ Len(promises') = Len(promises) - 1
        /\ CountsFrom(promises', Len(handed) + 1)
    BY <1>1, <1>6, <2>1, HeadTailProperties, CountTail
       DEF IInv, TypeOK, PromisesInOrder
  <2>3. TypeOK'
    BY <1>1, <1>2, <1>4, <2>1, <2>2 DEF TypeOK
  <2>4. PromisesInOrder'
    BY <1>1, <1>4, <1>5, <2>1, <2>2 DEF IInv, PromisesInOrder
  <2>5. ResolversInOrder' /\ OutcomesInOrder'
    BY <1>2, <2>1 DEF IInv, ResolversInOrder, OutcomesInOrder
  <2>6. NoSpare'
    <3>1. Len(promises) > 0
      BY <1>1, <1>6 DEF TypeOK
    <3>2. Len(handed) + 1 <= Len(outcome)
      BY <1>1, <3>1 DEF IInv, PromisesInOrder
    <3> QED BY <1>1, <1>2, <1>4, <2>1, <3>2 DEF IInv, NoSpare
  <2> QED BY <2>3, <2>4, <2>5, <2>6 DEF IInv
<1>7. CASE promises = <<>>
  <2>1. /\ promises' = <<>>
        /\ resolvers' = Append(resolvers, Len(outcome) + 1)
        /\ outcome' = Append(outcome, Pending)
    <3>1. Tail(Append(<<>>, Len(outcome) + 1)) = <<>>
      BY <1>1
    <3> QED BY <1>7, <3>1, TakeCases
  <2>2. Len(outcome) = Len(handed)
    BY <1>1, <1>7 DEF IInv, PromisesInOrder
  <2>3. /\ outcome' \in Seq(Element \cup {Pending})
        /\ Len(outcome') = Len(outcome) + 1
        /\ \A i \in 1 .. Len(outcome) : outcome'[i] = outcome[i]
        /\ outcome'[Len(outcome) + 1] = Pending
    BY <1>1, <2>1, AppendProperties DEF TypeOK
  <2>4. resolvers' \in Seq(Nat \ {0}) /\ Len(resolvers') = Len(resolvers) + 1
    BY <1>1, <2>1, AppendProperties DEF TypeOK
  <2>5. TypeOK'
    BY <1>1, <1>2, <1>4, <2>1, <2>3, <2>4 DEF TypeOK
  <2>6. PromisesInOrder'
    BY <1>1, <1>4, <1>5, <2>1, <2>2, <2>3 DEF PromisesInOrder, CountsFrom
  <2>7. ResolversInOrder'
    <3>1. Len(outcome) + 1 = Len(added) + Len(resolvers) + 1
      BY <1>1 DEF IInv, ResolversInOrder
    <3>2. CountsFrom(resolvers', Len(added))
      BY <1>1, <2>1, <3>1, CountAppend DEF IInv, TypeOK, ResolversInOrder
    <3> QED BY <1>1, <1>2, <2>3, <2>4, <3>2 DEF IInv, ResolversInOrder
  <2>8. OutcomesInOrder'
    BY <1>1, <1>2, <2>2, <2>3 DEF IInv, OutcomesInOrder, NoSpare
  <2>9. NoSpare'
    BY <1>1, <1>2, <1>4, <2>2, <2>3 DEF IInv, NoSpare
  <2> QED BY <2>5, <2>6, <2>7, <2>8, <2>9 DEF IInv
<1> QED BY <1>6, <1>7

(***************************************************************************)
(* The invariant holds in every reachable state, for any elements and any  *)
(* number of calls of add() and take().                                    *)
(***************************************************************************)
THEOREM Invariance == Spec => []IInv
<1>1. IInv /\ [Next]_vars => IInv'
  <2> SUFFICES ASSUME IInv, [Next]_vars
               PROVE  IInv'
    OBVIOUS
  <2>1. CASE Take
    BY <2>1, TakeIInv
  <2>2. CASE \E e \in Element : Add(e)
    BY <2>2, AddIInv
  <2>3. CASE UNCHANGED vars
    BY <2>3 DEF vars, IInv, TypeOK, PromisesInOrder, ResolversInOrder,
                OutcomesInOrder, NoSpare, CountsFrom
  <2> QED BY <2>1, <2>2, <2>3 DEF Next
<1> QED BY InitIInv, <1>1, PTL DEF Spec

(***************************************************************************)
(* The promise returned by the k-th take() of BlockingQueue.ts resolves to *)
(* the argument of the k-th add(), and to nothing before it.               *)
(***************************************************************************)
THEOREM TakesInOrder == Spec => []KthTakeGetsKthElement
<1>1. IInv => KthTakeGetsKthElement
  <2> SUFFICES ASSUME IInv, NEW k \in DOMAIN handed
               PROVE  outcome[handed[k]] =
                        IF k <= Len(added) THEN added[k] ELSE Pending
    BY DEF KthTakeGetsKthElement
  <2>1. k \in 1 .. Len(handed) /\ Len(handed) <= Len(outcome)
    BY DEF IInv, TypeOK, NoSpare
  <2>2. handed[k] = k /\ k \in 1 .. Len(outcome)
    BY <2>1 DEF IInv, TypeOK, PromisesInOrder, CountsFrom
  <2> QED BY <2>2 DEF IInv, OutcomesInOrder
<1> QED BY Invariance, <1>1, PTL

-----------------------------------------------------------------------------

(***************************************************************************)
(* The two variables of FifoQueue, as the invariant determines them.       *)
(***************************************************************************)
Contents == [i \in 1 .. Len(promises) |-> outcome[promises[i]]]
Received == [k \in 1 .. Len(handed) |-> outcome[handed[k]]]

LEMMA MappedState ==
  ASSUME IInv
  PROVE  /\ Len(promises) \in Nat /\ Len(handed) \in Nat
         /\ Contents \in Seq(Element \cup {Pending})
         /\ Len(Contents) = Len(promises)
         /\ \A i \in 1 .. Len(promises) :
               /\ promises[i] = Len(handed) + i
               /\ promises[i] \in 1 .. Len(outcome)
               /\ Contents[i] = outcome[promises[i]]
         /\ Received \in Seq(Element \cup {Pending})
         /\ Len(Received) = Len(handed)
         /\ DOMAIN Received = 1 .. Len(handed)
         /\ \A k \in 1 .. Len(handed) :
               /\ handed[k] = k
               /\ k \in 1 .. Len(outcome)
               /\ Received[k] = outcome[k]
<1>1. /\ Len(promises) \in Nat /\ Len(handed) \in Nat /\ Len(outcome) \in Nat
      /\ \A i \in 1 .. Len(outcome) : outcome[i] \in Element \cup {Pending}
  BY DEF IInv, TypeOK
<1>2. \A i \in 1 .. Len(promises) :
         promises[i] = Len(handed) + i /\ promises[i] \in 1 .. Len(outcome)
  BY <1>1 DEF IInv, PromisesInOrder, CountsFrom
<1>3. \A k \in 1 .. Len(handed) : handed[k] = k /\ k \in 1 .. Len(outcome)
  <2>1. \A k \in 1 .. Len(handed) : handed[k] = 0 + k
    BY DEF IInv, PromisesInOrder, CountsFrom
  <2>2. Len(outcome) - Len(handed) \in Nat
    BY <1>1 DEF IInv, PromisesInOrder
  <2> QED BY <1>1, <2>1, <2>2
<1>4. Contents \in Seq(Element \cup {Pending}) /\ Len(Contents) = Len(promises)
  BY <1>1, <1>2 DEF Contents
<1>5. /\ Received \in Seq(Element \cup {Pending})
      /\ Len(Received) = Len(handed)
      /\ DOMAIN Received = 1 .. Len(handed)
  BY <1>1, <1>3 DEF Received
<1>6. \A i \in 1 .. Len(promises) : Contents[i] = outcome[promises[i]]
  BY DEF Contents
<1>7. \A k \in 1 .. Len(handed) : Received[k] = outcome[k]
  BY <1>3 DEF Received
<1> QED BY <1>1, <1>2, <1>3, <1>4, <1>5, <1>6, <1>7

(***************************************************************************)
(* A resolved promise holds what was added: never Pending.                 *)
(***************************************************************************)
LEMMA ResolvedNotPending ==
  ASSUME IInv
  PROVE  \A j \in 1 .. Len(outcome) : j <= Len(added) => outcome[j] # Pending
<1>1. Len(outcome) \in Nat /\ Len(added) \in Nat
      /\ \A j \in 1 .. Len(added) : added[j] \in Element
  BY DEF IInv, TypeOK
<1> QED BY <1>1, PendingIsNoElement DEF IInv, OutcomesInOrder

LEMMA AddRefines ==
  ASSUME IInv, NEW e \in Element, Add(e)
  PROVE  Fifo!Add(e)
<1>1. IInv'
  BY AddIInv
<1>2. /\ added' = Append(added, e)
      /\ handed' = handed
  BY AddCases
<1>3. TypeOK /\ Len(outcome) \in Nat /\ Len(added) \in Nat /\ Len(handed) \in Nat
      /\ Len(promises) \in Nat /\ Len(resolvers) \in Nat
  BY DEF IInv, TypeOK
<1>4. CASE resolvers # <<>>
  <2> DEFINE k == Len(added) + 1
  <2>1. Len(resolvers) > 0
    BY <1>3, <1>4 DEF TypeOK
  <2>2. Head(resolvers) = k /\ k \in 1 .. Len(outcome)
    BY <1>3, <1>4, <2>1 DEF IInv, TypeOK, ResolversInOrder, CountsFrom
  <2>3. /\ promises' = promises
        /\ outcome' = [outcome EXCEPT ![k] = e]
    BY <1>4, <2>2, AddCases
  <2>4. k \in 1 .. Len(handed) /\ promises = <<>>
    <3>1. Len(outcome) = Len(handed)
      BY <1>3, <2>2 DEF IInv, NoSpare
    <3>2. Len(promises) = 0
      BY <1>3, <3>1 DEF IInv, PromisesInOrder
    <3> QED BY <1>3, <2>2, <3>1, <3>2 DEF TypeOK
  <2>5. Received[k] = Pending
    BY <1>3, <2>2, <2>4, MappedState DEF IInv, OutcomesInOrder
  <2>6. \A j \in 1 .. k - 1 : Received[j] # Pending
    BY <1>3, <2>2, <2>4, MappedState, ResolvedNotPending
  <2>7. Received' = [Received EXCEPT ![k] = e]
    <3>1. \A j \in 1 .. Len(handed) :
             outcome'[handed[j]] = IF j = k THEN e ELSE outcome[handed[j]]
      BY <1>3, <2>2, <2>3, MappedState DEF TypeOK
    <3> HIDE DEF k
    <3> QED BY <1>2, <3>1, <2>4 DEF Received
  <2>8. Contents' = Contents
    <3>1. Contents = <<>>
      BY <2>4 DEF Contents
    <3>2. Contents' = <<>>
      BY <2>3, <2>4 DEF Contents
    <3> QED BY <3>1, <3>2
  <2>9. k \in DOMAIN Received
    BY <2>4, MappedState
  <2> HIDE DEF k
  <2> QED BY <2>5, <2>6, <2>7, <2>8, <2>9
          DEF Fifo!Add, Fifo!FirstWaiting, Contents, Received
<1>5. CASE resolvers = <<>>
  <2>1. /\ promises' = Append(promises, Len(outcome) + 1)
        /\ outcome' = Append(outcome, e)
    BY <1>3, <1>5, AddToEmpty
  <2>2. /\ outcome' \in Seq(Element \cup {Pending})
        /\ \A i \in 1 .. Len(outcome) : outcome'[i] = outcome[i]
        /\ outcome'[Len(outcome) + 1] = e
    BY <1>3, <2>1, AppendProperties DEF TypeOK
  <2>3. /\ promises' \in Seq(Nat \ {0})
        /\ Len(promises') = Len(promises) + 1
        /\ \A i \in 1 .. Len(promises) : promises'[i] = promises[i]
        /\ promises'[Len(promises) + 1] = Len(outcome) + 1
    BY <1>3, <2>1, AppendProperties DEF TypeOK
  <2>4. \A j \in DOMAIN Received : Received[j] # Pending
    <3>1. Len(outcome) = Len(added)
      BY <1>3, <1>5 DEF IInv, ResolversInOrder
    <3> QED BY <1>3, <3>1, MappedState, ResolvedNotPending
  <2>5. Received' = Received
    <3>1. \A j \in 1 .. Len(handed) : outcome'[handed[j]] = outcome[handed[j]]
      BY <2>2, MappedState
    <3> QED BY <3>1, <1>2 DEF Received
  <2>6. Contents' = Append(Contents, e)
    <3> DEFINE c == Append(Contents, e)
    <3>1. /\ c \in Seq(Element \cup {Pending})
          /\ Len(c) = Len(promises) + 1
          /\ \A i \in 1 .. Len(promises) : c[i] = Contents[i]
          /\ c[Len(promises) + 1] = e
      BY MappedState, AppendProperties
    <3>2. /\ Contents' \in Seq(Element \cup {Pending})
          /\ Len(Contents') = Len(promises) + 1
      <4>1. \A i \in 1 .. Len(promises) + 1 :
               outcome'[promises'[i]] \in Element \cup {Pending}
        <5>1. \A i \in 1 .. Len(promises) :
                 outcome'[promises'[i]] \in Element \cup {Pending}
          <6>1. \A i \in 1 .. Len(promises) :
                   /\ outcome'[promises'[i]] = outcome[promises[i]]
                   /\ promises[i] \in 1 .. Len(outcome)
            BY <2>2, <2>3, MappedState
          <6>2. \A j \in 1 .. Len(outcome) : outcome[j] \in Element \cup {Pending}
            BY <1>3 DEF TypeOK
          <6> QED BY <6>1, <6>2
        <5>2. outcome'[promises'[Len(promises) + 1]] = e
          BY <2>2, <2>3
        <5> QED BY <1>3, <5>1, <5>2
      <4> QED BY <1>3, <2>3, <4>1 DEF Contents
    <3>3. \A i \in 1 .. Len(promises) : Contents'[i] = Contents[i]
      BY <1>3, <2>2, <2>3, MappedState DEF Contents
    <3>4. Contents'[Len(promises) + 1] = e
      BY <1>3, <2>2, <2>3 DEF Contents
    <3>5. \A i \in 1 .. Len(promises) + 1 : Contents'[i] = c[i]
      BY <1>3, <3>1, <3>3, <3>4
    <3> HIDE DEF c
    <3>6. Contents' = c
      BY <3>1, <3>2, <3>5, SeqEqual
    <3> QED BY <3>6 DEF c
  <2> QED BY <2>4, <2>5, <2>6 DEF Fifo!Add, Contents, Received
<1> QED BY <1>4, <1>5

LEMMA TakeRefines ==
  ASSUME IInv, Take
  PROVE  Fifo!Take
<1>1. IInv'
  BY TakeIInv
<1>2. TypeOK /\ Len(outcome) \in Nat /\ Len(handed) \in Nat /\ Len(promises) \in Nat
  BY DEF IInv, TypeOK
<1>3. /\ handed' = Append(handed, Len(handed) + 1)
      /\ handed'[Len(handed) + 1] = Len(handed) + 1
      /\ \A k \in 1 .. Len(handed) : handed'[k] = handed[k]
      /\ Len(handed') = Len(handed) + 1
  <2>1. handed' = Append(handed, Len(handed) + 1)
    <3>1. CASE promises # <<>>
      <4>1. Head(promises) = promises[1] /\ 1 \in 1 .. Len(promises)
        BY <1>2, <3>1 DEF TypeOK
      <4>2. Head(promises) = Len(handed) + 1
        BY <4>1, MappedState
      <4> QED BY <3>1, <4>2, TakeCases
    <3>2. CASE promises = <<>>
      <4>1. Len(outcome) = Len(handed)
        BY <1>2, <3>2 DEF IInv, PromisesInOrder
      <4>2. Head(Append(promises, Len(outcome) + 1)) = Len(handed) + 1
        BY <1>2, <3>2, <4>1
      <4> QED BY <3>2, <4>2, TakeCases
    <3> QED BY <3>1, <3>2
  <2> QED BY <1>2, <2>1, AppendProperties DEF TypeOK
<1>4. ASSUME NEW x \in Element \cup {Pending},
             outcome'[Len(handed) + 1] = x,
             \A k \in 1 .. Len(handed) : outcome'[k] = outcome[k]
      PROVE  Received' = Append(Received, x)
  <2> DEFINE r == Append(Received, x)
  <2>1. /\ r \in Seq(Element \cup {Pending})
        /\ Len(r) = Len(handed) + 1
        /\ \A k \in 1 .. Len(handed) : r[k] = Received[k]
        /\ r[Len(handed) + 1] = x
    BY MappedState, AppendProperties
  <2>2. Received' \in Seq(Element \cup {Pending}) /\ Len(Received') = Len(handed) + 1
    <3>1. \A k \in 1 .. Len(handed) : Received[k] \in Element \cup {Pending}
      BY MappedState, ElementOfSeq
    <3>2. \A k \in 1 .. Len(handed) :
             outcome'[handed'[k]] = Received[k]
      BY <1>3, <1>4, MappedState
    <3>3. outcome'[handed'[Len(handed) + 1]] = x
      BY <1>3, <1>4
    <3>4. \A k \in 1 .. Len(handed) + 1 :
             outcome'[handed'[k]] \in Element \cup {Pending}
      BY <1>2, <3>1, <3>2, <3>3
    <3> QED BY <1>2, <1>3, <3>4 DEF Received
  <2>3. \A k \in 1 .. Len(handed) : Received'[k] = Received[k]
    <3>1. \A k \in 1 .. Len(handed) : Received'[k] = outcome'[handed'[k]]
      BY <1>2, <1>3 DEF Received
    <3> QED BY <1>3, <1>4, <3>1, MappedState
  <2>4. Received'[Len(handed) + 1] = x
    BY <1>2, <1>3, <1>4 DEF Received
  <2>5. \A k \in 1 .. Len(handed) + 1 : Received'[k] = r[k]
    BY <1>2, <2>1, <2>3, <2>4
  <2> HIDE DEF r
  <2>6. Received' = r
    BY <2>1, <2>2, <2>5, SeqEqual
  <2> QED BY <2>6 DEF r
<1>5. CASE promises # <<>>
  <2>1. promises' = Tail(promises) /\ outcome' = outcome
    BY <1>5, TakeCases
  <2>2. Len(promises) > 0 /\ 1 \in 1 .. Len(promises)
    BY <1>2, <1>5 DEF TypeOK
  <2>3. /\ Head(Contents) = outcome[Len(handed) + 1]
        /\ Head(Contents) \in Element \cup {Pending}
        /\ Contents # <<>>
    BY <1>2, <2>2, MappedState
  <2>4. Received' = Append(Received, Head(Contents))
    BY <1>4, <2>1, <2>3
  <2>5. Contents' = Tail(Contents)
    <3> DEFINE c == Tail(Contents)
    <3>1. /\ c \in Seq(Element \cup {Pending})
          /\ Len(c) = Len(promises) - 1
          /\ \A i \in 1 .. Len(promises) - 1 : c[i] = Contents[i + 1]
      BY <2>3, MappedState, HeadTailProperties
    <3>2. /\ Len(promises') = Len(promises) - 1
          /\ \A i \in 1 .. Len(promises) - 1 : promises'[i] = promises[i + 1]
      BY <1>2, <1>5, <2>1, HeadTailProperties DEF TypeOK
    <3>3. \A i \in 1 .. Len(promises) - 1 :
             /\ outcome'[promises'[i]] = Contents[i + 1]
             /\ Contents[i + 1] \in Element \cup {Pending}
      <4>1. \A i \in 1 .. Len(promises) : Contents[i] \in Element \cup {Pending}
        BY MappedState, ElementOfSeq
      <4> QED BY <1>2, <2>1, <3>2, <4>1, MappedState
    <3>4. /\ Contents' \in Seq(Element \cup {Pending})
          /\ Len(Contents') = Len(promises) - 1
      <4> DEFINE n == Len(promises) - 1
                 f == [i \in 1 .. n |-> outcome'[promises'[i]]]
      <4>1. n \in Nat /\ Contents' = f
        BY <1>2, <2>2, <3>2 DEF Contents
      <4>2. f \in Seq(Element \cup {Pending}) /\ Len(f) = n
        BY <4>1, <3>3
      <4> QED BY <4>1, <4>2
    <3>5. \A i \in 1 .. Len(promises) - 1 : Contents'[i] = c[i]
      BY <1>2, <3>1, <3>2, <3>3 DEF Contents
    <3> HIDE DEF c
    <3>6. Contents' = c
      BY <3>1, <3>4, <3>5, SeqEqual
    <3> QED BY <3>6 DEF c
  <2> QED BY <2>3, <2>4, <2>5 DEF Fifo!Take, Contents, Received
<1>6. CASE promises = <<>>
  <2>1. /\ promises' = <<>>
        /\ outcome' = Append(outcome, Pending)
    <3>1. Tail(Append(<<>>, Len(outcome) + 1)) = <<>>
      BY <1>2
    <3> QED BY <1>6, <3>1, TakeCases
  <2>2. Len(outcome) = Len(handed)
    BY <1>2, <1>6 DEF IInv, PromisesInOrder
  <2>3. /\ \A i \in 1 .. Len(outcome) : outcome'[i] = outcome[i]
        /\ outcome'[Len(outcome) + 1] = Pending
    BY <1>2, <2>1, AppendProperties DEF TypeOK
  <2>4. Received' = Append(Received, Pending)
    BY <1>4, <2>2, <2>3
  <2>5. Contents = <<>> /\ Contents' = <<>>
    BY <1>6, <2>1 DEF Contents
  <2> QED BY <2>4, <2>5 DEF Fifo!Take, Contents, Received
<1> QED BY <1>5, <1>6

(***************************************************************************)
(* BlockingQueue.ts behaves as a first-in first-out queue, for any         *)
(* elements and any number of calls of add() and take().                   *)
(***************************************************************************)
THEOREM Refinement == Spec => ImplementsFifoQueue
<1>1. Init => Fifo!Init
  BY DEF Init, Fifo!Init
<1>2. IInv /\ [Next]_vars => [Fifo!Next]_(Fifo!vars)
  <2> SUFFICES ASSUME IInv, [Next]_vars
               PROVE  [Fifo!Next]_(Fifo!vars)
    OBVIOUS
  <2>1. CASE Take
    BY <2>1, TakeRefines DEF Fifo!Next
  <2>2. CASE \E e \in Element : Add(e)
    BY <2>2, AddRefines DEF Fifo!Next
  <2>3. CASE UNCHANGED vars
    BY <2>3 DEF vars, Fifo!vars
  <2> QED BY <2>1, <2>2, <2>3 DEF Next
<1> QED BY Invariance, <1>1, <1>2, PTL DEF Spec, ImplementsFifoQueue, Fifo!Spec

=============================================================================
