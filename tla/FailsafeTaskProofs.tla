-------------------------- MODULE FailsafeTaskProofs --------------------------
(***************************************************************************)
(* Theorems about the failsafe tasks (module FailsafeTask), for any tasks, *)
(* any replica lists, any errors and any bounds on the retries: how often  *)
(* they attempt, after what, and where.                                    *)
(***************************************************************************)
EXTENDS FailsafeTask, SequenceTheorems, FiniteSetTheorems, WellFoundedInduction, TLAPS

-----------------------------------------------------------------------------
(* The first, and the latest, of a list *)

(***************************************************************************)
(* First returns the least number of a set that is not empty.              *)
(***************************************************************************)
LEMMA FirstIsLeast ==
  ASSUME NEW S \in SUBSET Nat, S # {}
  PROVE  First(S) \in S /\ \A j \in S : First(S) <= j
<1>1. PICK i \in S : \A j \in S : <<j, i>> \notin OpToRel(<, Nat)
  BY NatLessThanWellFounded, WFMin
<1>2. ASSUME NEW j \in S
      PROVE  i <= j
  <2>1. j < i => <<j, i>> \in OpToRel(<, Nat)
    BY Zenon DEF OpToRel
  <2>2. ~(j < i)
    BY <1>1, <2>1, Zenon
  <2> QED BY <2>2
<1> QED BY <1>2 DEF First

(***************************************************************************)
(* Induction over the natural numbers, for a set.                          *)
(***************************************************************************)
LEMMA SetInduction ==
  ASSUME NEW S \in SUBSET Nat, 0 \in S, \A n \in S : n + 1 \in S
  PROVE  S = Nat
<1>1. SUFFICES ASSUME Nat \ S # {}
               PROVE  FALSE
  OBVIOUS
<1> DEFINE k == First(Nat \ S)
<1>2. k \in Nat \ S /\ \A j \in Nat \ S : k <= j
  BY <1>1, FirstIsLeast
<1>3. k # 0 /\ k - 1 \in Nat /\ k - 1 \in S
  BY <1>2
<1> QED BY <1>2, <1>3

(***************************************************************************)
(* Finitely many numbers have a largest one: among places in a list, one   *)
(* has the highest value.                                                  *)
(***************************************************************************)
LEMMA HighestExists ==
  ASSUME NEW n \in Nat, NEW P \in SUBSET (1 .. n), P # {}, NEW v \in [P -> Nat]
  PROVE  \E i \in P : \A j \in P : v[j] <= v[i]
<1> DEFINE Bounded == {k \in Nat : \E b \in Nat : \A j \in P : j <= k => v[j] <= b}
<1>1. 0 \in Bounded
  OBVIOUS
<1>2. ASSUME NEW k \in Bounded
      PROVE  k + 1 \in Bounded
  <2>1. PICK b \in Nat : \A j \in P : j <= k => v[j] <= b
    OBVIOUS
  <2>2. CASE k + 1 \in P
    <3> DEFINE c == IF v[k + 1] <= b THEN b ELSE v[k + 1]
    <3>1. c \in Nat /\ \A j \in P : j <= k + 1 => v[j] <= c
      BY <2>1, <2>2
    <3> QED BY <3>1
  <2>3. CASE k + 1 \notin P
    <3>1. \A j \in P : j <= k + 1 => v[j] <= b
      BY <2>1, <2>3
    <3> QED BY <3>1
  <2> QED BY <2>2, <2>3
<1>3. Bounded = Nat
  <2> HIDE DEF Bounded
  <2>1. Bounded \in SUBSET Nat
    BY DEF Bounded
  <2> QED BY <1>1, <1>2, <2>1, SetInduction
<1> DEFINE Bounds == {b \in Nat : \A j \in P : v[j] <= b}
<1>4. Bounds # {}
  <2>1. n \in Bounded
    BY <1>3
  <2>2. PICK b \in Nat : \A j \in P : j <= n => v[j] <= b
    BY <2>1
  <2>3. b \in Bounds
    BY <2>2
  <2> QED BY <2>3
<1> DEFINE least == First(Bounds)
<1>5. least \in Bounds /\ \A b \in Bounds : least <= b
  BY <1>4, FirstIsLeast
<1>6. \E i \in P : v[i] = least
  <2>1. SUFFICES ASSUME \A i \in P : v[i] # least
                 PROVE  FALSE
    OBVIOUS
  <2>2. \A i \in P : v[i] < least
    BY <1>5, <2>1
  <2>3. least \in Nat /\ least - 1 \in Nat
    <3>1. PICK i \in P : TRUE
      OBVIOUS
    <3>2. least \in Nat
      BY <1>5
    <3> QED BY <2>2, <3>1, <3>2
  <2>4. \A j \in P : v[j] <= least - 1
    <3> HIDE DEF least
    <3> QED BY <2>2, <2>3
  <2>5. least - 1 \in Bounds
    BY <2>3, <2>4
  <2>6. least <= least - 1
    BY <1>5, <2>5
  <2> QED BY <2>3, <2>6
<1> QED BY <1>5, <1>6

-----------------------------------------------------------------------------
(* The replicas of a list *)

LEMMA ListTypes ==
  ASSUME NEW db \in Infos
  PROVE  /\ Len(db) \in Nat \ {0} /\ DOMAIN db = 1 .. Len(db)
         /\ \A i \in DOMAIN db : /\ db[i] \in Replica /\ db[i] # None
                                 /\ db[i].term \in Nat
<1>1. db \in Seq(Replica) /\ db # <<>>
  BY FailsafeAssumption
<1>2. Len(db) \in Nat \ {0} /\ DOMAIN db = 1 .. Len(db)
  BY <1>1, LenProperties, EmptySeq
<1>3. \A i \in DOMAIN db : db[i] \in Replica
  BY <1>1, <1>2, ElementOfSeq
<1> QED BY <1>2, <1>3, FailsafeAssumption

(***************************************************************************)
(* primaryReplica is null exactly for a list without a primary; otherwise  *)
(* it is a primary of the list, and none of a later term is in there.      *)
(***************************************************************************)
LEMMA PrimaryIsLatest ==
  ASSUME NEW db \in Infos
  PROVE  \/ PrimaryReplica(db) = None
         \/ \E i \in DOMAIN db :
               /\ PrimaryReplica(db) = db[i] /\ db[i].primary
               /\ \A j \in DOMAIN db : db[j].primary => db[j].term <= db[i].term
<1> SUFFICES ASSUME Primaries(db) # {}
             PROVE  \E i \in Primaries(db) :
                       /\ PrimaryReplica(db) = db[i]
                       /\ \A j \in Primaries(db) : db[j].term <= db[i].term
  BY DEF PrimaryReplica, Primaries
<1> DEFINE P == Primaries(db)
           v == [i \in P |-> db[i].term]
           L == {i \in P : \A j \in P : db[j].term <= db[i].term}
<1>1. /\ Len(db) \in Nat /\ P \in SUBSET (1 .. Len(db))
      /\ v \in [P -> Nat]
  BY ListTypes DEF Primaries
<1>2. \E i \in P : \A j \in P : v[j] <= v[i]
  <2> HIDE DEF P, v
  <2>1. P # {}
    BY DEF P
  <2> QED BY <1>1, <2>1, HighestExists
<1>3. L # {}
  BY <1>2
<1>4. L \in SUBSET Nat
  BY <1>1
<1>5. First(L) \in L
  <2> HIDE DEF L
  <2> QED BY <1>3, <1>4, FirstIsLeast
<1> QED BY <1>5 DEF PrimaryReplica

LEMMA PrimaryTypes ==
  ASSUME NEW db \in Infos
  PROVE  PrimaryReplica(db) \in Replica \cup {None}
BY PrimaryIsLatest, ListTypes

(***************************************************************************)
(* preferredReplica is a replica of the list, and a preferred one if there *)
(* is any: then it is not among the others.                                *)
(***************************************************************************)
LEMMA PreferredIsFirst ==
  ASSUME NEW db \in Infos
  PROVE  /\ \E i \in DOMAIN db : PreferredReplica(db) = db[i]
         /\ Preferred(db) # {} =>
               \E i \in Preferred(db) : PreferredReplica(db) = db[i]
<1>1. CASE Preferred(db) = {}
  BY <1>1, ListTypes DEF PreferredReplica
<1>2. CASE Preferred(db) # {}
  <2>1. Preferred(db) \in SUBSET Nat
    BY ListTypes DEF Preferred
  <2>2. First(Preferred(db)) \in Preferred(db)
    BY <1>2, <2>1, FirstIsLeast
  <2> QED BY <1>2, <2>2 DEF PreferredReplica, Preferred
<1> QED BY <1>1, <1>2

LEMMA OthersTypes ==
  ASSUME NEW db \in Infos
  PROVE  Others(db) \in SUBSET (DOMAIN db) /\ Others(db) \in SUBSET (Nat \ {0})
BY ListTypes DEF Others


-----------------------------------------------------------------------------
(* What a step does to its task *)

LEMMA ParameterTypes ==
  /\ NumMembers \in Nat \ {0} /\ MaxRetries \in Nat /\ MaxSeeks \in Nat \ {0}
  /\ None \notin Replica /\ None \notin Infos
BY FailsafeAssumption

LEMMA ModeTypes == \A t \in Task : ModeOf[t] \in {"manager", "any", "primary"}
BY DEF ModeOf

(***************************************************************************)
(* What a task may end with, but for the ends of the loops.                *)
(***************************************************************************)
LEMMA RejectionTypes ==
  \A operation, error : Rejection(operation, error) \in {"unable", "notPrimary", "other"}
BY DEF Rejection, ErrorMessage

(***************************************************************************)
(* A step changes only its own task, the cache and the history of who      *)
(* stored a list over whom.                                                *)
(***************************************************************************)
Only(t, f, g) == g = [f EXCEPT ![t] = g[t]]

OwnOnly(t) ==
    /\ Only(t, pc, pc') /\ Only(t, phase, phase') /\ Only(t, member, member')
    /\ Only(t, info, info') /\ Only(t, seeks, seeks') /\ Only(t, replica, replica')
    /\ Only(t, todo, todo') /\ Only(t, retries, retries') /\ Only(t, result, result')
    /\ Only(t, attempts, attempts')

LEMMA StepsAreOwn ==
  ASSUME TypeOK, NEW t \in Task, Call(t) \/ Step(t)
  PROVE  OwnOnly(t)
<1> USE DEF Goto, Run, StartFetch, Reject, Only, OwnOnly
<1>1. CASE StartPrimary(t) /\ Only(t, result, result') /\ Only(t, attempts, attempts')
  BY <1>1 DEF StartPrimary, TypeOK
<1>2. CASE StartAny(t) /\ Only(t, result, result') /\ Only(t, attempts, attempts')
  BY <1>2 DEF StartAny, TryReplicas, TypeOK
<1>3. CASE Call(t)
  BY <1>1, <1>2, <1>3 DEF Call, TypeOK
<1>4. CASE FetchFails(t)
  BY <1>4 DEF FetchFails, TypeOK
<1>5. CASE \E db \in Infos : FetchAnswers(t, db)
  BY <1>5 DEF FetchAnswers, TryReplicas, TypeOK
<1>6. CASE PrimaryFound(t)
  BY <1>6 DEF PrimaryFound, TypeOK
<1>7. CASE NoPrimary(t)
  BY <1>7 DEF NoPrimary, TypeOK
<1>8. CASE WaitEnds(t)
  BY <1>8 DEF WaitEnds, TypeOK
<1>9. ASSUME NEW reply \in Errors \cup {"answer"}, RunEnds(t, reply)
      PROVE  OwnOnly(t)
  <2>1. Only(t, attempts, attempts')
    BY <1>9 DEF RunEnds, TypeOK
  <2>2. CASE RetryPrimary(t)
    BY <2>1, <2>2 DEF RetryPrimary, TypeOK
  <2>3. CASE RetryNext(t)
    BY <2>1, <2>3 DEF RetryNext, TypeOK
  <2>4. CASE StartPrimary(t) /\ UNCHANGED result
    BY <2>1, <2>4, <1>1 DEF TypeOK
  <2>5. ASSUME NEW outcome, Settle(t, outcome)
        PROVE  OwnOnly(t)
    BY <2>1, <2>5 DEF Settle, TypeOK
  <2> QED BY <1>9, <2>2, <2>3, <2>4, <2>5 DEF RunEnds
<1> QED BY <1>3, <1>4, <1>5, <1>6, <1>7, <1>8, <1>9 DEF Step

(***************************************************************************)
(* What a step makes of the entries of its task, operation by operation.   *)
(***************************************************************************)
LEMMA StartPrimaryAt ==
  ASSUME TypeOK, NEW t \in Task, StartPrimary(t)
  PROVE  /\ phase'[t] = "primary" /\ retries'[t] = 0 /\ seeks'[t] = 0
         /\ UNCHANGED <<cache, info, todo, overwritten>>
         /\ \/ /\ pc'[t] = "running" /\ cache # None /\ replica'[t] = PrimaryReplica(cache)
               /\ replica'[t] # None /\ UNCHANGED member
            \/ pc'[t] = "fetching" /\ member'[t] = 1 /\ UNCHANGED replica
BY DEF StartPrimary, Run, StartFetch, Goto, TypeOK

LEMMA TryReplicasAt ==
  ASSUME TypeOK, NEW t \in Task, NEW db \in Infos, TryReplicas(t, db)
  PROVE  /\ pc'[t] = "running" /\ replica'[t] = PreferredReplica(db)
         /\ todo'[t] = Others(db)
BY DEF TryReplicas, Run, Goto, TypeOK

LEMMA StartAnyAt ==
  ASSUME TypeOK, NEW t \in Task, StartAny(t)
  PROVE  /\ UNCHANGED <<cache, phase, seeks, retries, overwritten>>
         /\ \/ /\ cache \in Infos /\ info'[t] = cache /\ pc'[t] = "running"
               /\ replica'[t] = PreferredReplica(cache) /\ todo'[t] = Others(cache)
               /\ UNCHANGED member
            \/ /\ pc'[t] = "fetching" /\ member'[t] = 1
               /\ UNCHANGED <<info, replica, todo>>
<1>1. CASE cache # None
  BY <1>1, TryReplicasAt DEF StartAny, TypeOK
<1>2. CASE cache = None
  BY <1>2 DEF StartAny, StartFetch, Goto, TypeOK
<1> QED BY <1>1, <1>2

LEMMA FetchFailsAt ==
  ASSUME TypeOK, NEW t \in Task, FetchFails(t)
  PROVE  /\ pc[t] = "fetching"
         /\ UNCHANGED <<cache, phase, info, seeks, replica, todo, retries, attempts,
                        overwritten>>
         /\ \/ member'[t] \in 1 .. NumMembers /\ UNCHANGED <<pc, result>>
            \/ pc'[t] = "done" /\ result'[t] = "noReplicas" /\ UNCHANGED member
BY ParameterTypes DEF FetchFails, Reject, Goto, TypeOK

LEMMA FetchAnswersAt ==
  ASSUME TypeOK, NEW t \in Task, NEW db \in Infos, FetchAnswers(t, db)
  PROVE  /\ pc[t] = "fetching" /\ cache' = db /\ info'[t] = db
         /\ UNCHANGED <<phase, member, seeks, retries, result, attempts>>
         /\ overwritten'[t] = FALSE
         /\ \A u \in Task \ {t} : overwritten[u] \/ pc[u] = "fetched" => overwritten'[u]
         /\ \/ /\ phase[t] = "any" /\ pc'[t] = "running"
               /\ replica'[t] = PreferredReplica(db) /\ todo'[t] = Others(db)
            \/ phase[t] = "primary" /\ pc'[t] = "fetched" /\ UNCHANGED <<replica, todo>>
<1>1. /\ pc[t] = "fetching" /\ cache' = db /\ info'[t] = db
      /\ UNCHANGED <<phase, member, seeks, retries, result, attempts>>
  BY DEF FetchAnswers, TypeOK
<1>2. /\ overwritten'[t] = FALSE
      /\ \A u \in Task \ {t} : overwritten[u] \/ pc[u] = "fetched" => overwritten'[u]
  BY Zenon DEF FetchAnswers
<1>3. CASE phase[t] = "any"
  BY <1>1, <1>2, <1>3, TryReplicasAt DEF FetchAnswers
<1>4. CASE phase[t] # "any"
  BY <1>1, <1>2, <1>4 DEF FetchAnswers, Goto, TypeOK
<1> QED BY <1>3, <1>4

LEMMA PrimaryFoundAt ==
  ASSUME TypeOK, NEW t \in Task, PrimaryFound(t)
  PROVE  /\ pc[t] = "fetched" /\ PrimaryReplica(info[t]) # None
         /\ UNCHANGED <<cache, phase, member, info, seeks, todo, retries, attempts,
                        overwritten>>
         /\ \/ /\ retries[t] > MaxRetries /\ pc'[t] = "done" /\ result'[t] = "exhausted"
               /\ UNCHANGED replica
            \/ /\ retries[t] <= MaxRetries /\ pc'[t] = "running" /\ UNCHANGED result
               /\ retries[t] = 0 => replica'[t] = PrimaryReplica(cache)
               /\ retries[t] # 0 => replica'[t] = PrimaryReplica(info[t])
BY ParameterTypes DEF PrimaryFound, Run, Reject, Goto, TypeOK

LEMMA NoPrimaryAt ==
  ASSUME TypeOK, NEW t \in Task, NoPrimary(t)
  PROVE  /\ pc[t] = "fetched" /\ pc'[t] = "waiting" /\ seeks'[t] = seeks[t] + 1
         /\ UNCHANGED <<cache, phase, member, info, replica, todo, retries, result,
                        attempts, overwritten>>
BY ParameterTypes DEF NoPrimary, Goto, TypeOK

LEMMA WaitEndsAt ==
  ASSUME TypeOK, NEW t \in Task, WaitEnds(t)
  PROVE  /\ pc[t] = "waiting"
         /\ UNCHANGED <<cache, phase, info, seeks, replica, todo, retries, attempts,
                        overwritten>>
         /\ \/ /\ seeks[t] < MaxSeeks /\ pc'[t] = "fetching" /\ member'[t] = 1
               /\ UNCHANGED result
            \/ pc'[t] = "done" /\ result'[t] = "noPrimary" /\ UNCHANGED member
BY DEF WaitEnds, StartFetch, Reject, Goto, TypeOK

LEMMA RetryPrimaryAt ==
  ASSUME TypeOK, NEW t \in Task, RetryPrimary(t)
  PROVE  /\ pc'[t] = "waiting" /\ retries'[t] = retries[t] + 1 /\ seeks'[t] = 0
         /\ UNCHANGED <<cache, phase, member, info, replica, todo, result, overwritten>>
BY DEF RetryPrimary, Goto, TypeOK

LEMMA RetryNextAt ==
  ASSUME TypeOK, NEW t \in Task, RetryNext(t)
  PROVE  /\ retries'[t] = retries[t] + 1
         /\ UNCHANGED <<cache, phase, member, info, seeks, overwritten>>
         /\ \/ /\ todo[t] = {} /\ pc'[t] = "done" /\ result'[t] = "exhausted"
               /\ UNCHANGED <<replica, todo>>
            \/ /\ First(todo[t]) \in todo[t] /\ pc'[t] = "running"
               /\ replica'[t] = info[t][First(todo[t])]
               /\ todo'[t] = todo[t] \ {First(todo[t])}
               /\ UNCHANGED result
<1>1. CASE todo[t] = {}
  BY <1>1 DEF RetryNext, Reject, Goto, TypeOK
<1>2. CASE todo[t] # {}
  <2>1. First(todo[t]) \in todo[t]
    BY <1>2, FirstIsLeast DEF TypeOK
  <2> QED BY <1>2, <2>1 DEF RetryNext, Run, Goto, TypeOK
<1> QED BY <1>1, <1>2

(***************************************************************************)
(* An attempt is recorded; after it the task goes on in its loop, turns to *)
(* the primary, or settles.                                                *)
(***************************************************************************)
LastAttempt(t, reply) == [replica |-> replica[t], phase |-> phase[t], reply |-> reply]

Outcome(t, reply) == IF reply = "answer" THEN "ok" ELSE Rejection(OperationOf[t], reply)

LEMMA RunEndsAt ==
  ASSUME TypeOK, NEW t \in Task, NEW reply \in Errors \cup {"answer"}, RunEnds(t, reply)
  PROVE  /\ pc[t] = "running"
         /\ attempts'[t] = Append(attempts[t], LastAttempt(t, reply))
         /\ \/ RetryPrimary(t) /\ phase[t] = "primary"
                 /\ Outcome(t, reply) \in {"unable", "notPrimary"}
            \/ RetryNext(t) /\ phase[t] = "any" /\ Outcome(t, reply) = "unable"
            \/ /\ StartPrimary(t) /\ UNCHANGED result /\ Outcome(t, reply) = "notPrimary"
               /\ phase[t] = "any" /\ ModeOf[t] = "manager"
            \/ /\ Settle(t, Outcome(t, reply)) /\ pc'[t] = "done"
               /\ result'[t] = Outcome(t, reply)
               /\ ~Retriable(phase[t], Outcome(t, reply))
               /\ ~(Outcome(t, reply) = "notPrimary" /\ ModeOf[t] = "manager")
<1>1. attempts'[t] = Append(attempts[t], LastAttempt(t, reply))
  BY DEF RunEnds, TypeOK, LastAttempt
<1>2. Settle(t, Outcome(t, reply)) => /\ pc'[t] = "done"
                                      /\ result'[t] = Outcome(t, reply)
  BY DEF Settle, Reject, Goto, TypeOK
<1>3. phase[t] \in {"primary", "any"}
  BY DEF TypeOK
<1> QED BY <1>1, <1>2, <1>3 DEF RunEnds, Outcome, Retriable

-----------------------------------------------------------------------------
(* The inductive invariant, task by task *)

(***************************************************************************)
(* Where a task may be: the places that runAnyReplica() has still to try   *)
(* are places in its list, which it got before its first attempt;          *)
(* seekPrimaryReplica() looks at a list that was fetched, and belongs to   *)
(* runPrimaryReplica(), within its retries.                                *)
(***************************************************************************)
InItsLoop(t) ==
    /\ pc[t] = "idle" => /\ phase[t] = "primary" <=> ModeOf[t] = "primary"
                         /\ attempts[t] = <<>> /\ retries[t] = 0
    /\ pc[t] \in {"fetched", "waiting"} => phase[t] = "primary"
    /\ pc[t] = "fetched" => cache # None /\ info[t] \in Infos
    /\ pc[t] \in {"fetching", "fetched"} /\ phase[t] = "primary" => seeks[t] < MaxSeeks
    /\ pc[t] = "running" /\ phase[t] = "any" =>
          info[t] \in Infos /\ todo[t] \in SUBSET Others(info[t])
    /\ pc[t] # "done" => result[t] = "none"

(***************************************************************************)
(* retries counts the attempts of runPrimaryReplica() that have failed.    *)
(***************************************************************************)
Counted(t) ==
    LET made == Cardinality(PrimaryAttempts(t))
    IN  /\ phase[t] = "any" => PrimaryAttempts(t) = {}
        /\ phase[t] = "primary" /\ pc[t] # "done" =>
              made = retries[t] /\ retries[t] <= MaxRetries + 1
        /\ phase[t] = "primary" /\ pc[t] = "running" => retries[t] <= MaxRetries
        /\ phase[t] = "primary" /\ pc[t] = "done" =>
              /\ made <= MaxRetries + 1
              /\ result[t] = "exhausted" => made = MaxRetries + 1

(***************************************************************************)
(* After every attempt but the one that ends the task the task goes on.    *)
(***************************************************************************)
WentOn(t) ==
    /\ \A i \in 1 .. Len(attempts[t]) :
          i < Len(attempts[t]) \/ pc[t] # "done" =>
             GoesOn(t, i) /\ OperationOf[t] # "databaseDelete"
    /\ pc[t] = "done" /\ attempts[t] # <<>> =>
          \/ result[t] \in {"exhausted", "noReplicas", "noPrimary"}
          \/ ~GoesOn(t, Len(attempts[t]))
          \/ OperationOf[t] = "databaseDelete"

(***************************************************************************)
(* What the cache holds is what the task has fetched, until another task   *)
(* stores a list; a repeated attempt does not depend on the cache.         *)
(***************************************************************************)
Addressed(t) ==
    /\ pc[t] = "fetched" /\ ~overwritten[t] => cache = info[t]
    /\ pc[t] = "running" /\ replica[t] = None => overwritten[t]
    /\ pc[t] = "running" /\ phase[t] = "primary" /\ retries[t] > 0 =>
          info[t] \in Infos /\ replica[t] = PrimaryReplica(info[t]) /\ replica[t] # None

(***************************************************************************)
(* runAnyReplica() has tried, or tries, the preferred replica and those of *)
(* the others that it has not still to try, each place once.               *)
(***************************************************************************)
Tried(t, r) == \E k \in DOMAIN attempts[t] : attempts[t][k].replica = r

Walked(t) ==
    phase[t] = "any" =>
       /\ pc[t] = "fetching" => attempts[t] = <<>>
       /\ pc[t] = "running" =>
             /\ \A i \in Others(info[t]) \ todo[t] :
                   replica[t] = info[t][i] \/ Tried(t, info[t][i])
             /\ IF attempts[t] = <<>>
                THEN replica[t] = PreferredReplica(info[t])
                ELSE attempts[t][1].replica = PreferredReplica(info[t])
             /\ Len(attempts[t]) + Cardinality(todo[t]) = Cardinality(Others(info[t]))
       /\ result[t] = "exhausted" =>
             /\ info[t] \in Infos /\ attempts[t] # <<>>
             /\ \A i \in Others(info[t]) : Tried(t, info[t][i])
             /\ attempts[t][1].replica = PreferredReplica(info[t])
             /\ Len(attempts[t]) = Cardinality(Others(info[t])) + 1

TaskInv(t) == InItsLoop(t) /\ Counted(t) /\ WentOn(t) /\ Addressed(t) /\ Walked(t)

FailsafeInv == TypeOK /\ \A t \in Task : TaskInv(t)

-----------------------------------------------------------------------------
(* Types *)

EntryTypes(t) ==
    /\ pc[t] \in {"idle", "fetching", "fetched", "waiting", "running", "done"}
    /\ phase[t] \in {"primary", "any"} /\ member[t] \in 1 .. NumMembers
    /\ info[t] \in Infos \cup {None} /\ seeks[t] \in 0 .. MaxSeeks
    /\ replica[t] \in Replica \cup {None} /\ todo[t] \in SUBSET (Nat \ {0})
    /\ retries[t] \in Nat
    /\ result[t] \in {"none", "ok", "noReplicas", "noPrimary", "exhausted",
                      "notPrimary", "other"}
    /\ attempts[t] \in Seq(Attempt)

LEMMA EntriesAreTyped == TypeOK => \A t \in Task : EntryTypes(t)
BY DEF TypeOK, EntryTypes

LEMMA TypedByEntries ==
  ASSUME TypeOK, NEW t \in Task, OwnOnly(t), EntryTypes(t)',
         cache' \in Infos \cup {None}, overwritten' \in [Task -> BOOLEAN]
  PROVE  TypeOK'
BY DEF TypeOK, OwnOnly, Only, EntryTypes

LEMMA OthersAreStill ==
  ASSUME TypeOK, NEW t \in Task, OwnOnly(t), NEW u \in Task \ {t}
  PROVE  /\ pc'[u] = pc[u] /\ phase'[u] = phase[u] /\ info'[u] = info[u]
         /\ seeks'[u] = seeks[u] /\ replica'[u] = replica[u] /\ todo'[u] = todo[u]
         /\ retries'[u] = retries[u] /\ result'[u] = result[u]
         /\ attempts'[u] = attempts[u]
BY DEF TypeOK, OwnOnly, Only

(***************************************************************************)
(* The cache is never emptied, and only a list that is stored changes it   *)
(* or tells a task that it was overwritten.                                *)
(***************************************************************************)
LEMMA CacheIsKept ==
  ASSUME TypeOK, NEW t \in Task, Call(t) \/ Step(t)
  PROVE  /\ cache' \in Infos \cup {None} /\ (cache # None => cache' # None)
         /\ overwritten' \in [Task -> BOOLEAN]
         /\ \A u \in Task \ {t} :
               /\ overwritten[u] => overwritten'[u]
               /\ pc[u] = "fetched" /\ ~overwritten'[u] => cache' = cache
<1>1. CASE UNCHANGED <<cache, overwritten>>
  BY <1>1 DEF TypeOK
<1>2. CASE \E db \in Infos : FetchAnswers(t, db)
  <2>1. PICK db \in Infos : FetchAnswers(t, db)
    BY <1>2
  <2>2. overwritten' \in [Task -> BOOLEAN]
    BY <2>1, Zenon DEF FetchAnswers, TypeOK
  <2>3. cache' = db /\ db # None
    BY <2>1, FetchAnswersAt, ParameterTypes
  <2>4. \A u \in Task \ {t} : overwritten[u] \/ pc[u] = "fetched" => overwritten'[u]
    BY <2>1, FetchAnswersAt
  <2> QED BY <2>2, <2>3, <2>4
<1>3. Call(t) => UNCHANGED <<cache, overwritten>>
  BY DEF Call, StartPrimary, StartAny
<1>4. ASSUME NEW reply \in Errors \cup {"answer"}, RunEnds(t, reply)
      PROVE  UNCHANGED <<cache, overwritten>>
  BY <1>4 DEF RunEnds, RetryPrimary, RetryNext, StartPrimary, Settle
<1>5. FetchFails(t) \/ PrimaryFound(t) \/ NoPrimary(t) \/ WaitEnds(t)
         => UNCHANGED <<cache, overwritten>>
  BY DEF FetchFails, PrimaryFound, NoPrimary, WaitEnds
<1> QED BY <1>1, <1>2, <1>3, <1>4, <1>5 DEF Step

LEMMA AttemptTypes ==
  ASSUME TypeOK, NEW t \in Task, NEW reply \in Errors \cup {"answer"}
  PROVE  /\ LastAttempt(t, reply) \in Attempt
         /\ Append(attempts[t], LastAttempt(t, reply)) \in Seq(Attempt)
<1>1. LastAttempt(t, reply) \in Attempt
  BY DEF TypeOK, Attempt, LastAttempt
<1>2. attempts[t] \in Seq(Attempt)
  BY DEF TypeOK
<1> QED BY <1>1, <1>2, AppendProperties

LEMMA ListIsTyped ==
  ASSUME NEW db \in Infos
  PROVE  /\ PreferredReplica(db) \in Replica /\ Others(db) \in SUBSET (Nat \ {0})
         /\ \A i \in Others(db) : db[i] \in Replica
BY PreferredIsFirst, ListTypes, OthersTypes

(***************************************************************************)
(* A step of a task keeps the types and leaves the task in its loop.       *)
(***************************************************************************)
LEMMA OwnTypes ==
  ASSUME TypeOK, NEW t \in Task, InItsLoop(t), Call(t) \/ Step(t)
  PROVE  EntryTypes(t)' /\ InItsLoop(t)'
<1>0. /\ EntryTypes(t) /\ cache \in Infos \cup {None}
      /\ ModeOf[t] \in {"manager", "any", "primary"}
  BY EntriesAreTyped, ModeTypes DEF TypeOK
<1> USE ParameterTypes DEF EntryTypes, InItsLoop
<1>1. ASSUME StartPrimary(t), UNCHANGED result, pc[t] # "done",
             attempts'[t] \in Seq(Attempt)
      PROVE  EntryTypes(t)' /\ InItsLoop(t)'
  <2>1. cache # None => PrimaryReplica(cache) \in Replica \cup {None}
    BY <1>0, PrimaryTypes
  <2> QED BY <1>0, <1>1, <2>1, StartPrimaryAt
<1>2. CASE Call(t) /\ ModeOf[t] # "primary"
  <2>1. StartAny(t) /\ pc[t] = "idle" /\ UNCHANGED <<result, attempts>>
    BY <1>2 DEF Call
  <2> QED BY <1>0, <1>2, <2>1, StartAnyAt, ListIsTyped
<1>3. CASE Call(t)
  BY <1>0, <1>1, <1>2, <1>3 DEF Call
<1>4. CASE FetchFails(t)
  BY <1>0, <1>4, FetchFailsAt
<1>5. ASSUME NEW db \in Infos, FetchAnswers(t, db)
      PROVE  EntryTypes(t)' /\ InItsLoop(t)'
  <2>1. PreferredReplica(db) \in Replica /\ Others(db) \in SUBSET (Nat \ {0})
    BY ListIsTyped
  <2>2. /\ pc[t] = "fetching" /\ cache' = db /\ info'[t] = db
        /\ UNCHANGED <<phase, member, seeks, retries, result, attempts>>
    BY <1>5 DEF FetchAnswers, TypeOK
  <2>3. CASE /\ phase[t] = "any" /\ pc'[t] = "running"
             /\ replica'[t] = PreferredReplica(db) /\ todo'[t] = Others(db)
    BY <1>0, <2>1, <2>2, <2>3
  <2>4. CASE phase[t] = "primary" /\ pc'[t] = "fetched" /\ UNCHANGED <<replica, todo>>
    BY <1>0, <2>2, <2>4
  <2> QED BY <1>5, <2>3, <2>4, FetchAnswersAt
<1>6. CASE PrimaryFound(t)
  BY <1>0, <1>6, PrimaryFoundAt, PrimaryTypes
<1>7. CASE NoPrimary(t)
  BY <1>0, <1>7, NoPrimaryAt
<1>8. CASE WaitEnds(t)
  BY <1>0, <1>8, WaitEndsAt
<1>9. ASSUME NEW reply \in Errors \cup {"answer"}, RunEnds(t, reply)
      PROVE  EntryTypes(t)' /\ InItsLoop(t)'
  <2>1. pc[t] = "running" /\ attempts'[t] \in Seq(Attempt)
    BY <1>9, RunEndsAt, AttemptTypes
  <2>2. CASE RetryPrimary(t) /\ phase[t] = "primary"
    BY <1>0, <2>1, <2>2, RetryPrimaryAt
  <2>3. CASE RetryNext(t) /\ phase[t] = "any"
    <3>1. info[t] \in Infos /\ todo[t] \in SUBSET Others(info[t])
      BY <2>1, <2>3
    <3>2. \A i \in todo[t] : info[t][i] \in Replica
      BY <3>1, ListIsTyped
    <3> QED BY <1>0, <2>1, <2>3, <3>1, <3>2, RetryNextAt
  <2>4. CASE StartPrimary(t) /\ UNCHANGED result
    BY <1>1, <2>1, <2>4
  <2>5. CASE /\ Settle(t, Outcome(t, reply)) /\ pc'[t] = "done"
             /\ result'[t] = Outcome(t, reply)
             /\ ~Retriable(phase[t], Outcome(t, reply))
    <3>1. Outcome(t, reply) \in {"ok", "notPrimary", "other"}
      BY <2>5, RejectionTypes DEF Outcome, Retriable
    <3> QED BY <1>0, <2>1, <2>5, <3>1 DEF Settle
  <2> QED BY <1>9, <2>2, <2>3, <2>4, <2>5, RunEndsAt
<1> QED BY <1>3, <1>4, <1>5, <1>6, <1>7, <1>8, <1>9 DEF Step

-----------------------------------------------------------------------------
(* The attempts *)

(***************************************************************************)
(* What an attempt ended in, told from what it met.                        *)
(***************************************************************************)
LEMMA OutcomeOfReply ==
  ASSUME NEW t \in Task, NEW reply \in Errors \cup {"answer"}
  PROVE  /\ Outcome(t, reply) = "unable" <=>
               reply \in Unreachable /\ OperationOf[t] # "databaseDelete"
         /\ Outcome(t, reply) = "notPrimary" <=>
               reply = "RPL01" /\ OperationOf[t] # "databaseDelete"
         /\ Outcome(t, reply) \in {"ok", "unable", "notPrimary", "other"}
BY DEF Outcome, Rejection, ErrorMessage, Unreachable, DatabaseOperations

(***************************************************************************)
(* An attempt goes to the end of the history and leaves the rest as it is. *)
(***************************************************************************)
LEMMA AttemptAdded ==
  ASSUME TypeOK, NEW t \in Task, NEW reply \in Errors \cup {"answer"},
         attempts'[t] = Append(attempts[t], LastAttempt(t, reply))
  PROVE  /\ Len(attempts[t]) \in Nat /\ Len(attempts'[t]) = Len(attempts[t]) + 1
         /\ DOMAIN attempts[t] = 1 .. Len(attempts[t])
         /\ DOMAIN attempts'[t] = 1 .. Len(attempts[t]) + 1
         /\ \A i \in 1 .. Len(attempts[t]) : attempts'[t][i] = attempts[t][i]
         /\ attempts'[t][Len(attempts[t]) + 1] = LastAttempt(t, reply)
         /\ attempts'[t] # <<>>
<1>1. attempts[t] \in Seq(Attempt) /\ LastAttempt(t, reply) \in Attempt
  BY AttemptTypes DEF TypeOK
<1> DEFINE s == attempts[t]
           a == LastAttempt(t, reply)
<1> HIDE DEF s, a
<1>2. /\ Len(s) \in Nat /\ Len(Append(s, a)) = Len(s) + 1
      /\ DOMAIN s = 1 .. Len(s) /\ DOMAIN Append(s, a) = 1 .. Len(s) + 1
      /\ \A i \in 1 .. Len(s) : Append(s, a)[i] = s[i]
      /\ Append(s, a)[Len(s) + 1] = a
      /\ Append(s, a) # <<>>
  <2>1. s \in Seq(Attempt) /\ a \in Attempt
    BY <1>1 DEF s, a
  <2> QED BY <2>1, AppendProperties, LenProperties, EmptySeq
<1> QED BY <1>2 DEF s, a

LEMMA PrimaryAttemptsFinite ==
  ASSUME TypeOK, NEW t \in Task
  PROVE  /\ IsFiniteSet(PrimaryAttempts(t)) /\ Cardinality(PrimaryAttempts(t)) \in Nat
         /\ PrimaryAttempts(t) \in SUBSET (1 .. Len(attempts[t]))
<1>1. attempts[t] \in Seq(Attempt)
  BY DEF TypeOK
<1>2. Len(attempts[t]) \in Nat /\ DOMAIN attempts[t] = 1 .. Len(attempts[t])
  BY <1>1, LenProperties
<1>3. PrimaryAttempts(t) \in SUBSET (1 .. Len(attempts[t]))
  BY <1>2 DEF PrimaryAttempts
<1>4. IsFiniteSet(1 .. Len(attempts[t]))
  BY <1>2, FS_Interval
<1>5. IsFiniteSet(PrimaryAttempts(t))
  BY <1>3, <1>4, FS_Subset
<1> QED BY <1>3, <1>5, FS_CardinalityType

(***************************************************************************)
(* An attempt of runPrimaryReplica() adds one to the count, an attempt of  *)
(* runAnyReplica() none.                                                   *)
(***************************************************************************)
LEMMA AttemptCounted ==
  ASSUME TypeOK, NEW t \in Task, NEW reply \in Errors \cup {"answer"},
         attempts'[t] = Append(attempts[t], LastAttempt(t, reply))
  PROVE  /\ phase[t] = "any" => PrimaryAttempts(t)' = PrimaryAttempts(t)
         /\ phase[t] = "primary" =>
               Cardinality(PrimaryAttempts(t)') = Cardinality(PrimaryAttempts(t)) + 1
<1> DEFINE n == Len(attempts[t])
<1>1. /\ n \in Nat
      /\ DOMAIN attempts[t] = 1 .. n /\ DOMAIN attempts'[t] = 1 .. n + 1
      /\ \A i \in 1 .. n : attempts'[t][i] = attempts[t][i]
      /\ attempts'[t][n + 1].phase = phase[t]
  BY AttemptAdded DEF LastAttempt
<1> HIDE DEF n
<1>2. CASE phase[t] = "any"
  <2>1. PrimaryAttempts(t)' = PrimaryAttempts(t)
    BY <1>1, <1>2 DEF PrimaryAttempts
  <2> QED BY <1>2, <2>1
<1>3. CASE phase[t] = "primary"
  <2>1. PrimaryAttempts(t)' = PrimaryAttempts(t) \cup {n + 1}
    BY <1>1, <1>3 DEF PrimaryAttempts
  <2>2. n + 1 \notin PrimaryAttempts(t)
    BY <1>1 DEF PrimaryAttempts
  <2>3. IsFiniteSet(PrimaryAttempts(t))
    BY PrimaryAttemptsFinite
  <2> QED BY <1>3, <2>1, <2>2, <2>3, FS_AddElement
<1> QED BY <1>2, <1>3 DEF TypeOK

LEMMA OwnCount ==
  ASSUME TypeOK, NEW t \in Task, InItsLoop(t), Counted(t), Call(t) \/ Step(t)
  PROVE  Counted(t)'
<1>0. /\ MaxRetries \in Nat /\ retries[t] \in Nat /\ phase[t] \in {"primary", "any"}
      /\ Cardinality(PrimaryAttempts(t)) \in Nat
  BY ParameterTypes, PrimaryAttemptsFinite DEF TypeOK
<1>1. attempts'[t] = attempts[t] => PrimaryAttempts(t)' = PrimaryAttempts(t)
  BY DEF PrimaryAttempts
<1>2. ASSUME StartPrimary(t), PrimaryAttempts(t)' = {}
      PROVE  Counted(t)'
  <2>1. Cardinality(PrimaryAttempts(t)') = 0
    BY <1>2, FS_EmptySet
  <2>2. phase'[t] = "primary" /\ retries'[t] = 0 /\ pc'[t] # "done"
    BY <1>2, StartPrimaryAt
  <2> QED BY <1>0, <2>1, <2>2 DEF Counted
<1>3. CASE Call(t)
  <2>1. pc[t] = "idle" /\ UNCHANGED attempts
    BY <1>3 DEF Call
  <2>2. attempts[t] = <<>> /\ (phase[t] = "primary" <=> ModeOf[t] = "primary")
    BY <2>1 DEF InItsLoop
  <2>3. PrimaryAttempts(t)' = {}
    BY <2>1, <2>2, <1>1 DEF PrimaryAttempts
  <2>4. CASE ModeOf[t] = "primary"
    BY <1>2, <1>3, <2>3, <2>4 DEF Call
  <2>5. CASE ModeOf[t] # "primary"
    <3>1. phase'[t] = "any"
      BY <1>0, <1>3, <2>2, <2>5, StartAnyAt DEF Call
    <3> QED BY <2>3, <3>1 DEF Counted
  <2> QED BY <2>4, <2>5
<1>4. CASE FetchFails(t)
  BY <1>0, <1>1, <1>4, FetchFailsAt DEF Counted
<1>5. ASSUME NEW db \in Infos, FetchAnswers(t, db)
      PROVE  Counted(t)'
  <2>1. /\ pc[t] = "fetching" /\ UNCHANGED <<phase, retries, attempts>>
        /\ pc'[t] = "fetched" \/ phase[t] = "any"
    BY <1>5, FetchAnswersAt
  <2>2. PrimaryAttempts(t)' = PrimaryAttempts(t)
    BY <1>1, <2>1
  <2> QED BY <1>0, <2>1, <2>2 DEF Counted
<1>6. CASE PrimaryFound(t)
  BY <1>0, <1>1, <1>6, PrimaryFoundAt DEF Counted
<1>7. CASE NoPrimary(t)
  BY <1>0, <1>1, <1>7, NoPrimaryAt DEF Counted
<1>8. CASE WaitEnds(t)
  BY <1>0, <1>1, <1>8, WaitEndsAt DEF Counted
<1>9. ASSUME NEW reply \in Errors \cup {"answer"}, RunEnds(t, reply)
      PROVE  Counted(t)'
  <2>1. /\ pc[t] = "running"
        /\ phase[t] = "any" => PrimaryAttempts(t)' = PrimaryAttempts(t)
        /\ phase[t] = "primary" =>
               Cardinality(PrimaryAttempts(t)') = Cardinality(PrimaryAttempts(t)) + 1
    BY <1>9, RunEndsAt, AttemptCounted
  <2>2. CASE RetryPrimary(t) /\ phase[t] = "primary"
    BY <1>0, <2>1, <2>2, RetryPrimaryAt DEF Counted
  <2>3. CASE RetryNext(t) /\ phase[t] = "any"
    <3>1. phase'[t] = "any"
      BY <2>3, RetryNextAt
    <3> QED BY <2>1, <2>3, <3>1 DEF Counted
  <2>4. CASE StartPrimary(t) /\ phase[t] = "any"
    BY <1>2, <2>1, <2>4 DEF Counted
  <2>5. CASE /\ Settle(t, Outcome(t, reply)) /\ pc'[t] = "done"
             /\ result'[t] = Outcome(t, reply)
    <3>1. result'[t] # "exhausted"
      BY <2>5, OutcomeOfReply
    <3>2. UNCHANGED phase
      BY <2>5 DEF Settle
    <3> QED BY <1>0, <2>1, <2>5, <3>1, <3>2 DEF Counted
  <2> QED BY <1>9, <2>2, <2>3, <2>4, <2>5, RunEndsAt
<1> QED BY <1>3, <1>4, <1>5, <1>6, <1>7, <1>8, <1>9 DEF Step

-----------------------------------------------------------------------------
(* What is made again, and where *)

LEMMA OwnWentOn ==
  ASSUME TypeOK, NEW t \in Task, InItsLoop(t), WentOn(t), Call(t) \/ Step(t)
  PROVE  WentOn(t)'
<1>1. ASSUME UNCHANGED attempts, pc[t] # "done",
             pc'[t] = "done" => result'[t] \in {"exhausted", "noReplicas", "noPrimary"}
      PROVE  WentOn(t)'
  BY <1>1 DEF WentOn, GoesOn
<1>2. CASE Call(t)
  <2>1. pc[t] = "idle" /\ UNCHANGED attempts
    BY <1>2 DEF Call
  <2>2. pc'[t] # "done"
    BY <1>2, StartPrimaryAt, StartAnyAt DEF Call
  <2> QED BY <1>1, <2>1, <2>2
<1>3. CASE FetchFails(t)
  BY <1>1, <1>3, FetchFailsAt
<1>4. CASE \E db \in Infos : FetchAnswers(t, db)
  BY <1>1, <1>4, FetchAnswersAt
<1>5. CASE PrimaryFound(t)
  BY <1>1, <1>5, PrimaryFoundAt
<1>6. CASE NoPrimary(t)
  BY <1>1, <1>6, NoPrimaryAt
<1>7. CASE WaitEnds(t)
  BY <1>1, <1>7, WaitEndsAt
<1>8. ASSUME NEW reply \in Errors \cup {"answer"}, RunEnds(t, reply)
      PROVE  WentOn(t)'
  <2>1. attempts'[t] = Append(attempts[t], LastAttempt(t, reply))
    BY <1>8, RunEndsAt
  <2>2. PICK n \in Nat : n = Len(attempts[t])
    BY <2>1, AttemptAdded
  <2>3. /\ n = Len(attempts[t]) /\ Len(attempts'[t]) = n + 1
        /\ \A i \in 1 .. n : attempts'[t][i] = attempts[t][i]
        /\ attempts'[t][n + 1].phase = phase[t] /\ attempts'[t][n + 1].reply = reply
    <3>1. /\ n = Len(attempts[t]) /\ Len(attempts'[t]) = n + 1
          /\ \A i \in 1 .. n : attempts'[t][i] = attempts[t][i]
          /\ attempts'[t][n + 1] = LastAttempt(t, reply)
      BY <2>1, <2>2, AttemptAdded
    <3> QED BY <3>1 DEF LastAttempt
  <2>4. pc[t] = "running" /\ phase[t] \in {"primary", "any"}
    BY <1>8, RunEndsAt DEF TypeOK
  <2>5. \A i \in 1 .. n : GoesOn(t, i)' /\ OperationOf[t] # "databaseDelete"
    <3>1. \A i \in 1 .. n : GoesOn(t, i) /\ OperationOf[t] # "databaseDelete"
      BY <2>3, <2>4 DEF WentOn
    <3>2. ASSUME NEW i \in 1 .. n
          PROVE  GoesOn(t, i)'
      BY <2>3, <3>1 DEF GoesOn
    <3> QED BY <3>1, <3>2
  <2>6. GoesOn(t, n + 1)' <=> \/ reply \in Unreachable
                              \/ reply = "RPL01" /\ (phase[t] = "any" => ModeOf[t] = "manager")
    BY <2>3 DEF GoesOn
  <2>7. ASSUME GoesOn(t, n + 1)', OperationOf[t] # "databaseDelete",
               pc'[t] = "done" => result'[t] = "exhausted"
        PROVE  WentOn(t)'
    <3>1. \A i \in 1 .. n + 1 : GoesOn(t, i)' /\ OperationOf[t] # "databaseDelete"
      BY <2>3, <2>5, <2>7
    <3> QED BY <2>3, <2>7, <3>1 DEF WentOn
  <2>8. CASE /\ RetryPrimary(t) /\ phase[t] = "primary"
             /\ Outcome(t, reply) \in {"unable", "notPrimary"}
    BY <2>6, <2>7, <2>8, RetryPrimaryAt, OutcomeOfReply
  <2>9. CASE RetryNext(t) /\ phase[t] = "any" /\ Outcome(t, reply) = "unable"
    <3>1. pc'[t] = "done" => result'[t] = "exhausted"
      BY <2>9, RetryNextAt
    <3> QED BY <2>6, <2>7, <2>9, <3>1, OutcomeOfReply
  <2>10. CASE /\ StartPrimary(t) /\ Outcome(t, reply) = "notPrimary"
             /\ phase[t] = "any" /\ ModeOf[t] = "manager"
    <3>1. pc'[t] # "done"
      BY <2>10, StartPrimaryAt
    <3> QED BY <2>6, <2>7, <2>10, <3>1, OutcomeOfReply
  <2>11. CASE /\ pc'[t] = "done" /\ ~Retriable(phase[t], Outcome(t, reply))
             /\ ~(Outcome(t, reply) = "notPrimary" /\ ModeOf[t] = "manager")
    <3>1. ~GoesOn(t, n + 1)' \/ OperationOf[t] = "databaseDelete"
      BY <2>4, <2>6, <2>11, OutcomeOfReply DEF Retriable
    <3>2. \A i \in 1 .. n + 1 : i < n + 1 => i \in 1 .. n
      BY <2>3
    <3> QED BY <2>3, <2>5, <2>11, <3>1, <3>2 DEF WentOn
  <2> QED BY <1>8, <2>8, <2>9, <2>10, <2>11, RunEndsAt
<1> QED BY <1>2, <1>3, <1>4, <1>5, <1>6, <1>7, <1>8 DEF Step

LEMMA OwnAddress ==
  ASSUME TypeOK, NEW t \in Task, InItsLoop(t), Addressed(t), Call(t) \/ Step(t)
  PROVE  Addressed(t)'
<1>0. /\ retries[t] \in Nat /\ cache \in Infos \cup {None} /\ phase[t] \in {"primary", "any"}
      /\ None \notin Replica
  BY ParameterTypes DEF TypeOK
<1>1. ASSUME pc'[t] \notin {"fetched", "running"}
      PROVE  Addressed(t)'
  BY <1>1 DEF Addressed
<1>2. CASE StartPrimary(t)
  <2>1. pc'[t] = "running" => retries'[t] = 0 /\ replica'[t] # None
    BY <1>2, StartPrimaryAt
  <2>2. pc'[t] \in {"running", "fetching"}
    BY <1>2, StartPrimaryAt
  <2> QED BY <2>1, <2>2 DEF Addressed
<1>3. CASE Call(t)
  <2>1. CASE ModeOf[t] = "primary"
    BY <1>2, <1>3, <2>1 DEF Call
  <2>2. CASE ModeOf[t] # "primary"
    <3>1. phase'[t] = "any"
      BY <1>0, <1>3, <2>2, StartAnyAt DEF Call, InItsLoop
    <3>2. pc'[t] \in {"running", "fetching"}
      BY <1>3, <2>2, StartAnyAt DEF Call
    <3>3. pc'[t] = "running" => replica'[t] # None
      BY <1>0, <1>3, <2>2, StartAnyAt, ListIsTyped DEF Call
    <3> QED BY <3>1, <3>2, <3>3 DEF Addressed
  <2> QED BY <2>1, <2>2
<1>4. CASE FetchFails(t)
  BY <1>1, <1>4, FetchFailsAt
<1>5. ASSUME NEW db \in Infos, FetchAnswers(t, db)
      PROVE  Addressed(t)'
  <2>1. cache' = db /\ info'[t] = db /\ phase'[t] = phase[t]
    BY <1>5, FetchAnswersAt
  <2>2. CASE phase[t] = "any"
    <3>1. pc'[t] = "running" /\ replica'[t] = PreferredReplica(db)
      BY <1>5, <2>2, FetchAnswersAt
    <3>2. PreferredReplica(db) # None
      BY <1>0, ListIsTyped
    <3> QED BY <2>1, <2>2, <3>1, <3>2 DEF Addressed
  <2>3. CASE phase[t] = "primary"
    <3>1. pc'[t] = "fetched"
      BY <1>5, <2>3, FetchAnswersAt
    <3> QED BY <2>1, <3>1 DEF Addressed
  <2> QED BY <1>0, <2>2, <2>3
<1>6. CASE PrimaryFound(t)
  <2>1. /\ pc[t] = "fetched" /\ PrimaryReplica(info[t]) # None /\ info[t] \in Infos
        /\ UNCHANGED <<cache, phase, info, retries, overwritten>>
        /\ \/ pc'[t] = "done"
           \/ /\ pc'[t] = "running"
              /\ retries[t] = 0 => replica'[t] = PrimaryReplica(cache)
              /\ retries[t] # 0 => replica'[t] = PrimaryReplica(info[t])
    BY <1>6, PrimaryFoundAt DEF InItsLoop
  <2>2. ~overwritten[t] => cache = info[t]
    BY <2>1 DEF Addressed
  <2> QED BY <1>0, <2>1, <2>2 DEF Addressed
<1>7. CASE NoPrimary(t)
  BY <1>1, <1>7, NoPrimaryAt
<1>8. CASE WaitEnds(t)
  BY <1>1, <1>8, WaitEndsAt
<1>9. ASSUME NEW reply \in Errors \cup {"answer"}, RunEnds(t, reply)
      PROVE  Addressed(t)'
  <2>1. pc[t] = "running"
    BY <1>9, RunEndsAt
  <2>2. CASE RetryPrimary(t)
    BY <1>1, <2>2, RetryPrimaryAt
  <2>3. CASE RetryNext(t) /\ phase[t] = "any"
    <3>1. info[t] \in Infos /\ todo[t] \in SUBSET Others(info[t])
      BY <2>1, <2>3 DEF InItsLoop
    <3>2. \A i \in todo[t] : info[t][i] # None
      BY <1>0, <3>1, ListIsTyped
    <3>3. phase'[t] = "any" /\ pc'[t] \in {"done", "running"}
      BY <2>3, RetryNextAt
    <3>4. pc'[t] = "running" => replica'[t] # None
      BY <2>3, <3>2, RetryNextAt
    <3> QED BY <3>3, <3>4 DEF Addressed
  <2>4. CASE pc'[t] = "done"
    BY <1>1, <2>4
  <2> QED BY <1>2, <1>9, <2>2, <2>3, <2>4, RunEndsAt
<1> QED BY <1>3, <1>4, <1>5, <1>6, <1>7, <1>8, <1>9 DEF Step

-----------------------------------------------------------------------------
(* The walk over the replicas *)

(***************************************************************************)
(* What was tried stays tried, and an attempt tries its replica.           *)
(***************************************************************************)
LEMMA AttemptTries ==
  ASSUME TypeOK, NEW t \in Task, NEW reply \in Errors \cup {"answer"},
         attempts'[t] = Append(attempts[t], LastAttempt(t, reply))
  PROVE  /\ \A r : Tried(t, r) \/ r = replica[t] => Tried(t, r)'
         /\ attempts'[t][1].replica =
               IF attempts[t] = <<>> THEN replica[t] ELSE attempts[t][1].replica
<1>1. PICK n \in Nat : n = Len(attempts[t])
  BY AttemptAdded
<1>2. /\ DOMAIN attempts[t] = 1 .. n /\ DOMAIN attempts'[t] = 1 .. n + 1
      /\ \A i \in 1 .. n : attempts'[t][i] = attempts[t][i]
      /\ attempts'[t][n + 1] = LastAttempt(t, reply)
  BY <1>1, AttemptAdded
<1>3. attempts'[t][n + 1].replica = replica[t]
  BY <1>2 DEF LastAttempt
<1>4. ASSUME NEW r, Tried(t, r) \/ r = replica[t]
      PROVE  \E k \in DOMAIN attempts'[t] : attempts'[t][k].replica = r
  BY <1>2, <1>3, <1>4 DEF Tried
<1>5. attempts[t] = <<>> <=> n = 0
  BY <1>1, EmptySeq DEF TypeOK
<1> QED BY <1>2, <1>3, <1>4, <1>5 DEF Tried

(***************************************************************************)
(* The places that are left to try are finitely many.                      *)
(***************************************************************************)
LEMMA PlacesFinite ==
  ASSUME NEW db \in Infos, NEW S \in SUBSET (DOMAIN db)
  PROVE  /\ IsFiniteSet(S) /\ Cardinality(S) \in Nat /\ Cardinality(S) <= Len(db)
         /\ S # DOMAIN db => Cardinality(S) < Len(db)
<1>1. Len(db) \in Nat /\ DOMAIN db = 1 .. Len(db)
  BY ListTypes
<1>2. IsFiniteSet(DOMAIN db) /\ Cardinality(DOMAIN db) = Len(db)
  BY <1>1, FS_Interval
<1> QED BY <1>2, FS_Subset, FS_CardinalityType

LEMMA OneLessToTry ==
  ASSUME NEW db \in Infos, NEW S \in SUBSET (DOMAIN db), NEW i \in S
  PROVE  Cardinality(S \ {i}) = Cardinality(S) - 1
<1>1. IsFiniteSet(S)
  BY PlacesFinite
<1> QED BY <1>1, FS_RemoveElement

LEMMA OwnWalk ==
  ASSUME TypeOK, NEW t \in Task, InItsLoop(t), Walked(t), Call(t) \/ Step(t)
  PROVE  Walked(t)'
<1>0. cache \in Infos \cup {None} /\ phase[t] \in {"primary", "any"}
  BY DEF TypeOK
<1>1. ASSUME phase'[t] = "primary"
      PROVE  Walked(t)'
  BY <1>1 DEF Walked
<1>2. ASSUME NEW db \in Infos, attempts'[t] = <<>>, pc'[t] = "running",
             info'[t] = db, replica'[t] = PreferredReplica(db), todo'[t] = Others(db),
             result'[t] = "none"
      PROVE  Walked(t)'
  <2>1. Len(attempts'[t]) = 0
    BY <1>2
  <2>2. Cardinality(Others(db)) \in Nat
    BY PlacesFinite, OthersTypes
  <2> QED BY <1>2, <2>1, <2>2 DEF Walked
<1>3. CASE Call(t)
  <2>1. /\ pc[t] = "idle" /\ UNCHANGED <<result, attempts>>
        /\ attempts[t] = <<>> /\ result[t] = "none"
    BY <1>3 DEF Call, InItsLoop
  <2>2. CASE StartPrimary(t)
    BY <1>1, <2>2, StartPrimaryAt
  <2>3. CASE StartAny(t)
    <3>1. CASE pc'[t] = "fetching"
      BY <2>1, <3>1 DEF Walked
    <3>2. CASE pc'[t] # "fetching"
      BY <1>2, <2>1, <2>3, <3>2, StartAnyAt
    <3> QED BY <3>1, <3>2
  <2> QED BY <1>3, <2>2, <2>3 DEF Call
<1>4. CASE FetchFails(t)
  <2>1. /\ pc[t] = "fetching" /\ result[t] = "none" /\ UNCHANGED <<phase, attempts>>
        /\ pc'[t] \in {"fetching", "done"} /\ result'[t] # "exhausted"
    BY <1>4, FetchFailsAt DEF InItsLoop
  <2> QED BY <2>1 DEF Walked
<1>5. ASSUME NEW db \in Infos, FetchAnswers(t, db)
      PROVE  Walked(t)'
  <2>1. pc[t] = "fetching" /\ info'[t] = db /\ UNCHANGED <<phase, result, attempts>>
    BY <1>5, FetchAnswersAt
  <2>2. CASE phase[t] = "any"
    <3>1. /\ pc'[t] = "running" /\ replica'[t] = PreferredReplica(db)
          /\ todo'[t] = Others(db)
      BY <1>5, <2>2, FetchAnswersAt
    <3>2. attempts[t] = <<>> /\ result[t] = "none"
      BY <2>1, <2>2 DEF Walked, InItsLoop
    <3> QED BY <1>2, <2>1, <3>1, <3>2
  <2> QED BY <1>0, <1>1, <2>1, <2>2
<1>6. CASE PrimaryFound(t) \/ NoPrimary(t) \/ WaitEnds(t)
  <2>1. phase[t] = "primary" /\ UNCHANGED phase
    BY <1>6, PrimaryFoundAt, NoPrimaryAt, WaitEndsAt DEF InItsLoop
  <2> QED BY <1>1, <2>1
<1>7. ASSUME NEW reply \in Errors \cup {"answer"}, RunEnds(t, reply)
      PROVE  Walked(t)'
  <2>1. /\ pc[t] = "running" /\ result[t] = "none"
        /\ attempts'[t] = Append(attempts[t], LastAttempt(t, reply))
    BY <1>7, RunEndsAt DEF InItsLoop
  <2>2. CASE RetryPrimary(t) /\ phase[t] = "primary"
    BY <1>1, <2>2, RetryPrimaryAt
  <2>3. CASE RetryNext(t) /\ phase[t] = "any"
    <3> DEFINE db == info[t]
               rest == Others(db)
    <3>1. db \in Infos /\ todo[t] \in SUBSET rest /\ rest \in SUBSET (DOMAIN db)
      BY <2>1, <2>3, OthersTypes DEF InItsLoop
    <3>2. /\ phase'[t] = "any" /\ info'[t] = db
          /\ attempts'[t] # <<>> /\ Len(attempts[t]) \in Nat
          /\ Len(attempts'[t]) = Len(attempts[t]) + 1
      BY <2>1, <2>3, RetryNextAt, AttemptAdded
    <3>3. /\ \A i \in rest \ todo[t] : Tried(t, db[i])'
          /\ attempts'[t][1].replica = PreferredReplica(db)
      <4>1. /\ \A i \in rest \ todo[t] : replica[t] = db[i] \/ Tried(t, db[i])
            /\ attempts[t] = <<>> => replica[t] = PreferredReplica(db)
            /\ attempts[t] # <<>> => attempts[t][1].replica = PreferredReplica(db)
        BY <2>1, <2>3 DEF Walked
      <4>2. /\ \A r : Tried(t, r) \/ r = replica[t] =>
                    \E k \in DOMAIN attempts'[t] : attempts'[t][k].replica = r
            /\ attempts'[t][1].replica =
                  IF attempts[t] = <<>> THEN replica[t] ELSE attempts[t][1].replica
        BY <2>1, AttemptTries DEF Tried
      <4> QED BY <3>2, <4>1, <4>2 DEF Tried
    <3>4. /\ Len(attempts[t]) + Cardinality(todo[t]) = Cardinality(rest)
          /\ Cardinality(todo[t]) \in Nat /\ Cardinality(rest) \in Nat
      BY <2>1, <2>3, <3>1, PlacesFinite DEF Walked
    <3>5. CASE todo[t] = {} /\ pc'[t] = "done" /\ result'[t] = "exhausted"
      <4>1. Cardinality(todo[t]) = 0
        BY <3>5, FS_EmptySet
      <4> QED BY <3>1, <3>2, <3>3, <3>4, <3>5, <4>1 DEF Walked
    <3>6. CASE /\ First(todo[t]) \in todo[t] /\ pc'[t] = "running"
               /\ replica'[t] = db[First(todo[t])]
               /\ todo'[t] = todo[t] \ {First(todo[t])}
               /\ UNCHANGED result
      <4>1. Cardinality(todo'[t]) = Cardinality(todo[t]) - 1
        BY <3>1, <3>6, OneLessToTry
      <4>2. \A i \in rest \ todo'[t] : replica'[t] = db[i] \/ Tried(t, db[i])'
        BY <3>3, <3>6
      <4> QED BY <2>1, <3>1, <3>2, <3>3, <3>4, <3>6, <4>1, <4>2 DEF Walked
    <3> QED BY <2>3, <3>5, <3>6, RetryNextAt
  <2>4. CASE StartPrimary(t)
    BY <1>1, <2>4, StartPrimaryAt
  <2>5. CASE pc'[t] = "done" /\ result'[t] = Outcome(t, reply)
    <3>1. result'[t] # "exhausted"
      BY <2>5, OutcomeOfReply
    <3> QED BY <2>5, <3>1 DEF Walked
  <2> QED BY <1>7, <2>2, <2>3, <2>4, <2>5, RunEndsAt
<1> QED BY <1>3, <1>4, <1>5, <1>6, <1>7 DEF Step

-----------------------------------------------------------------------------
(* The invariant holds *)

(***************************************************************************)
(* The steps of a task leave what is known of another one.                 *)
(***************************************************************************)
LEMMA OthersKeep ==
  ASSUME TypeOK, NEW t \in Task, Call(t) \/ Step(t), NEW u \in Task \ {t}, TaskInv(u)
  PROVE  TaskInv(u)'
<1>1. /\ pc'[u] = pc[u] /\ phase'[u] = phase[u] /\ info'[u] = info[u]
      /\ seeks'[u] = seeks[u] /\ replica'[u] = replica[u] /\ todo'[u] = todo[u]
      /\ retries'[u] = retries[u] /\ result'[u] = result[u]
      /\ attempts'[u] = attempts[u]
  BY StepsAreOwn, OthersAreStill
<1>2. /\ cache # None => cache' # None
      /\ overwritten[u] => overwritten'[u]
      /\ pc[u] = "fetched" /\ ~overwritten'[u] => cache' = cache
  BY CacheIsKept
<1>3. InItsLoop(u)'
  BY <1>1, <1>2 DEF TaskInv, InItsLoop
<1>4. Counted(u)'
  <2>1. PrimaryAttempts(u)' = PrimaryAttempts(u)
    BY <1>1 DEF PrimaryAttempts
  <2> QED BY <1>1, <2>1 DEF TaskInv, Counted
<1>5. WentOn(u)'
  BY <1>1 DEF TaskInv, WentOn, GoesOn
<1>6. Addressed(u)'
  BY <1>1, <1>2 DEF TaskInv, Addressed
<1>7. Walked(u)'
  BY <1>1 DEF TaskInv, Walked, Tried
<1> QED BY <1>3, <1>4, <1>5, <1>6, <1>7 DEF TaskInv

LEMMA InitInv == Init => FailsafeInv
<1> SUFFICES ASSUME Init
             PROVE  FailsafeInv
  OBVIOUS
<1>1. TypeOK
  BY ParameterTypes DEF Init, TypeOK
<1>2. ASSUME NEW t \in Task
      PROVE  TaskInv(t)
  <2>1. /\ pc[t] = "idle" /\ retries[t] = 0 /\ attempts[t] = <<>> /\ result[t] = "none"
        /\ phase[t] = IF ModeOf[t] = "primary" THEN "primary" ELSE "any"
    BY DEF Init
  <2>2. Len(attempts[t]) = 0 /\ PrimaryAttempts(t) = {}
    BY <2>1 DEF PrimaryAttempts
  <2>3. Cardinality(PrimaryAttempts(t)) = 0
    BY <2>2, FS_EmptySet
  <2>4. InItsLoop(t) /\ Addressed(t)
    BY <2>1 DEF InItsLoop, Addressed
  <2>5. Counted(t)
    BY <2>1, <2>2, <2>3, ParameterTypes DEF Counted
  <2>6. WentOn(t) /\ Walked(t)
    BY <2>1, <2>2 DEF WentOn, Walked
  <2> QED BY <2>4, <2>5, <2>6 DEF TaskInv
<1> QED BY <1>1, <1>2 DEF FailsafeInv

LEMMA NextInv == FailsafeInv /\ [Next]_vars => FailsafeInv'
<1> SUFFICES ASSUME FailsafeInv, [Next]_vars
             PROVE  FailsafeInv'
  OBVIOUS
<1>1. TypeOK /\ \A u \in Task : TaskInv(u)
  BY DEF FailsafeInv
<1>2. ASSUME NEW t \in Task, Call(t) \/ Step(t)
      PROVE  FailsafeInv'
  <2>1. EntryTypes(t)' /\ InItsLoop(t)'
    BY <1>1, <1>2, OwnTypes DEF TaskInv
  <2>2. Counted(t)'
    BY <1>1, <1>2, OwnCount DEF TaskInv
  <2>3. WentOn(t)'
    BY <1>1, <1>2, OwnWentOn DEF TaskInv
  <2>4. Addressed(t)'
    BY <1>1, <1>2, OwnAddress DEF TaskInv
  <2>5. Walked(t)'
    BY <1>1, <1>2, OwnWalk DEF TaskInv
  <2>6. TaskInv(t)'
    BY <2>1, <2>2, <2>3, <2>4, <2>5 DEF TaskInv
  <2>7. \A u \in Task \ {t} : TaskInv(u)'
    BY <1>1, <1>2, OthersKeep
  <2>8. TypeOK'
    BY <1>1, <1>2, <2>1, StepsAreOwn, CacheIsKept, TypedByEntries
  <2> QED BY <2>6, <2>7, <2>8 DEF FailsafeInv
<1>3. CASE UNCHANGED vars
  <2>1. TypeOK'
    BY <1>1, <1>3 DEF vars, TypeOK
  <2>2. ASSUME NEW u \in Task
        PROVE  TaskInv(u)'
    <3>1. TaskInv(u)
      BY <1>1
    <3>2. InItsLoop(u)' /\ Addressed(u)'
      BY <1>3, <3>1 DEF vars, TaskInv, InItsLoop, Addressed
    <3>3. Counted(u)'
      BY <1>3, <3>1 DEF vars, TaskInv, Counted, PrimaryAttempts
    <3>4. WentOn(u)' /\ Walked(u)'
      BY <1>3, <3>1 DEF vars, TaskInv, WentOn, GoesOn, Walked, Tried
    <3> QED BY <3>2, <3>3, <3>4 DEF TaskInv
  <2> QED BY <2>1, <2>2 DEF FailsafeInv
<1> QED BY <1>2, <1>3 DEF Next

(***************************************************************************)
(* In every reachable state the variables have their types and every task  *)
(* is where its loop may be, has counted what it has tried, has gone on    *)
(* after what it had to, and has addressed what it had found.              *)
(***************************************************************************)
THEOREM Invariance == Spec => []FailsafeInv
<1>1. Init => FailsafeInv
  BY InitInv
<1>2. FailsafeInv /\ [Next]_vars => FailsafeInv'
  BY NextInv
<1> QED BY <1>1, <1>2, PTL DEF Spec

-----------------------------------------------------------------------------
(* What follows *)

(***************************************************************************)
(* runPrimaryReplica() makes at most MaxRetries + 1 attempts, and exactly  *)
(* so many when it gives up although it finds a primary each time.         *)
(***************************************************************************)
THEOREM AttemptsAreBounded == Spec => []AttemptsBounded
<1>1. FailsafeInv => AttemptsBounded
  <2> SUFFICES ASSUME FailsafeInv, NEW t \in Task
               PROVE  /\ Cardinality(PrimaryAttempts(t)) <= MaxRetries + 1
                      /\ result[t] = "exhausted" /\ phase[t] = "primary" =>
                            Cardinality(PrimaryAttempts(t)) = MaxRetries + 1
    BY DEF AttemptsBounded
  <2>1. TypeOK /\ InItsLoop(t) /\ Counted(t)
    BY DEF FailsafeInv, TaskInv
  <2>2. MaxRetries \in Nat /\ phase[t] \in {"primary", "any"} /\ retries[t] \in Nat
    BY <2>1, ParameterTypes DEF TypeOK
  <2>3. CASE phase[t] = "any"
    <3>1. Cardinality(PrimaryAttempts(t)) = 0
      BY <2>1, <2>3, FS_EmptySet DEF Counted
    <3> QED BY <2>2, <2>3, <3>1
  <2>4. CASE phase[t] = "primary"
    <3>1. result[t] = "exhausted" => pc[t] = "done"
      BY <2>1 DEF InItsLoop
    <3> QED BY <2>1, <2>2, <2>4, <3>1 DEF Counted
  <2> QED BY <2>2, <2>3, <2>4
<1> QED BY <1>1, Invariance, PTL

(***************************************************************************)
(* An attempt that met an unreachable server, or one that is not the       *)
(* primary, is made again, and no other is.                                *)
(***************************************************************************)
THEOREM FailsOverAsMeant == Spec => []FailsOver
<1>1. FailsafeInv => FailsOver
  <2> SUFFICES ASSUME FailsafeInv, NEW t \in Task
               PROVE  /\ \A i \in 1 .. Len(attempts[t]) - 1 :
                            GoesOn(t, i) /\ OperationOf[t] # "databaseDelete"
                      /\ pc[t] = "done" /\ attempts[t] # <<>> =>
                            \/ result[t] \in {"exhausted", "noReplicas", "noPrimary"}
                            \/ ~GoesOn(t, Len(attempts[t]))
                            \/ OperationOf[t] = "databaseDelete"
    BY Zenon DEF FailsOver
  <2>1. WentOn(t) /\ attempts[t] \in Seq(Attempt)
    BY DEF FailsafeInv, TaskInv, TypeOK
  <2>2. \A i \in 1 .. Len(attempts[t]) - 1 : i \in 1 .. Len(attempts[t]) /\ i < Len(attempts[t])
    BY <2>1, LenProperties
  <2> QED BY <2>1, <2>2 DEF WentOn
<1> QED BY <1>1, Invariance, PTL

(***************************************************************************)
(* A repeated attempt goes to the primary of the latest term in the list   *)
(* that the task itself has fetched, whatever happens to the cache.        *)
(***************************************************************************)
THEOREM RerunsAtLatestPrimary == Spec => []RerunAtLatestPrimary
<1>1. FailsafeInv => RerunAtLatestPrimary
  <2> SUFFICES ASSUME FailsafeInv, NEW t \in Task,
                      pc[t] = "running" /\ phase[t] = "primary" /\ retries[t] > 0
               PROVE  /\ \E i \in DOMAIN info[t] : info[t][i] = replica[t]
                      /\ replica[t].primary
                      /\ \A i \in DOMAIN info[t] :
                            info[t][i].primary => info[t][i].term <= replica[t].term
    BY DEF RerunAtLatestPrimary
  <2>1. info[t] \in Infos /\ replica[t] = PrimaryReplica(info[t]) /\ replica[t] # None
    BY DEF FailsafeInv, TaskInv, Addressed
  <2>2. PICK i \in DOMAIN info[t] :
               /\ PrimaryReplica(info[t]) = info[t][i] /\ info[t][i].primary
               /\ \A j \in DOMAIN info[t] :
                     info[t][j].primary => info[t][j].term <= info[t][i].term
    BY <2>1, PrimaryIsLatest
  <2> QED BY <2>1, <2>2
<1> QED BY <1>1, Invariance, PTL

(***************************************************************************)
(* An attempt without a replica to go to means that another task has       *)
(* overwritten the list in which this one found a primary.                 *)
(***************************************************************************)
THEOREM NullMeansOverwritten == Spec => []NullOnlyAfterOverwrite
<1>1. FailsafeInv => NullOnlyAfterOverwrite
  BY DEF FailsafeInv, TaskInv, Addressed, NullOnlyAfterOverwrite
<1> QED BY <1>1, Invariance, PTL

(***************************************************************************)
(* When runAnyReplica() gives up on a list with one preferred replica at   *)
(* most, it has tried every replica of it, the preferred one first, and if *)
(* there is one none twice.                                                *)
(***************************************************************************)
THEOREM AnyReplicaIsTried == Spec => []AnyTriesEveryReplica
<1>1. FailsafeInv => AnyTriesEveryReplica
  <2> SUFFICES ASSUME FailsafeInv, NEW t \in Task,
                      result[t] = "exhausted", phase[t] = "any"
               PROVE  /\ (\A i, j \in Preferred(info[t]) : i = j) =>
                            \A i \in DOMAIN info[t] : Tried(t, info[t][i])
                      /\ Preferred(info[t]) # {} =>
                            /\ attempts[t][1].replica.preferred
                            /\ Len(attempts[t]) <= Len(info[t])
    BY DEF AnyTriesEveryReplica, Tried
  <2> DEFINE db == info[t]
  <2>1. /\ db \in Infos /\ attempts[t] # <<>> /\ attempts[t] \in Seq(Attempt)
        /\ \A i \in Others(db) : Tried(t, db[i])
        /\ attempts[t][1].replica = PreferredReplica(db)
        /\ Len(attempts[t]) = Cardinality(Others(db)) + 1
    BY DEF FailsafeInv, TaskInv, Walked, TypeOK
  <2>2. 1 \in DOMAIN attempts[t]
    BY <2>1, LenProperties, EmptySeq
  <2>3. Tried(t, PreferredReplica(db))
    BY <2>1, <2>2 DEF Tried
  <2> HIDE DEF db
  <2>4. CASE Preferred(db) = {}
    <3>1. DOMAIN db = Others(db)
      BY <2>4 DEF Others
    <3> QED BY <2>1, <2>4, <3>1 DEF db
  <2>5. CASE Preferred(db) # {}
    <3>1. PICK p \in Preferred(db) : PreferredReplica(db) = db[p]
      BY <2>1, <2>5, PreferredIsFirst
    <3>2. db[p].preferred /\ p \in DOMAIN db /\ p \notin Others(db)
      BY <3>1 DEF Preferred, Others
    <3>3. attempts[t][1].replica.preferred
      BY <2>1, <3>1, <3>2
    <3>4. Len(attempts[t]) <= Len(db)
      <4>1. Others(db) \in SUBSET (DOMAIN db) /\ Others(db) # DOMAIN db
        BY <3>2 DEF Others
      <4>2. Cardinality(Others(db)) \in Nat /\ Cardinality(Others(db)) < Len(db)
        BY <2>1, <4>1, PlacesFinite
      <4>3. Len(db) \in Nat
        BY <2>1, ListTypes
      <4> QED BY <2>1, <4>2, <4>3
    <3>5. ASSUME \A i, j \in Preferred(db) : i = j, NEW i \in DOMAIN db
          PROVE  Tried(t, db[i])
      BY <2>1, <2>3, <3>1, <3>5 DEF Others
    <3> QED BY <3>3, <3>4, <3>5 DEF db
  <2> QED BY <2>4, <2>5
<1> QED BY <1>1, Invariance, PTL

-----------------------------------------------------------------------------
(* What is used of a step by those that run attempts, see ClusterSession *)

(***************************************************************************)
(* The step is of a task under way; retries do not go back, and a rerun    *)
(* has a replica to go to.                                                 *)
(***************************************************************************)
Moved(t) ==
    /\ \A u \in Task \ {t} :
          pc'[u] = pc[u] /\ retries'[u] = retries[u] /\ replica'[u] = replica[u]
    /\ pc[t] # "done" /\ pc'[t] # "idle"
    /\ retries[t] \in Nat /\ retries'[t] \in Nat /\ retries'[t] >= retries[t]
    /\ pc'[t] = "running" /\ retries'[t] > 0 => replica'[t] \in Replica

LEMMA OthersNotMoved ==
  ASSUME FailsafeInv, NEW t \in Task, Call(t) \/ Step(t)
  PROVE  \A u \in Task \ {t} :
            pc'[u] = pc[u] /\ retries'[u] = retries[u] /\ replica'[u] = replica[u]
BY StepsAreOwn, OthersAreStill DEF FailsafeInv

(***************************************************************************)
(* Between two attempts, and before the first, retries is left as it is.   *)
(***************************************************************************)
LEMMA MovesBetween ==
  ASSUME FailsafeInv, NEW t \in Task,
         \/ Call(t) \/ FetchFails(t) \/ (\E db \in Infos : FetchAnswers(t, db))
         \/ PrimaryFound(t) \/ NoPrimary(t) \/ WaitEnds(t)
  PROVE  Moved(t) /\ pc[t] # "running" /\ retries'[t] = retries[t]
<1>0. /\ TypeOK /\ InItsLoop(t) /\ retries[t] \in Nat /\ cache \in Infos \cup {None}
      /\ None \notin Replica
  BY ParameterTypes DEF FailsafeInv, TaskInv, TypeOK
<1>1. \A u \in Task \ {t} :
         pc'[u] = pc[u] /\ retries'[u] = retries[u] /\ replica'[u] = replica[u]
  BY OthersNotMoved DEF Step
<1> SUFFICES /\ pc[t] \notin {"done", "running"} /\ pc'[t] # "idle"
             /\ retries'[t] = retries[t]
             /\ pc'[t] = "running" /\ retries'[t] > 0 => replica'[t] \in Replica
  BY <1>0, <1>1 DEF Moved
<1>2. CASE Call(t)
  <2>1. pc[t] = "idle" /\ retries[t] = 0
    BY <1>0, <1>2 DEF Call, InItsLoop
  <2>2. StartPrimary(t) \/ StartAny(t)
    BY <1>2 DEF Call
  <2>3. retries'[t] = 0 /\ pc'[t] \in {"running", "fetching"}
    BY <1>0, <2>1, <2>2, StartPrimaryAt, StartAnyAt
  <2> QED BY <2>1, <2>3
<1>3. CASE FetchFails(t)
  BY <1>0, <1>3, FetchFailsAt
<1>4. CASE \E db \in Infos : FetchAnswers(t, db)
  <2>1. PICK db \in Infos : FetchAnswers(t, db)
    BY <1>4
  <2>2. PreferredReplica(db) \in Replica
    BY ListIsTyped
  <2> QED BY <1>0, <2>1, <2>2, FetchAnswersAt
<1>5. CASE PrimaryFound(t)
  <2>1. /\ pc[t] = "fetched" /\ pc'[t] \in {"done", "running"} /\ UNCHANGED retries
        /\ pc'[t] = "running" /\ retries[t] # 0 => replica'[t] = PrimaryReplica(info[t])
        /\ PrimaryReplica(info[t]) # None
    BY <1>0, <1>5, PrimaryFoundAt
  <2>2. PrimaryReplica(info[t]) \in Replica \cup {None}
    BY <1>0, <2>1, PrimaryTypes DEF InItsLoop
  <2> QED BY <1>0, <2>1, <2>2
<1>6. CASE NoPrimary(t)
  BY <1>0, <1>6, NoPrimaryAt
<1>7. CASE WaitEnds(t)
  BY <1>0, <1>7, WaitEndsAt
<1> QED BY <1>2, <1>3, <1>4, <1>5, <1>6, <1>7

(***************************************************************************)
(* After an attempt the task is settled or has counted a retry: what it    *)
(* runs next is a rerun.                                                   *)
(***************************************************************************)
LEMMA MovesAfterAttempt ==
  ASSUME FailsafeInv, NEW t \in Task, ModeOf[t] # "manager",
         NEW reply \in Errors \cup {"answer"}, RunEnds(t, reply)
  PROVE  /\ Moved(t) /\ pc[t] = "running"
         /\ pc'[t] = "running" => retries'[t] > 0
         /\ Outcome(t, reply) \notin {"unable", "notPrimary"} =>
               pc'[t] = "done" /\ retries'[t] = retries[t]
         /\ pc'[t] = "done" \/ retries'[t] > retries[t]
<1>0. /\ TypeOK /\ InItsLoop(t) /\ retries[t] \in Nat
  BY DEF FailsafeInv, TaskInv, TypeOK
<1>1. \A u \in Task \ {t} :
         pc'[u] = pc[u] /\ retries'[u] = retries[u] /\ replica'[u] = replica[u]
  BY OthersNotMoved DEF Step
<1>2. pc[t] = "running"
  BY DEF RunEnds
<1>3. CASE RetryPrimary(t) /\ Outcome(t, reply) \in {"unable", "notPrimary"}
  BY <1>0, <1>1, <1>2, <1>3, RetryPrimaryAt DEF Moved
<1>4. CASE RetryNext(t) /\ phase[t] = "any" /\ Outcome(t, reply) = "unable"
  <2>1. info[t] \in Infos /\ todo[t] \in SUBSET Others(info[t])
    BY <1>0, <1>2, <1>4 DEF InItsLoop
  <2>2. \A i \in todo[t] : info[t][i] \in Replica
    BY <2>1, ListIsTyped
  <2> QED BY <1>0, <1>1, <1>2, <1>4, <2>2, RetryNextAt DEF Moved
<1>5. CASE Settle(t, Outcome(t, reply)) /\ pc'[t] = "done"
  <2>1. UNCHANGED retries
    BY <1>5 DEF Settle
  <2> QED BY <1>0, <1>1, <1>2, <1>5, <2>1 DEF Moved
<1> QED BY <1>0, <1>3, <1>4, <1>5, RunEndsAt
=============================================================================
