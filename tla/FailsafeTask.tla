---------------------------- MODULE FailsafeTask -----------------------------
(***************************************************************************)
(* The tasks of the cluster client that survive the loss of a server       *)
(* (connection/cluster/FailsafeTask.ts): the search for the primary        *)
(* replica, the retries, the walk over the replicas, and the cache of      *)
(* replica lists that concurrent tasks on one database share.              *)
(*                                                                         *)
(* A step is what runs between two awaits.  run() and rerun() are abstract *)
(* in the source: they end with an answer or with an error of an RPC, from *)
(* which the stub makes what the loops tell apart.  The servers are        *)
(* outside this repository: a fetch returns any of the replica lists in    *)
(* Infos or fails.  get() of the database manager calls contains(), a task *)
(* of its own, within its attempts.                                        *)
(***************************************************************************)
EXTENDS Integers, Sequences, FiniteSets

CONSTANTS Task,        \* concurrent calls on one database
          OperationOf, \* the method each is a call of: see Operations
          Errors,      \* the errors that run() and rerun() may end in
          Infos,       \* the replica lists a server may send
          NumMembers,  \* the number of clusterMembers()
          MaxRetries,  \* PRIMARY_REPLICA_TASK_MAX_RETRIES (10 in the code)
          MaxSeeks,    \* FETCH_REPLICAS_MAX_RETRIES (10 in the code)
          None         \* null or undefined

(***************************************************************************)
(* The methods that are failsafe tasks, by their class.                    *)
(***************************************************************************)
DatabaseManagerOperations == {"contains", "create", "get"}
\* get() of a user is contains() and an object.
UserManagerOperations == {"usersAll", "usersContains", "userCreate"}
UserOperations == {"userPassword", "userDelete"}
DatabaseOperations == {"databaseDelete"}
ClientOperations == {"session", "sessionAnyReplica"}
SessionOperations == {"transaction", "transactionAnyReplica"}

Operations == UNION {DatabaseManagerOperations, UserManagerOperations, UserOperations,
                     DatabaseOperations, ClientOperations, SessionOperations}

(***************************************************************************)
(* The loop each runs in: failsafeTask() of the ClusterDatabaseManager,    *)
(* runAnyReplica() or runPrimaryReplica().                                 *)
(***************************************************************************)
ModeOf ==
    [t \in Task |->
       CASE OperationOf[t] \in DatabaseManagerOperations -> "manager"
         [] OperationOf[t] \in {"sessionAnyReplica", "transactionAnyReplica"} -> "any"
         [] OTHER -> "primary"]

Replica == UNION {{info[i] : i \in DOMAIN info} : info \in Infos}

ASSUME FailsafeAssumption ==
    /\ OperationOf \in [Task -> Operations]
    /\ "answer" \notin Errors
    /\ NumMembers \in Nat \ {0}
    /\ MaxRetries \in Nat
    /\ MaxSeeks \in Nat \ {0}
    /\ <<>> \notin Infos
    /\ \A info \in Infos : info \in Seq(Replica)
    /\ \A r \in Replica : /\ r.primary \in BOOLEAN
                          /\ r.preferred \in BOOLEAN
                          /\ r.term \in Nat
    /\ None \notin Replica /\ None \notin Infos

VARIABLES
    cache,       \* clusterDatabases()[database]
    pc,          \* where each task is
    phase,       \* the loop it is in: runPrimaryReplica() or runAnyReplica()
    member,      \* the server fetchDatabaseReplicas() asks
    info,        \* databaseClusterRPC, what the task last fetched or read
    seeks,       \* retries of seekPrimaryReplica()
    replica,     \* the replica of the next attempt
    todo,        \* the places in info of those runAnyReplica() has still to try
    retries,     \* attempts of this loop that have failed
    result,      \* how the task ended, an error by the place that throws it
    attempts,    \* history: the attempts that have ended
    overwritten  \* history: another task stored a list after this one did

vars == <<cache, pc, phase, member, info, seeks, replica, todo, retries,
          result, attempts, overwritten>>

(***************************************************************************)
(* What a TypeDBClientError is told apart by, its errorMessage.            *)
(***************************************************************************)
ErrorMessage(error) ==
    CASE error \in {"UNAVAILABLE", "UNKNOWN", "CANCELLED", "RST_STREAM"} -> "unable"
      [] error = "RPL01" -> "notPrimary"
      [] OTHER -> "other"

\* Mutant of Rejection: no error of an RPC is made a TypeDBClientError.
RejectionRaw(operation, error) == "other"

(***************************************************************************)
(* What a task rejects with: the stub makes a TypeDBClientError of the     *)
(* error, but databaseDelete() leaves it as it is.                         *)
(***************************************************************************)
Rejection(operation, error) ==
    IF operation \in DatabaseOperations THEN "other" ELSE ErrorMessage(error)

Attempt == [replica : Replica \cup {None}, phase : {"primary", "any"},
            reply : Errors \cup {"answer"}]

TypeOK ==
    /\ cache \in Infos \cup {None}
    /\ pc \in [Task -> {"idle", "fetching", "fetched", "waiting", "running", "done"}]
    /\ phase \in [Task -> {"primary", "any"}]
    /\ member \in [Task -> 1 .. NumMembers]
    /\ info \in [Task -> Infos \cup {None}]
    /\ seeks \in [Task -> 0 .. MaxSeeks]
    /\ replica \in [Task -> Replica \cup {None}]
    /\ todo \in [Task -> SUBSET (Nat \ {0})]
    /\ retries \in [Task -> Nat]
    /\ result \in [Task -> {"none", "ok", "noReplicas", "noPrimary", "exhausted",
                            "notPrimary", "other"}]
    /\ attempts \in [Task -> Seq(Attempt)]
    /\ overwritten \in [Task -> BOOLEAN]

Init ==
    /\ cache \in Infos \cup {None}   \* what earlier calls have left
    /\ pc = [t \in Task |-> "idle"]
    /\ phase = [t \in Task |-> IF ModeOf[t] = "primary" THEN "primary" ELSE "any"]
    /\ member = [t \in Task |-> 1]
    /\ info = [t \in Task |-> None]
    /\ seeks = [t \in Task |-> 0]
    /\ replica = [t \in Task |-> None]
    /\ todo = [t \in Task |-> {}]
    /\ retries = [t \in Task |-> 0]
    /\ result = [t \in Task |-> "none"]
    /\ attempts = [t \in Task |-> <<>>]
    /\ overwritten = [t \in Task |-> FALSE]

-----------------------------------------------------------------------------
(* ClusterDatabase *)

(***************************************************************************)
(* The first of a set of places in a list.                                 *)
(***************************************************************************)
First(S) == CHOOSE i \in S : \A j \in S : i <= j

Primaries(db) == {i \in DOMAIN db : db[i].primary}

\* Mutant of PrimaryReplica: the first primary, whatever its term.
PrimaryReplicaFirst(db) ==
    IF Primaries(db) = {} THEN None ELSE db[First(Primaries(db))]

(***************************************************************************)
(* primaryReplica: the primary with the highest term, the first of these.  *)
(***************************************************************************)
PrimaryReplica(db) ==
    IF Primaries(db) = {}
    THEN None
    ELSE db[First({i \in Primaries(db) :
                      \A j \in Primaries(db) : db[j].term <= db[i].term})]

(***************************************************************************)
(* preferredReplica: the first preferred one, or else the first of all.    *)
(***************************************************************************)
Preferred(db) == {i \in DOMAIN db : db[i].preferred}

PreferredReplica(db) ==
    IF Preferred(db) = {} THEN db[1] ELSE db[First(Preferred(db))]

\* Mutant of Others: the preferred replica is taken for the first one.
OthersButFirst(db) == DOMAIN db \ {1}

(***************************************************************************)
(* The places of the replicas that runAnyReplica() tries after the         *)
(* preferred one, in their order.                                          *)
(***************************************************************************)
Others(db) == DOMAIN db \ Preferred(db)

-----------------------------------------------------------------------------
(* Steps the operations share *)

Goto(t, where) == pc' = [pc EXCEPT ![t] = where]

Reject(t, error) ==
    /\ Goto(t, "done")
    /\ result' = [result EXCEPT ![t] = error]

(***************************************************************************)
(* fetchDatabaseReplicas() starts with the first member.                   *)
(***************************************************************************)
StartFetch(t) == /\ Goto(t, "fetching")
                 /\ member' = [member EXCEPT ![t] = 1]

(***************************************************************************)
(* run(r), or rerun(r) when an attempt of this loop has failed.            *)
(***************************************************************************)
Run(t, r) == /\ Goto(t, "running")
             /\ replica' = [replica EXCEPT ![t] = r]

(***************************************************************************)
(* The loop of runAnyReplica() over the replicas of db.                    *)
(***************************************************************************)
TryReplicas(t, db) ==
    /\ Run(t, PreferredReplica(db))
    /\ todo' = [todo EXCEPT ![t] = Others(db)]

\* Mutant of StartPrimary: it asks for a cached list, not for a primary in it.
StartPrimaryUnchecked(t) ==
    /\ phase' = [phase EXCEPT ![t] = "primary"]
    /\ retries' = [retries EXCEPT ![t] = 0]
    /\ seeks' = [seeks EXCEPT ![t] = 0]
    /\ IF cache # None
       THEN Run(t, PrimaryReplica(cache)) /\ UNCHANGED member
       ELSE StartFetch(t) /\ UNCHANGED replica
    /\ UNCHANGED <<cache, info, todo, overwritten>>

(***************************************************************************)
(* runPrimaryReplica() takes the primary from the cache, or seeks it.      *)
(***************************************************************************)
StartPrimary(t) ==
    /\ phase' = [phase EXCEPT ![t] = "primary"]
    /\ retries' = [retries EXCEPT ![t] = 0]
    /\ seeks' = [seeks EXCEPT ![t] = 0]
    /\ IF cache # None /\ PrimaryReplica(cache) # None
       THEN Run(t, PrimaryReplica(cache)) /\ UNCHANGED member
       ELSE StartFetch(t) /\ UNCHANGED replica
    /\ UNCHANGED <<cache, info, todo, overwritten>>

(***************************************************************************)
(* runAnyReplica() takes the replicas from the cache, or fetches them.     *)
(***************************************************************************)
StartAny(t) ==
    /\ IF cache # None
       THEN /\ info' = [info EXCEPT ![t] = cache]
            /\ TryReplicas(t, cache) /\ UNCHANGED member
       ELSE StartFetch(t) /\ UNCHANGED <<info, replica, todo>>
    /\ UNCHANGED <<cache, phase, seeks, retries, overwritten>>

-----------------------------------------------------------------------------
(* The actions *)

(***************************************************************************)
(* The call: failsafeTask() of the database manager begins with any        *)
(* replica.                                                                *)
(***************************************************************************)
Call(t) ==
    /\ pc[t] = "idle"
    /\ IF ModeOf[t] = "primary" THEN StartPrimary(t) ELSE StartAny(t)
    /\ UNCHANGED <<result, attempts>>

(***************************************************************************)
(* A member does not answer, or refuses: whatever the error, the next one  *)
(* is asked.                                                               *)
(***************************************************************************)
FetchFails(t) ==
    /\ pc[t] = "fetching"
    /\ \/ /\ member[t] < NumMembers
          /\ member' = [member EXCEPT ![t] = @ + 1]
          /\ UNCHANGED <<pc, result>>
       \/ /\ member[t] = NumMembers
          /\ Reject(t, "noReplicas")
          /\ UNCHANGED member
    /\ UNCHANGED <<cache, phase, info, seeks, replica, todo, retries, attempts,
                   overwritten>>

(***************************************************************************)
(* A member answers: the list goes to the cache, with a primary or not.    *)
(* runAnyReplica() goes on with what it fetched; seekPrimaryReplica() and  *)
(* its caller, which reads the cache again, continue in later steps.       *)
(***************************************************************************)
FetchAnswers(t, db) ==
    /\ pc[t] = "fetching"
    /\ cache' = db
    /\ info' = [info EXCEPT ![t] = db]
    /\ overwritten' = [u \in Task |-> IF u = t THEN FALSE
                                      ELSE overwritten[u] \/ pc[u] = "fetched"]
    /\ IF phase[t] = "any"
       THEN TryReplicas(t, db)
       ELSE Goto(t, "fetched") /\ UNCHANGED <<replica, todo>>
    /\ UNCHANGED <<phase, member, seeks, retries, result, attempts>>

\* Mutant of PrimaryFound: the retries are compared before they are counted.
PrimaryFoundOneMore(t) ==
    /\ pc[t] = "fetched" /\ PrimaryReplica(info[t]) # None
    /\ IF retries[t] > MaxRetries + 1
       THEN Reject(t, "exhausted") /\ UNCHANGED replica
       ELSE /\ Run(t, PrimaryReplica(IF retries[t] = 0 THEN cache ELSE info[t]))
            /\ UNCHANGED result
    /\ UNCHANGED <<cache, phase, member, info, seeks, todo, retries, attempts,
                   overwritten>>

(***************************************************************************)
(* seekPrimaryReplica() returns the primary it found.  Before the first    *)
(* attempt that is ignored and the cache is read again, which another task *)
(* may have overwritten; afterwards it is the replica of the next attempt, *)
(* if there may be one.                                                    *)
(***************************************************************************)
PrimaryFound(t) ==
    /\ pc[t] = "fetched" /\ PrimaryReplica(info[t]) # None
    /\ IF retries[t] > MaxRetries
       THEN Reject(t, "exhausted") /\ UNCHANGED replica
       ELSE /\ Run(t, PrimaryReplica(IF retries[t] = 0 THEN cache ELSE info[t]))
            /\ UNCHANGED result
    /\ UNCHANGED <<cache, phase, member, info, seeks, todo, retries, attempts,
                   overwritten>>

\* Mutant of NoPrimary: the retries of the search are not counted.
NoPrimaryUncounted(t) ==
    /\ pc[t] = "fetched" /\ PrimaryReplica(info[t]) = None
    /\ Goto(t, "waiting")
    /\ UNCHANGED <<cache, phase, member, info, seeks, replica, todo, retries,
                   result, attempts, overwritten>>

(***************************************************************************)
(* There is no primary in what was fetched: wait, and count the retry.     *)
(***************************************************************************)
NoPrimary(t) ==
    /\ pc[t] = "fetched" /\ PrimaryReplica(info[t]) = None
    /\ Goto(t, "waiting")
    /\ seeks' = [seeks EXCEPT ![t] = @ + 1]
    /\ UNCHANGED <<cache, phase, member, info, replica, todo, retries, result,
                   attempts, overwritten>>

(***************************************************************************)
(* The wait for the selection of a primary is over.                        *)
(***************************************************************************)
WaitEnds(t) ==
    /\ pc[t] = "waiting"
    /\ IF seeks[t] < MaxSeeks
       THEN StartFetch(t) /\ UNCHANGED result
       ELSE Reject(t, "noPrimary") /\ UNCHANGED member
    /\ UNCHANGED <<cache, phase, info, seeks, replica, todo, retries, attempts,
                   overwritten>>

-----------------------------------------------------------------------------
(* The end of an attempt *)

(***************************************************************************)
(* The failures that the loop of a phase catches.                          *)
(***************************************************************************)
Retriable(p, outcome) ==
    \/ outcome = "unable"
    \/ outcome = "notPrimary" /\ p = "primary"

Settle(t, outcome) ==
    /\ Reject(t, outcome)
    /\ UNCHANGED <<cache, phase, member, info, seeks, replica, todo, retries,
                   overwritten>>

(***************************************************************************)
(* runPrimaryReplica() waits and then seeks the primary again.             *)
(***************************************************************************)
RetryPrimary(t) ==
    /\ Goto(t, "waiting")
    /\ retries' = [retries EXCEPT ![t] = @ + 1]
    /\ seeks' = [seeks EXCEPT ![t] = 0]
    /\ UNCHANGED <<cache, phase, member, info, replica, todo, result, overwritten>>

(***************************************************************************)
(* runAnyReplica() goes on to the next replica, if there is one.           *)
(***************************************************************************)
RetryNext(t) ==
    /\ retries' = [retries EXCEPT ![t] = @ + 1]
    /\ IF todo[t] = {}
       THEN Reject(t, "exhausted") /\ UNCHANGED <<replica, todo>>
       ELSE /\ Run(t, info[t][First(todo[t])])
            /\ todo' = [todo EXCEPT ![t] = @ \ {First(@)}]
            /\ UNCHANGED result
    /\ UNCHANGED <<cache, phase, member, info, seeks, overwritten>>

(***************************************************************************)
(* run() or rerun() resolves with an answer or rejects with an error.      *)
(* failsafeTask() of the database manager turns to the primary when a      *)
(* replica was not the primary.                                            *)
(***************************************************************************)
RunEnds(t, reply) ==
    /\ pc[t] = "running"
    /\ attempts' = [attempts EXCEPT ![t] =
          Append(@, [replica |-> replica[t], phase |-> phase[t], reply |-> reply])]
    /\ LET outcome == IF reply = "answer" THEN "ok" ELSE Rejection(OperationOf[t], reply)
       IN  IF Retriable(phase[t], outcome)
           THEN IF phase[t] = "primary" THEN RetryPrimary(t) ELSE RetryNext(t)
           ELSE IF outcome = "notPrimary" /\ ModeOf[t] = "manager"
                THEN StartPrimary(t) /\ UNCHANGED result
                ELSE Settle(t, outcome)

Step(t) ==
    \/ FetchFails(t)
    \/ \E db \in Infos : FetchAnswers(t, db)
    \/ PrimaryFound(t)
    \/ NoPrimary(t)
    \/ WaitEnds(t)
    \/ \E reply \in Errors \cup {"answer"} : RunEnds(t, reply)

Next == \E t \in Task : Call(t) \/ Step(t)

Spec == Init /\ [][Next]_vars

(***************************************************************************)
(* Timers fire, an RPC is answered or fails, an await that is resolved     *)
(* continues.  Nothing obliges anybody to make a call.                     *)
(***************************************************************************)
FairSpec == Spec /\ \A t \in Task : WF_vars(Step(t))

-----------------------------------------------------------------------------
(* Properties *)

PrimaryAttempts(t) == {i \in DOMAIN attempts[t] : attempts[t][i].phase = "primary"}

(***************************************************************************)
(* runPrimaryReplica() makes one attempt and at most MaxRetries more, and  *)
(* does not give up after fewer while it finds a primary each time.        *)
(***************************************************************************)
AttemptsBounded ==
    \A t \in Task :
       /\ Cardinality(PrimaryAttempts(t)) <= MaxRetries + 1
       /\ result[t] = "exhausted" /\ phase[t] = "primary" =>
             Cardinality(PrimaryAttempts(t)) = MaxRetries + 1

(***************************************************************************)
(* An attempt that met an unreachable server, or one that is not the       *)
(* primary, is made again, and nothing else is: not what was answered, not *)
(* what was refused.  The exceptions are databaseDelete(), which gives up  *)
(* at the first error of any kind (TypeDBStub.ts:71), the any-replica      *)
(* calls, which give up at a server that is not the primary, and a loop    *)
(* that is used up.                                                        *)
(***************************************************************************)
Unreachable == {"UNAVAILABLE", "UNKNOWN", "CANCELLED", "RST_STREAM"}

GoesOn(t, i) ==
    \/ attempts[t][i].reply \in Unreachable
    \/ /\ attempts[t][i].reply = "RPL01"
       /\ attempts[t][i].phase = "any" => ModeOf[t] = "manager"

FailsOver ==
    \A t \in Task :
       /\ \A i \in 1 .. Len(attempts[t]) - 1 :
             GoesOn(t, i) /\ OperationOf[t] # "databaseDelete"
       /\ pc[t] = "done" /\ attempts[t] # <<>> =>
             \/ result[t] \in {"exhausted", "noReplicas", "noPrimary"}
             \/ ~GoesOn(t, Len(attempts[t]))
             \/ OperationOf[t] = "databaseDelete"

(***************************************************************************)
(* A repeated attempt goes to a replica that the task itself has fetched   *)
(* since the failure and that is the primary of the latest term in there,  *)
(* whatever the other tasks do to the cache.                               *)
(***************************************************************************)
RerunAtLatestPrimary ==
    \A t \in Task :
       pc[t] = "running" /\ phase[t] = "primary" /\ retries[t] > 0 =>
          /\ \E i \in DOMAIN info[t] : info[t][i] = replica[t]
          /\ replica[t].primary
          /\ \A i \in DOMAIN info[t] :
                info[t][i].primary => info[t][i].term <= replica[t].term

(***************************************************************************)
(* The first attempt has a replica to go to, unless another task has put a *)
(* list without a primary in the cache since this task found one.          *)
(***************************************************************************)
NullOnlyAfterOverwrite ==
    \A t \in Task : pc[t] = "running" /\ replica[t] = None => overwritten[t]

(***************************************************************************)
(* When the any-replica loop gives up on a list with one preferred replica *)
(* at most, it has tried every replica of that list, the preferred one     *)
(* first, and none twice unless no replica was preferred.                  *)
(***************************************************************************)
AnyTriesEveryReplica ==
    \A t \in Task :
       result[t] = "exhausted" /\ phase[t] = "any" =>
          /\ (\A i, j \in Preferred(info[t]) : i = j) =>
                \A i \in DOMAIN info[t] :
                   \E k \in DOMAIN attempts[t] : attempts[t][k].replica = info[t][i]
          /\ Preferred(info[t]) # {} =>
                /\ attempts[t][1].replica.preferred
                /\ Len(attempts[t]) <= Len(info[t])

(***************************************************************************)
(* Every call settles: the waits and the retries are bounded.              *)
(***************************************************************************)
EveryTaskSettles ==
    \A t \in Task : pc[t] # "idle" ~> pc[t] = "done"
=============================================================================
