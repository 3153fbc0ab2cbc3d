---------------------------- MODULE ClusterSession ---------------------------
(***************************************************************************)
(* Calls of transaction() on one session of the cluster client             *)
(* (connection/cluster/ClusterSession.ts).  Each is a TransactionFailsafe- *)
(* Task, a FailsafeTask whose run() opens a transaction on the inner       *)
(* session and whose rerun() first replaces the inner session by a new one *)
(* at another replica.  The tasks share the inner session.                 *)
(*                                                                         *)
(* A step is what runs between two awaits.  The steps of module            *)
(* FailsafeTask are used as they are; here is what happens within an       *)
(* attempt.  An inner session is a TypeDBSessionImpl (SessionLifecycle):   *)
(* its close() does nothing unless it is open, and closes the transactions *)
(* that were added to it; a failed pulse clears _isOpen and nothing else.  *)
(***************************************************************************)
EXTENDS Integers, Sequences

CONSTANTS Task, OperationOf, Errors, Infos, NumMembers, MaxRetries, MaxSeeks, None

VARIABLES
    cache, pc, phase, member, info, seeks, replica, todo, retries, result,
    attempts, overwritten,   \* the tasks, see FailsafeTask
    sessions,   \* the inner sessions that were opened, in that order
    current,    \* _typeDBSession: which of them it is
    stage,      \* the await of a running attempt
    on,         \* the inner session of the latest attempt of a task
    tx,         \* the transaction a task has returned
    tried,      \* history: the servers the attempts of a task went to
    refused,    \* history: the tasks that met SESSION_CLOSED
    closedOver  \* history: the tasks under way at close(), or None before it

failsafeVars == <<cache, pc, phase, member, info, seeks, replica, todo, retries,
                  result, attempts, overwritten>>
sessionVars == <<sessions, current>>
attemptVars == <<stage, on, tx, tried, refused>>

vars == <<failsafeVars, sessionVars, attemptVars, closedOver>>

Tasks == INSTANCE FailsafeTask

ASSUME ClusterAssumption ==
    /\ Tasks!FailsafeAssumption
    /\ OperationOf \in [Task -> Tasks!SessionOperations]
    /\ "SESSION_CLOSED" \in Errors
    /\ None \notin Task /\ \A S \in SUBSET Task : S # None

Server == {r.address : r \in Tasks!Replica}

\* What ended a session: a rerun, close() of the user, or a failed pulse.
SessionState == {"open", "replaced", "closed", "dead"}

TypeOK ==
    /\ Tasks!TypeOK
    /\ sessions \in Seq([state : SessionState, by : Task \cup {None}, server : Server])
    /\ current \in DOMAIN sessions
    /\ stage \in [Task -> {"none", "closing", "connecting", "connected",
                           "opening", "refused"}]
    /\ on \in [Task -> DOMAIN sessions \cup {0}]
    /\ tx \in [Task -> {"none", "open", "closed"}]
    /\ tried \in [Task -> Seq(Server)]
    /\ refused \in SUBSET Task
    /\ closedOver \in (SUBSET Task) \cup {None}

(***************************************************************************)
(* The session has been opened at some replica, which has left a list in   *)
(* the cache.                                                              *)
(***************************************************************************)
Init ==
    /\ Tasks!Init /\ cache # None
    /\ \E r \in DOMAIN cache :
          sessions = <<[state |-> "open", by |-> None, server |-> cache[r].address]>>
    /\ current = 1
    /\ stage = [t \in Task |-> "none"]
    /\ on = [t \in Task |-> 0]
    /\ tx = [t \in Task |-> "none"]
    /\ tried = [t \in Task |-> <<>>]
    /\ refused = {}
    /\ closedOver = None

IsOpen(k) == sessions[k].state = "open"

Await(t, where) == stage' = [stage EXCEPT ![t] = where]

(***************************************************************************)
(* close() of the inner session, up to its await.                          *)
(***************************************************************************)
CloseInner(how) ==
    IF IsOpen(current)
    THEN /\ sessions' = [sessions EXCEPT ![current].state = how]
         /\ tx' = [t \in Task |-> IF tx[t] = "open" /\ on[t] = current
                                  THEN "closed" ELSE tx[t]]
    ELSE UNCHANGED <<sessions, tx>>

(***************************************************************************)
(* transaction() of inner session k, up to its await.                      *)
(***************************************************************************)
AskForTransaction(t, k) == Await(t, IF IsOpen(k) THEN "opening" ELSE "refused")

-----------------------------------------------------------------------------
(* The parts of an attempt *)

(***************************************************************************)
(* run(): the inner session there is, wherever the replica may be.         *)
(***************************************************************************)
Run(t) ==
    /\ AskForTransaction(t, current)
    /\ on' = [on EXCEPT ![t] = current]
    /\ tried' = [tried EXCEPT ![t] = Append(@, sessions[current].server)]
    /\ UNCHANGED <<sessions, current, tx>>

\* Mutant of Rerun: the old session is not closed.
RerunLeavesOld(t) ==
    /\ Await(t, "closing")
    /\ UNCHANGED <<sessions, tx, current, on, tried>>

(***************************************************************************)
(* rerun(), up to its first await: close the inner session.                *)
(***************************************************************************)
Rerun(t) ==
    /\ Await(t, "closing")
    /\ CloseInner("replaced")
    /\ UNCHANGED <<current, on, tried>>

\* Mutant of NextAttempt: every attempt replaces the session.
NextAttemptReruns(t) ==
    IF pc'[t] = "running"
    THEN Rerun(t)
    ELSE Await(t, "none") /\ UNCHANGED <<sessions, current, on, tx, tried>>

(***************************************************************************)
(* A step of the task comes to its next attempt, or does not.              *)
(***************************************************************************)
NextAttempt(t) ==
    \/ pc'[t] = "running" /\ retries'[t] = 0 /\ Run(t)
    \/ pc'[t] = "running" /\ retries'[t] > 0 /\ Rerun(t)
    \/ /\ pc'[t] # "running"
       /\ Await(t, "none")
       /\ UNCHANGED <<sessions, current, on, tx, tried>>

(***************************************************************************)
(* The call of transaction(), and what a task does between its attempts.   *)
(***************************************************************************)
Call(t) == Tasks!Call(t) /\ NextAttempt(t) /\ UNCHANGED <<refused, closedOver>>

Between(t) ==
    /\ \/ Tasks!FetchFails(t)
       \/ \E db \in Infos : Tasks!FetchAnswers(t, db)
       \/ Tasks!PrimaryFound(t)
       \/ Tasks!NoPrimary(t)
       \/ Tasks!WaitEnds(t)
    /\ NextAttempt(t)
    /\ UNCHANGED <<refused, closedOver>>

(***************************************************************************)
(* The old session is closed: ask the replica for a new one.               *)
(***************************************************************************)
OldClosed(t) ==
    /\ stage[t] = "closing"
    /\ Await(t, "connecting")
    /\ tried' = [tried EXCEPT ![t] = Append(@, replica[t].address)]
    /\ UNCHANGED <<failsafeVars, sessionVars, on, tx, refused, closedOver>>

\* Mutant of SessionOpens: the new session is installed before it is awaited.
SessionOpensInstalled(t) ==
    /\ stage[t] = "connecting"
    /\ sessions' = Append(sessions, [state |-> "open", by |-> t,
                                     server |-> replica[t].address])
    /\ on' = [on EXCEPT ![t] = Len(sessions) + 1]
    /\ current' = Len(sessions) + 1
    /\ Await(t, "connected")
    /\ UNCHANGED <<failsafeVars, tx, tried, refused, closedOver>>

(***************************************************************************)
(* The new session is open, in the client of its server.                   *)
(***************************************************************************)
SessionOpens(t) ==
    /\ stage[t] = "connecting"
    /\ sessions' = Append(sessions, [state |-> "open", by |-> t,
                                     server |-> replica[t].address])
    /\ on' = [on EXCEPT ![t] = Len(sessions) + 1]
    /\ Await(t, "connected")
    /\ UNCHANGED <<failsafeVars, current, tx, tried, refused, closedOver>>

(***************************************************************************)
(* The new session becomes the inner session, and is asked for the         *)
(* transaction.                                                            *)
(***************************************************************************)
Install(t) ==
    /\ stage[t] = "connected"
    /\ current' = on[t]
    /\ AskForTransaction(t, on[t])
    /\ UNCHANGED <<failsafeVars, sessions, on, tx, tried, refused, closedOver>>

-----------------------------------------------------------------------------
(* The end of an attempt *)

AttemptFails(t, error) ==
    /\ Tasks!RunEnds(t, error)
    /\ NextAttempt(t)
    /\ UNCHANGED closedOver

(***************************************************************************)
(* The transaction is open.  It is added to its session, open or not.      *)
(***************************************************************************)
TransactionOpens(t) ==
    /\ stage[t] = "opening"
    /\ Tasks!RunEnds(t, "answer")
    /\ tx' = [tx EXCEPT ![t] = "open"]
    /\ Await(t, "none")
    /\ UNCHANGED <<sessionVars, on, tried, refused, closedOver>>

(***************************************************************************)
(* session() of the server's client, or the open request, fails.           *)
(***************************************************************************)
RemoteFails(t, error) ==
    /\ stage[t] \in {"connecting", "opening"}
    /\ AttemptFails(t, error)
    /\ UNCHANGED refused

\* Mutant of Refuse: a closed session is taken for a lost server.
RefuseAsUnable(t) ==
    /\ stage[t] = "refused"
    /\ AttemptFails(t, "UNAVAILABLE")
    /\ refused' = refused \cup {t}

(***************************************************************************)
(* SESSION_CLOSED is no error that is tried again.                         *)
(***************************************************************************)
Refuse(t) ==
    /\ stage[t] = "refused"
    /\ AttemptFails(t, "SESSION_CLOSED")
    /\ refused' = refused \cup {t}

-----------------------------------------------------------------------------
(* The session *)

(***************************************************************************)
(* close() of the cluster session closes the inner session there is.       *)
(***************************************************************************)
UserClose ==
    /\ closedOver = None
    /\ closedOver' = {t \in Task : pc[t] \notin {"idle", "done"}}
    /\ CloseInner("closed")
    /\ UNCHANGED <<failsafeVars, current, stage, on, tried, refused>>

(***************************************************************************)
(* A pulse of inner session k fails.                                       *)
(***************************************************************************)
PulseFails(k) ==
    /\ IsOpen(k)
    /\ sessions' = [sessions EXCEPT ![k].state = "dead"]
    /\ UNCHANGED <<failsafeVars, current, attemptVars, closedOver>>

Step(t) ==
    \/ Between(t)
    \/ OldClosed(t)
    \/ SessionOpens(t)
    \/ Install(t)
    \/ TransactionOpens(t)
    \/ \E error \in Errors \ {"SESSION_CLOSED"} : RemoteFails(t, error)
    \/ Refuse(t)

Next == \/ \E t \in Task : Call(t) \/ Step(t)
        \/ UserClose
        \/ \E k \in DOMAIN sessions : PulseFails(k)

Spec == Init /\ [][Next]_vars

-----------------------------------------------------------------------------
(* Properties *)

Reran(t) == retries[t] > 0

(***************************************************************************)
(* Who still holds session k: the cluster session, or the task that is     *)
(* about to install it.                                                    *)
(***************************************************************************)
Held(k) == k = current \/ \E t \in Task : stage[t] = "connected" /\ on[t] = k

(***************************************************************************)
(* An inner session that is open and that nobody holds any more was opened *)
(* by a rerun and pushed aside by the rerun of another call: a call that   *)
(* fails over alone leaves no session behind, and the session that the     *)
(* user opened is always closed (rerun).                                   *)
(***************************************************************************)
LeakOnlyByOverlap ==
    \A k \in DOMAIN sessions :
       IsOpen(k) /\ ~Held(k) =>
          /\ sessions[k].by # None
          /\ \E j \in DOMAIN sessions : sessions[j].by \notin {None, sessions[k].by}

(***************************************************************************)
(* A transaction that a call has returned is closed behind its user's back *)
(* only when the user closes the session, or when another call fails over. *)
(***************************************************************************)
ClosedOnlyByOthers ==
    \A t \in Task :
       tx[t] = "closed" => \/ closedOver # None
                           \/ \E u \in Task \ {t} : Reran(u)

(***************************************************************************)
(* A call that finds the session closed is rejected although the failover  *)
(* of another call may be about to replace the session; a rerun is never   *)
(* rejected for the sake of another one: nobody can close a session before *)
(* the call that opened it has asked it for a transaction.                 *)
(***************************************************************************)
RefusedOnlyWhenReplaced ==
    \A t \in refused :
       /\ sessions[on[t]].state # "open"
       /\ Reran(t) => sessions[on[t]].state = "dead"
       /\ sessions[on[t]].state = "replaced" => \E u \in Task \ {t} : Reran(u)

(***************************************************************************)
(* After close() the session is open again only because a call that was    *)
(* under way at the close has failed over; a session that stays closed     *)
(* until then is not opened by later calls.                                *)
(***************************************************************************)
ReopenedOnlyByPending ==
    closedOver # None /\ IsOpen(current) => \E t \in closedOver : Reran(t)

(***************************************************************************)
(* The comment in runAnyReplica (connection/cluster/FailsafeTask.ts:84):   *)
(* "Try the preferred secondary replica first, then go through the         *)
(* others": a call that gives up has tried the server of every replica.    *)
(***************************************************************************)
EveryServerTried ==
    \A t \in Task :
       result[t] = "exhausted" /\ phase[t] = "any" =>
          \A i \in DOMAIN info[t] :
             \E k \in DOMAIN tried[t] : tried[t][k] = info[t][i].address
=============================================================================
