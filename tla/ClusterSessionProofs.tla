------------------------- MODULE ClusterSessionProofs -------------------------
(***************************************************************************)
(* Theorems about the calls of transaction() on one session of the cluster *)
(* client (module ClusterSession), for any calls, any replica lists and    *)
(* any bounds on the retries: what one call may do to the session of       *)
(* another, and which of them may meet a session that is closed.           *)
(***************************************************************************)
EXTENDS ClusterSession, SequenceTheorems, TLAPS

\* The theorems about the tasks alone.
Safe == INSTANCE FailsafeTaskProofs

-----------------------------------------------------------------------------
(* The tasks within the session *)

LEMMA SameSteps ==
  ASSUME NEW t \in Task
  PROVE  /\ Tasks!Call(t) <=> Safe!Call(t)
         /\ Tasks!FetchFails(t) <=> Safe!FetchFails(t)
         /\ \A db \in Infos : Tasks!FetchAnswers(t, db) <=> Safe!FetchAnswers(t, db)
         /\ Tasks!PrimaryFound(t) <=> Safe!PrimaryFound(t)
         /\ Tasks!NoPrimary(t) <=> Safe!NoPrimary(t)
         /\ Tasks!WaitEnds(t) <=> Safe!WaitEnds(t)
         /\ \A reply : Tasks!RunEnds(t, reply) <=> Safe!RunEnds(t, reply)
<1>1. Tasks!Call(t) <=> Safe!Call(t)
  BY Zenon DEF Tasks!Call, Safe!Call, Tasks!StartPrimary, Safe!StartPrimary,
               Tasks!Run, Safe!Run, Tasks!Goto, Safe!Goto, Tasks!PrimaryReplica,
               Safe!PrimaryReplica, Tasks!Primaries, Safe!Primaries, Tasks!First,
               Safe!First, Tasks!StartFetch, Safe!StartFetch, Tasks!StartAny,
               Safe!StartAny, Tasks!TryReplicas, Safe!TryReplicas,
               Tasks!PreferredReplica, Safe!PreferredReplica, Tasks!Preferred,
               Safe!Preferred, Tasks!Others, Safe!Others, Tasks!ModeOf, Safe!ModeOf,
               Tasks!DatabaseManagerOperations, Safe!DatabaseManagerOperations
<1>2. Tasks!FetchFails(t) <=> Safe!FetchFails(t)
  BY Zenon DEF Tasks!FetchFails, Safe!FetchFails, Tasks!Reject, Safe!Reject,
               Tasks!Goto, Safe!Goto
<1>3. \A db \in Infos : Tasks!FetchAnswers(t, db) <=> Safe!FetchAnswers(t, db)
  BY Zenon DEF Tasks!FetchAnswers, Safe!FetchAnswers, Tasks!TryReplicas,
               Safe!TryReplicas, Tasks!Run, Safe!Run, Tasks!Goto, Safe!Goto,
               Tasks!PreferredReplica, Safe!PreferredReplica, Tasks!Preferred,
               Safe!Preferred, Tasks!First, Safe!First, Tasks!Others, Safe!Others
<1>4. Tasks!PrimaryFound(t) <=> Safe!PrimaryFound(t)
  BY Zenon DEF Tasks!PrimaryFound, Safe!PrimaryFound, Tasks!Reject, Safe!Reject,
               Tasks!Goto, Safe!Goto, Tasks!Run, Safe!Run, Tasks!PrimaryReplica,
               Safe!PrimaryReplica, Tasks!Primaries, Safe!Primaries, Tasks!First,
               Safe!First
<1>5. Tasks!NoPrimary(t) <=> Safe!NoPrimary(t)
  BY Zenon DEF Tasks!NoPrimary, Safe!NoPrimary, Tasks!Goto, Safe!Goto,
               Tasks!PrimaryReplica, Safe!PrimaryReplica, Tasks!Primaries,
               Safe!Primaries, Tasks!First, Safe!First
<1>6. Tasks!WaitEnds(t) <=> Safe!WaitEnds(t)
  BY Zenon DEF Tasks!WaitEnds, Safe!WaitEnds, Tasks!StartFetch, Safe!StartFetch,
               Tasks!Goto, Safe!Goto, Tasks!Reject, Safe!Reject
<1>7. \A reply : Tasks!RunEnds(t, reply) <=> Safe!RunEnds(t, reply)
  BY Zenon DEF Tasks!RunEnds, Safe!RunEnds, Tasks!Rejection, Safe!Rejection,
               Tasks!DatabaseOperations, Safe!DatabaseOperations, Tasks!ErrorMessage,
               Safe!ErrorMessage, Tasks!Retriable, Safe!Retriable,
               Tasks!RetryPrimary, Safe!RetryPrimary, Tasks!Goto, Safe!Goto,
               Tasks!RetryNext, Safe!RetryNext, Tasks!Reject, Safe!Reject, Tasks!Run,
               Safe!Run, Tasks!First, Safe!First, Tasks!ModeOf, Safe!ModeOf,
               Tasks!DatabaseManagerOperations, Safe!DatabaseManagerOperations,
               Tasks!StartPrimary, Safe!StartPrimary, Tasks!PrimaryReplica,
               Safe!PrimaryReplica, Tasks!Primaries, Safe!Primaries,
               Tasks!StartFetch, Safe!StartFetch, Tasks!Settle, Safe!Settle
<1> QED BY <1>1, <1>2, <1>3, <1>4, <1>5, <1>6, <1>7

LEMMA SameStates ==
  /\ Tasks!TypeOK <=> Safe!TypeOK
  /\ Tasks!Replica = Safe!Replica
  /\ Tasks!Init <=> Safe!Init
<1>1. Tasks!TypeOK <=> Safe!TypeOK
  BY Zenon DEF Tasks!TypeOK, Safe!TypeOK, Tasks!Attempt, Safe!Attempt, Tasks!Replica,
               Safe!Replica
<1>2. Tasks!Replica = Safe!Replica
  BY Zenon DEF Tasks!Replica, Safe!Replica
<1>3. Tasks!Init <=> Safe!Init
  BY Zenon DEF Tasks!Init, Safe!Init, Tasks!ModeOf, Safe!ModeOf,
               Tasks!DatabaseManagerOperations, Safe!DatabaseManagerOperations
<1> QED BY <1>1, <1>2, <1>3

(***************************************************************************)
(* Every step is a step of one task, or leaves the tasks alone.            *)
(***************************************************************************)
LEMMA StepsOfTasks == [Next]_vars => [Tasks!Next]_(Tasks!vars)
<1> SUFFICES ASSUME [Next]_vars PROVE [Tasks!Next]_(Tasks!vars)
  OBVIOUS
<1>1. ASSUME UNCHANGED failsafeVars
      PROVE  UNCHANGED Tasks!vars
  BY <1>1 DEF failsafeVars, Tasks!vars
<1>2. ASSUME NEW t \in Task, Tasks!Call(t) \/ Tasks!Step(t)
      PROVE  Tasks!Next
  BY <1>2 DEF Tasks!Next
<1>3. ASSUME NEW t \in Task, Call(t)
      PROVE  Tasks!Next
  BY <1>2, <1>3 DEF Call
<1>4. ASSUME NEW t \in Task, Between(t)
      PROVE  Tasks!Next
  BY <1>2, <1>4 DEF Between, Tasks!Step
<1>5. ASSUME NEW t \in Task, NEW reply \in Errors \cup {"answer"}, Tasks!RunEnds(t, reply)
      PROVE  Tasks!Next
  BY <1>2, <1>5 DEF Tasks!Step
<1>6. ASSUME NEW t \in Task,
             \/ TransactionOpens(t) \/ Refuse(t)
             \/ \E error \in Errors \ {"SESSION_CLOSED"} : RemoteFails(t, error)
      PROVE  Tasks!Next
  BY <1>5, <1>6, ClusterAssumption DEF TransactionOpens, Refuse, RemoteFails, AttemptFails
<1>7. ASSUME NEW t \in Task, OldClosed(t) \/ SessionOpens(t) \/ Install(t)
      PROVE  UNCHANGED failsafeVars
  BY <1>7 DEF OldClosed, SessionOpens, Install
<1>8. UserClose \/ (\E k \in DOMAIN sessions : PulseFails(k)) => UNCHANGED failsafeVars
  BY DEF UserClose, PulseFails
<1> QED BY <1>1, <1>3, <1>4, <1>6, <1>7, <1>8 DEF Next, Step, vars

(***************************************************************************)
(* The calls take the steps of module FailsafeTask, which this module      *)
(* builds its own from (ClusterSession.transaction); so its theorems can   *)
(* be used here.                                                           *)
(***************************************************************************)
LEMMA CallsAreFailsafeTasks == Spec => Tasks!Spec
<1>1. Init => Tasks!Init
  BY DEF Init
<1> QED BY <1>1, StepsOfTasks, PTL DEF Spec, Tasks!Spec

LEMMA SafeAssumption == Safe!FailsafeAssumption
<1>1. Tasks!FailsafeAssumption
  BY ClusterAssumption
<1> QED BY <1>1, Zenon DEF Tasks!FailsafeAssumption, Safe!FailsafeAssumption,
  Tasks!Replica, Safe!Replica, Tasks!Operations, Safe!Operations,
  Tasks!DatabaseManagerOperations, Safe!DatabaseManagerOperations,
  Tasks!UserManagerOperations, Safe!UserManagerOperations,
  Tasks!UserOperations, Safe!UserOperations, Tasks!DatabaseOperations,
  Safe!DatabaseOperations, Tasks!ClientOperations, Safe!ClientOperations,
  Tasks!SessionOperations, Safe!SessionOperations

(***************************************************************************)
(* What is proved of the tasks holds of the calls of transaction(): how    *)
(* often they attempt, after what, and where.                              *)
(***************************************************************************)
THEOREM CallsInheritFailsafe == Spec => []Safe!FailsafeInv
<1>1. Tasks!Next => Safe!Next
  BY SameSteps DEF Tasks!Next, Safe!Next, Tasks!Step, Safe!Step
<1>2. UNCHANGED Tasks!vars => UNCHANGED Safe!vars
  BY DEF Tasks!vars, Safe!vars
<1>3. Tasks!Init => Safe!Init
  BY SameStates
<1>4. Tasks!Spec => Safe!Spec
  BY <1>1, <1>2, <1>3, PTL DEF Tasks!Spec, Safe!Spec
<1>5. Safe!Spec => []Safe!FailsafeInv
  BY SafeAssumption, Safe!Invariance
<1>6. Spec => Tasks!Spec
  BY CallsAreFailsafeTasks
<1> QED BY <1>4, <1>5, <1>6, PTL

-----------------------------------------------------------------------------
(* What a step is to the session *)

(***************************************************************************)
(* The attempt of t is over, or a wait of t between its attempts: without  *)
(* an effect on the session, with a transaction, or with SESSION_CLOSED.   *)
(***************************************************************************)
Quits(t) ==
    /\ Safe!Moved(t) /\ pc'[t] # "running"
    /\ stage' = [stage EXCEPT ![t] = "none"]
    /\ UNCHANGED <<sessions, current, on, tried, closedOver>>
    /\ \/ /\ UNCHANGED <<tx, refused>>
          /\ \/ pc[t] # "running" /\ retries'[t] = retries[t]
             \/ stage[t] \in {"connecting", "opening"}
       \/ /\ stage[t] = "opening" /\ pc'[t] = "done"
          /\ tx' = [tx EXCEPT ![t] = "open"] /\ UNCHANGED refused
       \/ /\ stage[t] = "refused" /\ pc'[t] = "done" /\ retries'[t] = retries[t]
          /\ refused' = refused \cup {t} /\ UNCHANGED tx

(***************************************************************************)
(* t makes its first attempt.                                              *)
(***************************************************************************)
Runs(t) ==
    /\ Safe!Moved(t) /\ pc[t] # "running" /\ pc'[t] = "running" /\ ~Reran(t)'
    /\ Run(t) /\ UNCHANGED <<refused, closedOver>>

(***************************************************************************)
(* t makes another attempt, after one that has failed.                     *)
(***************************************************************************)
Reruns(t) ==
    /\ Safe!Moved(t) /\ pc'[t] = "running" /\ Reran(t)'
    /\ \/ pc[t] # "running" /\ Reran(t)
       \/ stage[t] \in {"connecting", "opening"}
    /\ Rerun(t) /\ UNCHANGED <<refused, closedOver>>

LEMMA ModesOfSession == \A t \in Task : Safe!ModeOf[t] # "manager"
BY ClusterAssumption DEF Safe!ModeOf, Tasks!SessionOperations, Safe!DatabaseManagerOperations

LEMMA MovesOfBetween ==
  ASSUME Safe!FailsafeInv, NEW t \in Task, Call(t) \/ Between(t)
  PROVE  Safe!Moved(t) /\ pc[t] # "running" /\ retries'[t] = retries[t]
<1>1. \/ Safe!Call(t) \/ Safe!FetchFails(t)
      \/ (\E db \in Infos : Safe!FetchAnswers(t, db))
      \/ Safe!PrimaryFound(t) \/ Safe!NoPrimary(t) \/ Safe!WaitEnds(t)
  BY SameSteps DEF Call, Between
<1> QED BY <1>1, SafeAssumption, Safe!MovesBetween

LEMMA MovesOfAttempt ==
  ASSUME Safe!FailsafeInv, NEW t \in Task, NEW reply \in Errors \cup {"answer"},
         Tasks!RunEnds(t, reply)
  PROVE  /\ Safe!Moved(t) /\ pc[t] = "running"
         /\ pc'[t] = "running" => retries'[t] > 0
         /\ reply \in {"SESSION_CLOSED", "answer"} =>
               pc'[t] = "done" /\ retries'[t] = retries[t]
         /\ pc'[t] = "done" \/ retries'[t] > retries[t]
<1>1. Safe!RunEnds(t, reply)
  BY SameSteps
<1>2. Safe!ModeOf[t] # "manager"
  BY ModesOfSession
<1>3. reply \in {"SESSION_CLOSED", "answer"} =>
         Safe!Outcome(t, reply) \notin {"unable", "notPrimary"}
  BY DEF Safe!Outcome, Safe!Rejection, Safe!ErrorMessage
<1> QED BY <1>1, <1>2, <1>3, SafeAssumption, Safe!MovesAfterAttempt

LEMMA KindsOfSteps ==
  ASSUME Safe!FailsafeInv, NEW t \in Task, Call(t) \/ Step(t)
  PROVE  \/ Quits(t) \/ Runs(t) \/ Reruns(t)
         \/ OldClosed(t) \/ SessionOpens(t) \/ Install(t)
<1>1. CASE Call(t) \/ Between(t)
  <2>1. Safe!Moved(t) /\ pc[t] # "running" /\ retries'[t] = retries[t]
    BY <1>1, MovesOfBetween
  <2>2. NextAttempt(t) /\ UNCHANGED <<refused, closedOver>>
    BY <1>1 DEF Call, Between
  <2> QED BY <2>1, <2>2 DEF NextAttempt, Quits, Runs, Reruns, Reran, Await
<1>2. CASE TransactionOpens(t)
  <2>1. Safe!Moved(t) /\ pc'[t] = "done"
    BY <1>2, MovesOfAttempt DEF TransactionOpens
  <2> QED BY <1>2, <2>1 DEF TransactionOpens, Quits, Await, sessionVars
<1>3. CASE \E error \in Errors \ {"SESSION_CLOSED"} : RemoteFails(t, error)
  <2>1. PICK error \in Errors : RemoteFails(t, error)
    BY <1>3
  <2>2. Safe!Moved(t) /\ (pc'[t] = "running" => retries'[t] > 0)
    BY <2>1, MovesOfAttempt DEF RemoteFails, AttemptFails
  <2>3. /\ stage[t] \in {"connecting", "opening"}
        /\ NextAttempt(t) /\ UNCHANGED <<refused, closedOver>>
    BY <2>1 DEF RemoteFails, AttemptFails
  <2> QED BY <2>2, <2>3 DEF NextAttempt, Quits, Reruns, Reran, Await
<1>4. CASE Refuse(t)
  <2>1. Safe!Moved(t) /\ pc'[t] = "done" /\ retries'[t] = retries[t]
    BY <1>4, MovesOfAttempt, ClusterAssumption DEF Refuse, AttemptFails
  <2> QED BY <1>4, <2>1 DEF Refuse, AttemptFails, NextAttempt, Quits, Await
<1> QED BY <1>1, <1>2, <1>3, <1>4 DEF Step

-----------------------------------------------------------------------------
(* The inductive invariant *)

Inner == [state : SessionState, by : Task \cup {None}, server : Server]

SessionTypes ==
    /\ sessions \in Seq(Inner)
    /\ current \in DOMAIN sessions
    /\ stage \in [Task -> {"none", "closing", "connecting", "connected",
                           "opening", "refused"}]
    /\ on \in [Task -> DOMAIN sessions \cup {0}]
    /\ tx \in [Task -> {"none", "open", "closed"}]
    /\ tried \in [Task -> Seq(Server)]
    /\ refused \in SUBSET Task
    /\ closedOver \in (SUBSET Task) \cup {None}

\* The stages of rerun(), up to the installation of the new session.
Renewing == {"closing", "connecting", "connected"}

(***************************************************************************)
(* The await of a task, and the loop it is in.                             *)
(***************************************************************************)
Staged(t) ==
    /\ pc[t] = "running" <=> stage[t] # "none"
    /\ stage[t] \in Renewing => Reran(t)
    /\ stage[t] \in {"closing", "connecting"} => replica[t] \in Tasks!Replica
    /\ pc[t] = "idle" => ~Reran(t)
    /\ tx[t] # "none" \/ t \in refused => pc[t] = "done"
    /\ stage[t] \in {"connected", "opening", "refused"} \/ t \in refused \/ tx[t] # "none"
          => on[t] # 0

(***************************************************************************)
(* Only the first inner session was not opened by a rerun; it is the       *)
(* current one while it is open, and no rerun is under way then.  What a   *)
(* rerun has connected nobody else has taken or closed.                    *)
(***************************************************************************)
Owned ==
    /\ \A k \in DOMAIN sessions : sessions[k].by = None <=> k = 1
    /\ IsOpen(1) => current = 1 /\ \A t \in Task : stage[t] \notin Renewing
    /\ \A t \in Task : stage[t] = "connected" =>
          /\ sessions[on[t]].by = t /\ on[t] # current
          /\ sessions[on[t]].state \in {"open", "dead"}

(***************************************************************************)
(* While t renews the session, what is open besides its own new session is *)
(* the work of another rerun.                                              *)
(***************************************************************************)
Overlapped(t) == \E j \in DOMAIN sessions : sessions[j].by \notin {None, t}

Alone(t) ==
    stage[t] \in Renewing =>
       \/ Overlapped(t)
       \/ \A k \in DOMAIN sessions : IsOpen(k) => stage[t] = "connected" /\ k = on[t]

Replaced ==
    \A k \in DOMAIN sessions : sessions[k].state = "replaced" => \E u \in Task : Reran(u)

(***************************************************************************)
(* A call is refused by a session that has been closed before, one that    *)
(* has been rerun by its own new session, which can only have died.        *)
(***************************************************************************)
Rejected(t) ==
    stage[t] = "refused" \/ t \in refused =>
       /\ sessions[on[t]].state # "open"
       /\ Reran(t) => sessions[on[t]].state = "dead"

(***************************************************************************)
(* After close(), until a call that was under way reruns, the session is   *)
(* closed, and the calls made since then are refused or end.               *)
(***************************************************************************)
Reopening ==
    closedOver # None =>
       \/ \E u \in closedOver : Reran(u)
       \/ /\ ~IsOpen(current)
          /\ \A t \in Task \ closedOver :
                (pc[t] = "done" \/ ~Reran(t)) /\ stage[t] \in {"none", "refused"}

ClusterInv ==
    /\ SessionTypes /\ Owned /\ Replaced /\ Reopening
    /\ LeakOnlyByOverlap /\ ClosedOnlyByOthers
    /\ \A t \in Task : Staged(t) /\ Alone(t) /\ Rejected(t)

-----------------------------------------------------------------------------
(* Lemmas about the inner sessions *)

LEMMA Distinct == "SESSION_CLOSED" \in Errors /\ None \notin Task
                  /\ \A S \in SUBSET Task : S # None
BY ClusterAssumption

LEMMA SessionsTyped ==
  ASSUME SessionTypes
  PROVE  /\ Len(sessions) \in Nat \ {0} /\ DOMAIN sessions = 1 .. Len(sessions)
         /\ \A k \in DOMAIN sessions : sessions[k] \in Inner
<1>1. sessions \in Seq(Inner) /\ current \in DOMAIN sessions
  BY DEF SessionTypes
<1>2. Len(sessions) \in Nat /\ DOMAIN sessions = 1 .. Len(sessions)
  BY <1>1, LenProperties
<1> QED BY <1>1, <1>2, ElementOfSeq

(***************************************************************************)
(* The end of session k leaves the others as they are.                     *)
(***************************************************************************)
LEMMA SessionEnded ==
  ASSUME SessionTypes, NEW k \in DOMAIN sessions, NEW how \in SessionState,
         sessions' = [sessions EXCEPT ![k].state = how]
  PROVE  /\ sessions' \in Seq(Inner) /\ DOMAIN sessions' = DOMAIN sessions
         /\ \A j \in DOMAIN sessions : /\ sessions'[j].by = sessions[j].by
                                       /\ sessions'[j].server = sessions[j].server
                                       /\ j # k => sessions'[j] = sessions[j]
         /\ sessions'[k].state = how
<1> DEFINE e == [sessions[k] EXCEPT !.state = how]
<1>1. sessions \in Seq(Inner) /\ k \in 1 .. Len(sessions) /\ sessions[k] \in Inner
      /\ DOMAIN sessions = 1 .. Len(sessions)
  BY SessionsTyped DEF SessionTypes
<1>2. e \in Inner /\ e.state = how /\ e.by = sessions[k].by /\ e.server = sessions[k].server
  BY <1>1 DEF Inner
<1>3. sessions' = [sessions EXCEPT ![k] = e]
  OBVIOUS
<1> HIDE DEF e
<1>4. sessions' \in Seq(Inner)
  BY <1>1, <1>2, <1>3, ExceptSeq
<1>5. DOMAIN sessions' = DOMAIN sessions
      /\ \A j \in DOMAIN sessions : sessions'[j] = IF j = k THEN e ELSE sessions[j]
  BY <1>3
<1> QED BY <1>2, <1>4, <1>5

(***************************************************************************)
(* The end of session k leaves the others as they are, and may close the   *)
(* transactions that were added to it (close).                             *)
(***************************************************************************)
EndsCurrent(how) ==
    /\ sessions' \in Seq(Inner) /\ DOMAIN sessions' = DOMAIN sessions
    /\ \A j \in DOMAIN sessions : /\ sessions'[j].by = sessions[j].by
                                  /\ j # current => sessions'[j] = sessions[j]
    /\ IF IsOpen(current) THEN sessions'[current].state = how
                          ELSE sessions'[current] = sessions[current]
    /\ tx' \in [Task -> {"none", "open", "closed"}]
    /\ \A u \in Task :
          \/ tx'[u] = tx[u]
          \/ tx[u] = "open" /\ tx'[u] = "closed"

LEMMA CloseInnerAt ==
  ASSUME SessionTypes, NEW how \in SessionState, CloseInner(how)
  PROVE  EndsCurrent(how)
<1>0. current \in DOMAIN sessions /\ tx \in [Task -> {"none", "open", "closed"}]
      /\ sessions \in Seq(Inner)
  BY DEF SessionTypes
<1>1. CASE IsOpen(current)
  <2>1. sessions' = [sessions EXCEPT ![current].state = how]
    BY <1>1 DEF CloseInner
  <2>2. tx' = [t \in Task |-> IF tx[t] = "open" /\ on[t] = current
                              THEN "closed" ELSE tx[t]]
    BY <1>1 DEF CloseInner
  <2>3. /\ sessions' \in Seq(Inner) /\ DOMAIN sessions' = DOMAIN sessions
        /\ \A j \in DOMAIN sessions : /\ sessions'[j].by = sessions[j].by
                                      /\ j # current => sessions'[j] = sessions[j]
        /\ sessions'[current].state = how
    BY <1>0, <2>1, SessionEnded
  <2>4. tx' \in [Task -> {"none", "open", "closed"}]
    BY <1>0, <2>2
  <2>5. \A u \in Task : tx'[u] = tx[u] \/ (tx[u] = "open" /\ tx'[u] = "closed")
    BY <2>2
  <2> QED BY <1>1, <2>3, <2>4, <2>5 DEF EndsCurrent
<1>2. CASE ~IsOpen(current)
  BY <1>0, <1>2 DEF CloseInner, EndsCurrent
<1> QED BY <1>1, <1>2

LEMMA SessionAdded ==
  ASSUME SessionTypes, NEW e \in Inner, sessions' = Append(sessions, e)
  PROVE  LET n == Len(sessions) + 1
         IN  /\ sessions' \in Seq(Inner) /\ DOMAIN sessions' = DOMAIN sessions \cup {n}
             /\ n \notin DOMAIN sessions /\ n # 1 /\ n # 0
             /\ \A j \in DOMAIN sessions : sessions'[j] = sessions[j]
             /\ sessions'[n] = e
<1>1. sessions \in Seq(Inner) /\ Len(sessions) \in Nat \ {0}
      /\ DOMAIN sessions = 1 .. Len(sessions)
  BY SessionsTyped DEF SessionTypes
<1>2. /\ sessions' \in Seq(Inner) /\ DOMAIN sessions' = 1 .. Len(sessions) + 1
      /\ \A j \in 1 .. Len(sessions) : sessions'[j] = sessions[j]
      /\ sessions'[Len(sessions) + 1] = e
  BY <1>1, AppendProperties, LenProperties
<1> QED BY <1>1, <1>2

-----------------------------------------------------------------------------
(* Every kind of step keeps the invariant *)

(***************************************************************************)
(* A step within Reopening: who has rerun has rerun for good, so the step  *)
(* counts only while no call under way at the close has.                   *)
(***************************************************************************)
Unopened ==
    /\ ~IsOpen(current)
    /\ \A u \in Task \ closedOver :
          (pc[u] = "done" \/ ~Reran(u)) /\ stage[u] \in {"none", "refused"}

LEMMA ReopeningKept ==
  ASSUME SessionTypes, Reopening, closedOver' = closedOver,
         \A u \in Task : Reran(u) => Reran(u)',
         closedOver # None /\ (\A u \in closedOver : ~Reran(u)) /\ Unopened =>
            Unopened' \/ \E u \in closedOver : Reran(u)'
  PROVE  Reopening'
<1> SUFFICES ASSUME closedOver # None
             PROVE  (\E u \in closedOver : Reran(u)') \/ Unopened'
  BY Zenon DEF Reopening, Unopened
<1>1. closedOver \in SUBSET Task
  BY DEF SessionTypes
<1>2. CASE \E u \in closedOver : Reran(u)
  BY <1>1, <1>2
<1>3. CASE \A u \in closedOver : ~Reran(u)
  <2>1. Unopened
    BY <1>3 DEF Reopening, Unopened
  <2> QED BY <1>3, <2>1
<1> QED BY <1>2, <1>3

LEMMA QuitsKeeps ==
  ASSUME ClusterInv, NEW t \in Task, Quits(t)
  PROVE  ClusterInv'
<1>0. /\ SessionTypes /\ Owned /\ Replaced /\ Reopening
      /\ LeakOnlyByOverlap /\ ClosedOnlyByOthers
      /\ \A u \in Task : Staged(u) /\ Alone(u) /\ Rejected(u)
  BY DEF ClusterInv
<1>1. /\ \A u \in Task \ {t} : /\ pc'[u] = pc[u] /\ retries'[u] = retries[u]
                               /\ replica'[u] = replica[u]
      /\ pc[t] # "done" /\ pc'[t] \notin {"idle", "running"}
      /\ retries[t] \in Nat /\ retries'[t] \in Nat /\ retries'[t] >= retries[t]
  BY DEF Quits, Safe!Moved
<1>2. /\ stage' \in [Task -> {"none", "closing", "connecting", "connected",
                              "opening", "refused"}]
      /\ stage'[t] = "none" /\ \A u \in Task \ {t} : stage'[u] = stage[u]
  BY <1>0 DEF Quits, SessionTypes
<1>3. sessions' = sessions /\ current' = current /\ on' = on /\ closedOver' = closedOver
      /\ tried' = tried
  BY DEF Quits
<1>4. \A u \in Task : Reran(u) => Reran(u)'
  BY <1>1 DEF Reran
<1>5. /\ \A u \in Task \ {t} : /\ tx'[u] = tx[u]
                               /\ u \in refused' <=> u \in refused
      /\ refused' \in SUBSET Task /\ tx' \in [Task -> {"none", "open", "closed"}]
      /\ tx'[t] # tx[t] => tx'[t] = "open" /\ stage[t] = "opening" /\ pc'[t] = "done"
      /\ t \in refused' /\ t \notin refused =>
            stage[t] = "refused" /\ pc'[t] = "done" /\ retries'[t] = retries[t]
  BY <1>0 DEF Quits, SessionTypes
<1>6. /\ stage[t] \in {"connecting", "opening"} \/ retries'[t] = retries[t]
      /\ stage[t] # "connected"
  <2>1. pc[t] = "running" <=> stage[t] # "none"
    BY <1>0 DEF Staged
  <2> QED BY <2>1 DEF Quits
<1>7. SessionTypes'
  BY <1>0, <1>2, <1>3, <1>5 DEF SessionTypes
<1>8. \A u \in Task : /\ stage'[u] \in Renewing => stage[u] \in Renewing
                      /\ stage'[u] = "connected" <=> stage[u] = "connected"
  BY <1>2, <1>6 DEF Renewing
<1>9. Owned'
  BY <1>0, <1>3, <1>8 DEF Owned, IsOpen
<1>10. Replaced'
  BY <1>0, <1>3, <1>4 DEF Replaced
<1>11. Reopening'
  <2>1. ASSUME Unopened
        PROVE  Unopened'
    <3>1. ~IsOpen(current)'
      BY <1>3, <2>1 DEF IsOpen, Unopened
    <3> QED BY <1>1, <1>2, <1>3, <1>6, <2>1, <3>1 DEF Reran, Unopened
  <2> QED BY <1>0, <1>3, <1>4, <2>1, ReopeningKept
<1>12. LeakOnlyByOverlap'
  BY <1>0, <1>3, <1>8 DEF LeakOnlyByOverlap, IsOpen, Held
<1>13. ClosedOnlyByOthers'
  BY <1>0, <1>3, <1>4, <1>5 DEF ClosedOnlyByOthers
<1>14. ASSUME NEW u \in Task
       PROVE  Staged(u)' /\ Alone(u)' /\ Rejected(u)'
  <2>0. Staged(u) /\ Alone(u) /\ Rejected(u)
    BY <1>0
  <2>1. Staged(u)'
    BY <1>1, <1>2, <1>3, <1>5, <2>0 DEF Staged, Renewing, Reran
  <2>2. Alone(u)'
    BY <1>2, <1>3, <2>0 DEF Alone, Overlapped, IsOpen, Renewing
  <2>3. Rejected(u)'
    BY <1>1, <1>2, <1>3, <1>5, <2>0 DEF Rejected, Reran, Staged
  <2> QED BY <2>1, <2>2, <2>3
<1> QED BY <1>7, <1>9, <1>10, <1>11, <1>12, <1>13, <1>14 DEF ClusterInv

LEMMA RunsKeeps ==
  ASSUME ClusterInv, NEW t \in Task, Runs(t)
  PROVE  ClusterInv'
<1>0. /\ SessionTypes /\ Owned /\ Replaced /\ Reopening
      /\ LeakOnlyByOverlap /\ ClosedOnlyByOthers
      /\ \A u \in Task : Staged(u) /\ Alone(u) /\ Rejected(u)
  BY DEF ClusterInv
<1>1. /\ \A u \in Task \ {t} : /\ pc'[u] = pc[u] /\ retries'[u] = retries[u]
                               /\ replica'[u] = replica[u]
      /\ pc[t] \notin {"done", "running"} /\ pc'[t] = "running" /\ ~Reran(t)'
      /\ retries[t] \in Nat /\ retries'[t] \in Nat /\ retries'[t] >= retries[t]
  BY DEF Runs, Safe!Moved
<1>2. /\ sessions' = sessions /\ current' = current /\ tx' = tx
      /\ refused' = refused /\ closedOver' = closedOver
  BY DEF Runs, Run
<1>3. current \in DOMAIN sessions /\ current # 0
  BY <1>0, SessionsTyped DEF SessionTypes
<1>4. /\ on' \in [Task -> DOMAIN sessions \cup {0}]
      /\ on'[t] = current /\ \A u \in Task \ {t} : on'[u] = on[u]
  BY <1>0, <1>3 DEF Runs, Run, SessionTypes
<1>5. /\ stage' \in [Task -> {"none", "closing", "connecting", "connected",
                              "opening", "refused"}]
      /\ stage'[t] = IF IsOpen(current) THEN "opening" ELSE "refused"
      /\ \A u \in Task \ {t} : stage'[u] = stage[u]
  BY <1>0 DEF Runs, Run, AskForTransaction, Await, SessionTypes
<1>6. tried' \in [Task -> Seq(Server)]
  <2>1. sessions[current].server \in Server
    BY <1>0, <1>3, SessionsTyped DEF Inner
  <2>2. tried \in [Task -> Seq(Server)]
        /\ tried' = [tried EXCEPT ![t] = Append(@, sessions[current].server)]
    BY <1>0 DEF Runs, Run, SessionTypes
  <2>3. Append(tried[t], sessions[current].server) \in Seq(Server)
    BY <2>1, <2>2, AppendProperties
  <2> QED BY <2>2, <2>3
<1>7. SessionTypes'
  BY <1>0, <1>2, <1>4, <1>5, <1>6 DEF SessionTypes
<1>8. stage[t] = "none"
  BY <1>0, <1>1 DEF Staged
<1>9. \A u \in Task :
         /\ Reran(u) => Reran(u)'
         /\ stage'[u] \in Renewing => stage[u] \in Renewing
         /\ stage'[u] = "connected" <=> stage[u] = "connected"
         /\ stage'[u] = "connected" => on'[u] = on[u]
  BY <1>1, <1>4, <1>5, <1>8 DEF Renewing, Reran
<1>10. Owned'
  BY <1>0, <1>2, <1>9 DEF Owned, IsOpen
<1>11. Replaced'
  BY <1>0, <1>2, <1>9 DEF Replaced
<1>12. Reopening'
  <2>1. ASSUME Unopened
        PROVE  Unopened'
    BY <1>1, <1>2, <1>5, <2>1 DEF Unopened, IsOpen, Reran
  <2> QED BY <1>0, <1>2, <1>9, <2>1, ReopeningKept
<1>13. LeakOnlyByOverlap'
  BY <1>0, <1>2, <1>9 DEF LeakOnlyByOverlap, IsOpen, Held
<1>14. ClosedOnlyByOthers'
  BY <1>0, <1>2, <1>9 DEF ClosedOnlyByOthers
<1>15. ASSUME NEW u \in Task
       PROVE  Staged(u)' /\ Alone(u)' /\ Rejected(u)'
  <2>0. Staged(u) /\ Alone(u) /\ Rejected(u)
    BY <1>0
  <2>1. Staged(u)'
    BY <1>1, <1>2, <1>3, <1>4, <1>5, <2>0 DEF Staged, Renewing, Reran
  <2>2. Alone(u)'
    BY <1>2, <1>9, <2>0 DEF Alone, Overlapped, IsOpen
  <2>3. Rejected(u)'
    BY <1>1, <1>2, <1>4, <1>5, <2>0 DEF Rejected, Reran, Staged, IsOpen
  <2> QED BY <2>1, <2>2, <2>3
<1> QED BY <1>7, <1>10, <1>11, <1>12, <1>13, <1>14, <1>15 DEF ClusterInv

LEMMA RerunsKeeps ==
  ASSUME ClusterInv, NEW t \in Task, Reruns(t)
  PROVE  ClusterInv'
<1>0. /\ SessionTypes /\ Owned /\ Replaced /\ Reopening
      /\ LeakOnlyByOverlap /\ ClosedOnlyByOthers
      /\ \A u \in Task : Staged(u) /\ Alone(u) /\ Rejected(u)
  BY DEF ClusterInv
<1>1. /\ \A u \in Task \ {t} : /\ pc'[u] = pc[u] /\ retries'[u] = retries[u]
                               /\ replica'[u] = replica[u]
      /\ pc[t] # "done" /\ pc'[t] = "running" /\ Reran(t)'
      /\ replica'[t] \in Tasks!Replica
      /\ retries[t] \in Nat /\ retries'[t] \in Nat /\ retries'[t] >= retries[t]
  BY SameStates DEF Reruns, Safe!Moved, Reran
<1>2. /\ current' = current /\ on' = on /\ tried' = tried
      /\ refused' = refused /\ closedOver' = closedOver
  BY DEF Reruns, Rerun
<1>3. stage[t] \in {"connecting", "opening"} \/ (stage[t] = "none" /\ Reran(t))
  <2>1. pc[t] = "running" <=> stage[t] # "none"
    BY <1>0 DEF Staged
  <2> QED BY <2>1 DEF Reruns
<1>4. /\ stage' \in [Task -> {"none", "closing", "connecting", "connected",
                              "opening", "refused"}]
      /\ stage'[t] = "closing" /\ \A u \in Task \ {t} : stage'[u] = stage[u]
  BY <1>0 DEF Reruns, Rerun, Await, SessionTypes
<1>5. EndsCurrent("replaced")
  BY <1>0, CloseInnerAt DEF Reruns, Rerun, SessionState
<1>6. current \in DOMAIN sessions
  BY <1>0 DEF SessionTypes
<1>7. /\ DOMAIN sessions' = DOMAIN sessions
      /\ ~IsOpen(current)'
      /\ \A k \in DOMAIN sessions :
            /\ sessions'[k].by = sessions[k].by
            /\ IsOpen(k)' => IsOpen(k) /\ k # current
            /\ k # current \/ ~IsOpen(k) => sessions'[k] = sessions[k]
  BY <1>2, <1>5, <1>6 DEF EndsCurrent, IsOpen
<1>8. SessionTypes'
  BY <1>0, <1>2, <1>4, <1>5, <1>7 DEF SessionTypes, EndsCurrent
<1>9. \A u \in Task :
         /\ Reran(u) => Reran(u)'
         /\ stage'[u] = "connected" <=> stage[u] = "connected"
         /\ stage[u] \in {"connected", "opening", "refused"} \/ u \in refused
               => on[u] \in DOMAIN sessions
  BY <1>0, <1>1, <1>3, <1>4 DEF Reran, SessionTypes, Staged
<1>10. 1 \in DOMAIN sessions
  BY <1>0, SessionsTyped
<1>11. Owned'
  <2>1. ~IsOpen(1)'
    BY <1>0, <1>7, <1>10 DEF Owned
  <2>2. \A k \in DOMAIN sessions' : sessions'[k].by = None <=> k = 1
    BY <1>0, <1>7 DEF Owned
  <2>3. ASSUME NEW u \in Task, stage'[u] = "connected"
        PROVE  /\ sessions'[on'[u]].by = u /\ on'[u] # current'
               /\ sessions'[on'[u]].state \in {"open", "dead"}
    BY <1>0, <1>2, <1>7, <1>9, <2>3 DEF Owned
  <2> QED BY <2>1, <2>2, <2>3 DEF Owned
<1>12. Replaced'
  BY <1>1 DEF Replaced
<1>13. Reopening'
  <2>1. closedOver # None => closedOver \in SUBSET Task
    BY <1>0 DEF SessionTypes
  <2>2. ASSUME closedOver # None, Unopened
        PROVE  \E u \in closedOver : Reran(u)'
    BY <1>1, <1>3, <2>2 DEF Unopened
  <2> QED BY <1>0, <1>2, <1>9, <2>2, ReopeningKept
<1>14. LeakOnlyByOverlap'
  <2>1. \A k \in DOMAIN sessions : IsOpen(k)' /\ ~Held(k)' => IsOpen(k) /\ ~Held(k)
    BY <1>2, <1>7, <1>9 DEF Held
  <2> QED BY <1>0, <1>7, <2>1 DEF LeakOnlyByOverlap
<1>15. ClosedOnlyByOthers'
  <2>1. ASSUME NEW u \in Task, tx'[u] = "closed", tx[u] # "closed"
        PROVE  u # t
    BY <1>0, <1>1, <1>5, <2>1 DEF EndsCurrent, Staged
  <2> QED BY <1>0, <1>1, <1>2, <1>9, <2>1 DEF ClosedOnlyByOthers
<1>16. Overlapped(t) \/ \A k \in DOMAIN sessions : ~IsOpen(k)'
  <2> SUFFICES ASSUME NEW k \in DOMAIN sessions, IsOpen(k)'
               PROVE  Overlapped(t)
    OBVIOUS
  <2>1. IsOpen(k) /\ k # current
    BY <1>7
  <2>2. CASE Held(k)
    <3>1. PICK u \in Task : stage[u] = "connected" /\ on[u] = k
      BY <2>1, <2>2 DEF Held
    <3>2. sessions[k].by = u /\ u # t /\ u # None
      BY <1>0, <1>3, <3>1, Distinct DEF Owned
    <3> QED BY <3>2 DEF Overlapped
  <2>3. CASE ~Held(k)
    <3>1. sessions[k].by # None
          /\ \E j \in DOMAIN sessions : sessions[j].by \notin {None, sessions[k].by}
      BY <1>0, <2>1, <2>3 DEF LeakOnlyByOverlap
    <3> QED BY <3>1 DEF Overlapped
  <2> QED BY <2>2, <2>3
<1>17. ASSUME NEW u \in Task
       PROVE  Staged(u)' /\ Alone(u)' /\ Rejected(u)'
  <2>0. Staged(u) /\ Alone(u) /\ Rejected(u)
    BY <1>0
  <2>1. tx'[u] # "none" => tx[u] # "none"
    BY <1>5 DEF EndsCurrent
  <2>2. Staged(u)'
    BY <1>1, <1>2, <1>4, <2>0, <2>1 DEF Staged, Renewing, Reran
  <2>3. Overlapped(u) => Overlapped(u)'
    BY <1>7 DEF Overlapped
  <2>4. Alone(u)'
    <3>1. CASE u = t
      BY <1>4, <1>7, <1>16, <2>3, <3>1 DEF Alone
    <3>2. CASE u # t
      BY <1>2, <1>4, <1>7, <2>0, <2>3, <3>2 DEF Alone
    <3> QED BY <3>1, <3>2
  <2>5. Rejected(u)'
    <3> SUFFICES ASSUME stage'[u] = "refused" \/ u \in refused
                 PROVE  /\ sessions'[on[u]].state # "open"
                        /\ Reran(u)' => sessions'[on[u]].state = "dead"
      BY <1>2 DEF Rejected
    <3>1. u # t /\ (stage[u] = "refused" \/ u \in refused)
      BY <1>1, <1>4, <2>0 DEF Staged
    <3>2. /\ sessions[on[u]].state # "open" /\ on[u] \in DOMAIN sessions
          /\ Reran(u) => sessions[on[u]].state = "dead"
      BY <1>9, <2>0, <3>1 DEF Rejected
    <3>3. sessions'[on[u]] = sessions[on[u]]
      BY <1>7, <3>2 DEF IsOpen
    <3> QED BY <1>1, <3>1, <3>2, <3>3 DEF Reran
  <2> QED BY <2>2, <2>4, <2>5
<1> QED BY <1>8, <1>11, <1>12, <1>13, <1>14, <1>15, <1>17 DEF ClusterInv

(***************************************************************************)
(* A step that leaves the tasks alone.                                     *)
(***************************************************************************)
LEMMA TasksStill ==
  ASSUME UNCHANGED failsafeVars
  PROVE  /\ pc' = pc /\ retries' = retries /\ replica' = replica
         /\ \A u \in Task : Reran(u)' <=> Reran(u)
BY DEF failsafeVars, Reran

LEMMA OldClosedKeeps ==
  ASSUME ClusterInv, NEW t \in Task, OldClosed(t)
  PROVE  ClusterInv'
<1>0. /\ SessionTypes /\ Owned /\ Replaced /\ Reopening
      /\ LeakOnlyByOverlap /\ ClosedOnlyByOthers
      /\ \A u \in Task : Staged(u) /\ Alone(u) /\ Rejected(u)
  BY DEF ClusterInv
<1>1. /\ pc' = pc /\ retries' = retries /\ replica' = replica
      /\ \A u \in Task : Reran(u)' <=> Reran(u)
  BY TasksStill DEF OldClosed
<1>2. /\ sessions' = sessions /\ current' = current /\ on' = on /\ tx' = tx
      /\ refused' = refused /\ closedOver' = closedOver
  BY DEF OldClosed, sessionVars
<1>3. /\ stage' \in [Task -> {"none", "closing", "connecting", "connected",
                              "opening", "refused"}]
      /\ stage[t] = "closing" /\ stage'[t] = "connecting"
      /\ \A u \in Task \ {t} : stage'[u] = stage[u]
  BY <1>0 DEF OldClosed, Await, SessionTypes
<1>4. tried' \in [Task -> Seq(Server)]
  <2>1. replica[t].address \in Server
    BY <1>0, <1>3 DEF Staged, Server
  <2>2. tried \in [Task -> Seq(Server)]
        /\ tried' = [tried EXCEPT ![t] = Append(@, replica[t].address)]
    BY <1>0 DEF OldClosed, SessionTypes
  <2>3. Append(tried[t], replica[t].address) \in Seq(Server)
    BY <2>1, <2>2, AppendProperties
  <2> QED BY <2>2, <2>3
<1>5. SessionTypes'
  BY <1>0, <1>2, <1>3, <1>4 DEF SessionTypes
<1>6. \A u \in Task :
         /\ stage'[u] \in Renewing <=> stage[u] \in Renewing
         /\ stage'[u] = "connected" <=> stage[u] = "connected"
  BY <1>3 DEF Renewing
<1>7. Owned'
  BY <1>0, <1>2, <1>6 DEF Owned, IsOpen
<1>8. Replaced'
  BY <1>0, <1>1, <1>2 DEF Replaced
<1>9. Reopening'
  <2>1. ASSUME closedOver # None, Unopened
        PROVE  \E u \in closedOver : Reran(u)'
    BY <1>0, <1>1, <1>3, <2>1 DEF Unopened, Staged, Renewing
  <2> QED BY <1>0, <1>1, <1>2, <2>1, ReopeningKept
<1>10. LeakOnlyByOverlap'
  BY <1>0, <1>2, <1>6 DEF LeakOnlyByOverlap, IsOpen, Held
<1>11. ClosedOnlyByOthers'
  BY <1>0, <1>1, <1>2 DEF ClosedOnlyByOthers
<1>12. ASSUME NEW u \in Task
       PROVE  Staged(u)' /\ Alone(u)' /\ Rejected(u)'
  <2>0. Staged(u) /\ Alone(u) /\ Rejected(u)
    BY <1>0
  <2>1. Staged(u)'
    BY <1>1, <1>2, <1>3, <2>0 DEF Staged, Renewing
  <2>2. Alone(u)'
    BY <1>2, <1>6, <2>0 DEF Alone, Overlapped, IsOpen
  <2>3. Rejected(u)'
    BY <1>1, <1>2, <1>3, <2>0 DEF Rejected
  <2> QED BY <2>1, <2>2, <2>3
<1> QED BY <1>5, <1>7, <1>8, <1>9, <1>10, <1>11, <1>12 DEF ClusterInv

LEMMA SessionOpensKeeps ==
  ASSUME ClusterInv, NEW t \in Task, SessionOpens(t)
  PROVE  ClusterInv'
<1>0. /\ SessionTypes /\ Owned /\ Replaced /\ Reopening
      /\ LeakOnlyByOverlap /\ ClosedOnlyByOthers
      /\ \A u \in Task : Staged(u) /\ Alone(u) /\ Rejected(u)
  BY DEF ClusterInv
<1>1. /\ pc' = pc /\ retries' = retries /\ replica' = replica
      /\ \A u \in Task : Reran(u)' <=> Reran(u)
  BY TasksStill DEF SessionOpens
<1>2. /\ current' = current /\ tx' = tx /\ tried' = tried
      /\ refused' = refused /\ closedOver' = closedOver
  BY DEF SessionOpens
<1> DEFINE n == Len(sessions) + 1
           e == [state |-> "open", by |-> t, server |-> replica[t].address]
<1>3. e \in Inner
  BY <1>0 DEF SessionOpens, Staged, Server, Inner, SessionState
<1>4. sessions' = Append(sessions, e) /\ on' = [on EXCEPT ![t] = n]
  BY DEF SessionOpens
<1>5. e.by = t /\ e.state = "open"
  OBVIOUS
<1>6. PICK new : new = n
  OBVIOUS
<1> HIDE DEF e, n
<1>7. /\ sessions' \in Seq(Inner) /\ DOMAIN sessions' = DOMAIN sessions \cup {new}
      /\ new \notin DOMAIN sessions /\ new # 1 /\ new # 0
      /\ \A j \in DOMAIN sessions : sessions'[j] = sessions[j]
      /\ sessions'[new].by = t /\ sessions'[new].state = "open"
  BY <1>0, <1>3, <1>4, <1>5, <1>6, SessionAdded DEF n
<1>8. /\ on' \in [Task -> DOMAIN sessions' \cup {0}] /\ on'[t] = new
      /\ \A u \in Task \ {t} : on'[u] = on[u]
  BY <1>0, <1>4, <1>6, <1>7 DEF SessionTypes
<1>9. /\ stage' \in [Task -> {"none", "closing", "connecting", "connected",
                              "opening", "refused"}]
      /\ stage[t] = "connecting" /\ stage'[t] = "connected"
      /\ \A u \in Task \ {t} : stage'[u] = stage[u]
  BY <1>0 DEF SessionOpens, Await, SessionTypes
<1>10. current \in DOMAIN sessions /\ current # new /\ 1 \in DOMAIN sessions /\ t # None
  BY <1>0, <1>7, SessionsTyped, Distinct DEF SessionTypes
<1>11. SessionTypes'
  BY <1>0, <1>2, <1>7, <1>8, <1>9, <1>10 DEF SessionTypes
<1>12. /\ IsOpen(new)' /\ IsOpen(current)' = IsOpen(current)
       /\ \A k \in DOMAIN sessions : IsOpen(k)' = IsOpen(k)
  BY <1>2, <1>7, <1>10 DEF IsOpen
<1>13. \A u \in Task :
         /\ stage'[u] \in Renewing <=> stage[u] \in Renewing
         /\ stage[u] \in {"connected", "opening", "refused"} \/ u \in refused
               => on[u] \in DOMAIN sessions
  BY <1>0, <1>9 DEF Renewing, Staged, SessionTypes
<1>14. Owned'
  <2>1. \A k \in DOMAIN sessions' : sessions'[k].by = None <=> k = 1
    BY <1>0, <1>7, <1>10 DEF Owned
  <2>2. IsOpen(1)' => current' = 1 /\ \A u \in Task : stage'[u] \notin Renewing
    BY <1>0, <1>2, <1>10, <1>12, <1>13 DEF Owned
  <2>3. ASSUME NEW u \in Task, stage'[u] = "connected"
        PROVE  /\ sessions'[on'[u]].by = u /\ on'[u] # current'
               /\ sessions'[on'[u]].state \in {"open", "dead"}
    <3>1. CASE u = t
      BY <1>2, <1>7, <1>8, <1>10, <3>1
    <3>2. CASE u # t
      BY <1>0, <1>2, <1>7, <1>8, <1>9, <1>13, <2>3, <3>2 DEF Owned
    <3> QED BY <3>1, <3>2
  <2> QED BY <2>1, <2>2, <2>3 DEF Owned
<1>15. Replaced'
  BY <1>0, <1>1, <1>7 DEF Replaced
<1>16. Reopening'
  <2>1. ASSUME closedOver # None, Unopened
        PROVE  \E u \in closedOver : Reran(u)'
    BY <1>0, <1>1, <1>9, <2>1 DEF Unopened, Staged, Renewing
  <2> QED BY <1>0, <1>1, <1>2, <2>1, ReopeningKept
<1>17. LeakOnlyByOverlap'
  <2> SUFFICES ASSUME NEW k \in DOMAIN sessions', IsOpen(k)', ~Held(k)'
               PROVE  /\ sessions'[k].by # None
                      /\ \E j \in DOMAIN sessions' :
                            sessions'[j].by \notin {None, sessions'[k].by}
    BY DEF LeakOnlyByOverlap
  <2>1. k # new /\ k \in DOMAIN sessions
    BY <1>7, <1>8, <1>9 DEF Held
  <2>2. ~Held(k)
    BY <1>2, <1>8, <1>9 DEF Held
  <2>3. /\ sessions[k].by # None
        /\ \E j \in DOMAIN sessions : sessions[j].by \notin {None, sessions[k].by}
    BY <1>0, <1>12, <2>1, <2>2 DEF LeakOnlyByOverlap
  <2> QED BY <1>7, <2>1, <2>3
<1>18. ClosedOnlyByOthers'
  BY <1>0, <1>1, <1>2 DEF ClosedOnlyByOthers
<1>19. ASSUME NEW u \in Task
       PROVE  Staged(u)' /\ Alone(u)' /\ Rejected(u)'
  <2>0. Staged(u) /\ Alone(u) /\ Rejected(u)
    BY <1>0
  <2>1. Staged(u)'
    BY <1>1, <1>2, <1>7, <1>8, <1>9, <2>0 DEF Staged, Renewing
  <2>2. Overlapped(u) => Overlapped(u)'
    BY <1>7 DEF Overlapped
  <2>3. Alone(u)'
    <3>1. CASE u = t
      BY <1>7, <1>8, <1>9, <1>12, <2>0, <2>2, <3>1 DEF Alone, Renewing
    <3>2. CASE u # t
      <4>1. Overlapped(u)'
        BY <1>7, <1>10, <3>2 DEF Overlapped
      <4> QED BY <4>1 DEF Alone
    <3> QED BY <3>1, <3>2
  <2>4. Rejected(u)'
    <3> SUFFICES ASSUME stage'[u] = "refused" \/ u \in refused
                 PROVE  /\ sessions'[on'[u]].state # "open"
                        /\ Reran(u)' => sessions'[on'[u]].state = "dead"
      BY <1>2 DEF Rejected
    <3>1. u # t /\ (stage[u] = "refused" \/ u \in refused)
      BY <1>9, <2>0 DEF Staged
    <3>2. /\ sessions[on[u]].state # "open" /\ on[u] \in DOMAIN sessions
          /\ Reran(u) => sessions[on[u]].state = "dead"
      BY <1>13, <2>0, <3>1 DEF Rejected
    <3> QED BY <1>1, <1>7, <1>8, <3>1, <3>2
  <2> QED BY <2>1, <2>3, <2>4
<1> QED BY <1>11, <1>14, <1>15, <1>16, <1>17, <1>18, <1>19 DEF ClusterInv

LEMMA InstallKeeps ==
  ASSUME ClusterInv, NEW t \in Task, Install(t)
  PROVE  ClusterInv'
<1>0. /\ SessionTypes /\ Owned /\ Replaced /\ Reopening
      /\ LeakOnlyByOverlap /\ ClosedOnlyByOthers
      /\ \A u \in Task : Staged(u) /\ Alone(u) /\ Rejected(u)
  BY DEF ClusterInv
<1>1. /\ pc' = pc /\ retries' = retries /\ replica' = replica
      /\ \A u \in Task : Reran(u)' <=> Reran(u)
  BY TasksStill DEF Install
<1>2. /\ sessions' = sessions /\ current' = on[t] /\ on' = on /\ tx' = tx
      /\ tried' = tried /\ refused' = refused /\ closedOver' = closedOver
  BY DEF Install
<1>3. /\ stage' \in [Task -> {"none", "closing", "connecting", "connected",
                              "opening", "refused"}]
      /\ stage[t] = "connected"
      /\ stage'[t] = IF IsOpen(on[t]) THEN "opening" ELSE "refused"
      /\ \A u \in Task \ {t} : stage'[u] = stage[u]
  BY <1>0 DEF Install, AskForTransaction, Await, SessionTypes
<1>4. on[t] \in DOMAIN sessions
  BY <1>0, <1>3 DEF Staged, SessionTypes
<1>5. /\ sessions[on[t]].by = t /\ on[t] # current /\ t # None
      /\ sessions[on[t]].state \in {"open", "dead"}
  BY <1>0, <1>3, Distinct DEF Owned
<1>6. SessionTypes'
  BY <1>0, <1>2, <1>3, <1>4 DEF SessionTypes
<1>7. Reran(t) /\ ~IsOpen(1)
  BY <1>0, <1>3 DEF Staged, Renewing, Owned
<1>8. Owned'
  <2>1. ASSUME NEW u \in Task, stage'[u] = "connected"
        PROVE  /\ sessions[on[u]].by = u /\ on[u] # on[t]
               /\ sessions[on[u]].state \in {"open", "dead"}
    BY <1>0, <1>3, <1>5, <2>1 DEF Owned
  <2> QED BY <1>0, <1>2, <1>7, <2>1 DEF Owned, IsOpen
<1>9. Replaced'
  BY <1>0, <1>1, <1>2 DEF Replaced
<1>10. Reopening'
  <2>1. ASSUME closedOver # None, Unopened
        PROVE  \E u \in closedOver : Reran(u)'
    BY <1>0, <1>1, <1>3, <1>7, <2>1 DEF Unopened
  <2> QED BY <1>0, <1>1, <1>2, <2>1, ReopeningKept
<1>11. LeakOnlyByOverlap'
  <2> SUFFICES ASSUME NEW k \in DOMAIN sessions, IsOpen(k), ~Held(k)'
               PROVE  /\ sessions[k].by # None
                      /\ \E j \in DOMAIN sessions : sessions[j].by \notin {None, sessions[k].by}
    BY <1>2 DEF LeakOnlyByOverlap, IsOpen
  <2>1. k # on[t]
    BY <1>2 DEF Held
  <2>2. sessions[k].by # None
    BY <1>0, <1>7 DEF Owned
  <2>3. CASE sessions[k].by # t
    BY <1>4, <1>5, <2>2, <2>3
  <2>4. CASE sessions[k].by = t
    <3>1. Overlapped(t)
      BY <1>0, <1>3, <2>1 DEF Alone, Renewing
    <3> QED BY <2>2, <2>4, <3>1 DEF Overlapped
  <2> QED BY <2>2, <2>3, <2>4
<1>12. ClosedOnlyByOthers'
  BY <1>0, <1>1, <1>2 DEF ClosedOnlyByOthers
<1>13. ASSUME NEW u \in Task
       PROVE  Staged(u)' /\ Alone(u)' /\ Rejected(u)'
  <2>0. Staged(u) /\ Alone(u) /\ Rejected(u)
    BY <1>0
  <2>1. Staged(u)'
    BY <1>1, <1>2, <1>3, <2>0 DEF Staged, Renewing
  <2>2. Alone(u)'
    BY <1>2, <1>3, <2>0 DEF Alone, Overlapped, IsOpen, Renewing
  <2>3. Rejected(u)'
    BY <1>1, <1>2, <1>3, <1>5, <2>0 DEF Rejected, IsOpen
  <2> QED BY <2>1, <2>2, <2>3
<1> QED BY <1>6, <1>8, <1>9, <1>10, <1>11, <1>12, <1>13 DEF ClusterInv

(***************************************************************************)
(* One session ends, by close() or by a failed pulse, that was open; calls *)
(* go on as they are.                                                      *)
(***************************************************************************)
Ends(k, how) ==
    /\ sessions' \in Seq(Inner) /\ DOMAIN sessions' = DOMAIN sessions
    /\ \A j \in DOMAIN sessions :
          /\ sessions'[j].by = sessions[j].by
          /\ IsOpen(j)' => IsOpen(j) /\ j # k
          /\ j # k \/ ~IsOpen(j) => sessions'[j] = sessions[j]
    /\ IsOpen(k) => sessions'[k].state = how
    /\ UNCHANGED <<failsafeVars, current, stage, on, tried, refused>>

LEMMA EndsKeeps ==
  ASSUME ClusterInv, NEW k \in DOMAIN sessions, NEW how \in {"dead", "closed"}, Ends(k, how),
         how = "closed" => k = current,
         tx' \in [Task -> {"none", "open", "closed"}],
         \A u \in Task : tx'[u] # "none" => tx[u] # "none",
         closedOver' \in (SUBSET Task) \cup {None}, Reopening', ClosedOnlyByOthers'
  PROVE  ClusterInv'
<1>0. /\ SessionTypes /\ Owned /\ Replaced
      /\ LeakOnlyByOverlap
      /\ \A u \in Task : Staged(u) /\ Alone(u) /\ Rejected(u)
  BY DEF ClusterInv
<1>1. /\ pc' = pc /\ retries' = retries /\ replica' = replica
      /\ \A u \in Task : Reran(u)' <=> Reran(u)
  BY TasksStill DEF Ends
<1>2. /\ current' = current /\ on' = on /\ stage' = stage
      /\ tried' = tried /\ refused' = refused
  BY DEF Ends
<1>3. /\ sessions' \in Seq(Inner) /\ DOMAIN sessions' = DOMAIN sessions
      /\ \A j \in DOMAIN sessions :
            /\ sessions'[j].by = sessions[j].by
            /\ IsOpen(j)' => IsOpen(j) /\ j # k
            /\ j # k \/ ~IsOpen(j) => sessions'[j] = sessions[j]
      /\ IsOpen(k) => sessions'[k].state = how
  BY DEF Ends
<1>4. SessionTypes'
  BY <1>0, <1>2, <1>3 DEF SessionTypes
<1>5. \A u \in Task : stage[u] \in {"connected", "refused"} \/ u \in refused
                         => on[u] \in DOMAIN sessions
  BY <1>0 DEF Staged, SessionTypes
<1>6. 1 \in DOMAIN sessions
  BY <1>0, SessionsTyped
<1>7. Owned'
  <2>1. ASSUME NEW u \in Task, stage[u] = "connected"
        PROVE  sessions'[on[u]].state \in {"open", "dead"}
    <3>1. /\ on[u] \in DOMAIN sessions /\ on[u] # current
          /\ sessions[on[u]].state \in {"open", "dead"}
      BY <1>0, <1>5, <2>1 DEF Owned
    <3>2. CASE on[u] = k /\ IsOpen(k)
      BY <1>3, <3>1, <3>2
    <3>3. CASE ~(on[u] = k /\ IsOpen(k))
      BY <1>3, <3>1, <3>3
    <3> QED BY <3>2, <3>3
  <2> QED BY <1>0, <1>2, <1>3, <1>5, <1>6, <2>1 DEF Owned
<1>8. Replaced'
  BY <1>0, <1>1, <1>3 DEF Replaced, IsOpen
<1>9. LeakOnlyByOverlap'
  BY <1>0, <1>2, <1>3 DEF LeakOnlyByOverlap, Held
<1>10. ASSUME NEW u \in Task
       PROVE  Staged(u)' /\ Alone(u)' /\ Rejected(u)'
  <2>0. Staged(u) /\ Alone(u) /\ Rejected(u)
    BY <1>0
  <2>1. Staged(u)'
    BY <1>1, <1>2, <2>0 DEF Staged
  <2>2. Alone(u)'
    BY <1>2, <1>3, <2>0 DEF Alone, Overlapped
  <2>3. Rejected(u)'
    BY <1>1, <1>2, <1>3, <1>5, <2>0 DEF Rejected, IsOpen
  <2> QED BY <2>1, <2>2, <2>3
<1> QED BY <1>4, <1>7, <1>8, <1>9, <1>10 DEF ClusterInv

LEMMA UserCloseKeeps ==
  ASSUME ClusterInv, UserClose
  PROVE  ClusterInv'
<1>0. /\ SessionTypes /\ \A u \in Task : Staged(u)
  BY DEF ClusterInv
<1>1. /\ UNCHANGED <<failsafeVars, current, stage, on, tried, refused>>
      /\ closedOver = None
      /\ closedOver' = {t \in Task : pc[t] \notin {"idle", "done"}}
  BY DEF UserClose
<1>2. EndsCurrent("closed")
  BY <1>0, CloseInnerAt DEF UserClose, SessionState
<1>3. current \in DOMAIN sessions
  BY <1>0 DEF SessionTypes
<1>4. Ends(current, "closed") /\ ~IsOpen(current)'
  BY <1>1, <1>2, <1>3 DEF Ends, EndsCurrent, IsOpen
<1>5. tx' \in [Task -> {"none", "open", "closed"}]
      /\ \A u \in Task : tx'[u] # "none" => tx[u] # "none"
  BY <1>2 DEF EndsCurrent
<1>6. closedOver' \in SUBSET Task /\ closedOver' # None
  BY <1>1, Distinct
<1>7. Reopening'
  <2>1. /\ pc' = pc /\ \A u \in Task : Reran(u)' <=> Reran(u)
        /\ stage' = stage
    BY <1>1, TasksStill
  <2>2. ASSUME NEW u \in Task \ closedOver'
        PROVE  (pc'[u] = "done" \/ ~Reran(u)') /\ stage'[u] \in {"none", "refused"}
    BY <1>0, <1>1, <2>1, <2>2 DEF Staged
  <2> QED BY <1>4, <2>2 DEF Reopening
<1>8. ClosedOnlyByOthers'
  BY <1>6 DEF ClosedOnlyByOthers
<1> QED BY <1>3, <1>4, <1>5, <1>6, <1>7, <1>8, EndsKeeps

LEMMA PulseFailsKeeps ==
  ASSUME ClusterInv, NEW k \in DOMAIN sessions, PulseFails(k)
  PROVE  ClusterInv'
<1>0. /\ SessionTypes /\ Reopening /\ ClosedOnlyByOthers
  BY DEF ClusterInv
<1>1. /\ UNCHANGED <<failsafeVars, current, stage, on, tx, tried, refused, closedOver>>
      /\ sessions' = [sessions EXCEPT ![k].state = "dead"] /\ IsOpen(k)
  BY DEF PulseFails, attemptVars
<1>2. /\ sessions' \in Seq(Inner) /\ DOMAIN sessions' = DOMAIN sessions
      /\ \A j \in DOMAIN sessions : /\ sessions'[j].by = sessions[j].by
                                    /\ j # k => sessions'[j] = sessions[j]
      /\ sessions'[k].state = "dead"
  BY <1>0, <1>1, SessionEnded DEF SessionState
<1>3. Ends(k, "dead")
  BY <1>1, <1>2 DEF Ends, IsOpen
<1>4. tx' = tx /\ closedOver' = closedOver /\ current' = current /\ stage' = stage
  BY <1>1
<1>5. /\ pc' = pc /\ \A u \in Task : Reran(u)' <=> Reran(u)
  BY <1>1, TasksStill
<1>6. Reopening'
  <2>1. Unopened => Unopened'
    BY <1>0, <1>2, <1>4, <1>5 DEF Unopened, IsOpen, SessionTypes
  <2> QED BY <1>0, <1>4, <1>5, <2>1, ReopeningKept
<1>7. ClosedOnlyByOthers'
  BY <1>0, <1>4, <1>5 DEF ClosedOnlyByOthers
<1>8. tx' \in [Task -> {"none", "open", "closed"}]
      /\ closedOver' \in (SUBSET Task) \cup {None}
  BY <1>0, <1>4 DEF SessionTypes
<1> QED BY <1>3, <1>4, <1>6, <1>7, <1>8, EndsKeeps

LEMMA StutterKeeps ==
  ASSUME ClusterInv, UNCHANGED vars
  PROVE  ClusterInv'
<1>1. /\ pc' = pc /\ retries' = retries /\ replica' = replica /\ sessions' = sessions
      /\ current' = current /\ stage' = stage /\ on' = on /\ tx' = tx /\ tried' = tried
      /\ refused' = refused /\ closedOver' = closedOver
  BY DEF vars, failsafeVars, sessionVars, attemptVars
<1>2. SessionTypes' /\ Owned' /\ Replaced' /\ Reopening'
  BY <1>1, Zenon DEF ClusterInv, SessionTypes, Owned, Replaced, Reopening, IsOpen, Reran
<1>3. LeakOnlyByOverlap' /\ ClosedOnlyByOthers'
  BY <1>1, Zenon DEF ClusterInv, LeakOnlyByOverlap, ClosedOnlyByOthers, Held, IsOpen, Reran
<1>4. \A t \in Task : Staged(t)' /\ Alone(t)' /\ Rejected(t)'
  BY <1>1, Zenon DEF ClusterInv, Staged, Alone, Rejected, Overlapped, IsOpen, Reran
<1> QED BY <1>2, <1>3, <1>4 DEF ClusterInv

LEMMA NextKeeps ==
  ASSUME ClusterInv, Safe!FailsafeInv, [Next]_vars
  PROVE  ClusterInv'
<1>1. ASSUME NEW t \in Task, Call(t) \/ Step(t)
      PROVE  ClusterInv'
  BY <1>1, KindsOfSteps, QuitsKeeps, RunsKeeps, RerunsKeeps, OldClosedKeeps,
     SessionOpensKeeps, InstallKeeps
<1> QED BY <1>1, UserCloseKeeps, PulseFailsKeeps, StutterKeeps DEF Next

LEMMA InitHolds == Init => ClusterInv
<1> SUFFICES ASSUME Init PROVE ClusterInv
  OBVIOUS
<1>1. /\ current = 1 /\ refused = {} /\ closedOver = None /\ cache # None
      /\ stage = [t \in Task |-> "none"] /\ on = [t \in Task |-> 0]
      /\ tx = [t \in Task |-> "none"] /\ tried = [t \in Task |-> <<>>]
  BY DEF Init
<1>2. /\ cache \in Infos
      /\ pc = [t \in Task |-> "idle"] /\ retries = [t \in Task |-> 0]
  BY <1>1 DEF Init, Tasks!Init
<1>3. PICK r \in DOMAIN cache :
         sessions = <<[state |-> "open", by |-> None, server |-> cache[r].address]>>
  BY DEF Init
<1>4. cache[r].address \in Server
  <2>1. cache[r] \in Tasks!Replica
    BY <1>2, <1>3 DEF Tasks!Replica
  <2> QED BY <2>1 DEF Server
<1>5. [state |-> "open", by |-> None, server |-> cache[r].address] \in Inner
  BY <1>4 DEF Inner, SessionState
<1>6. /\ sessions \in Seq(Inner) /\ DOMAIN sessions = {1}
      /\ sessions[1].state = "open" /\ sessions[1].by = None
  BY <1>3, <1>5
<1>7. tried \in [Task -> Seq(Server)]
  BY <1>1, EmptySeq
<1>8. SessionTypes
  BY <1>1, <1>6, <1>7 DEF SessionTypes
<1>9. Owned /\ Replaced /\ Reopening /\ LeakOnlyByOverlap /\ ClosedOnlyByOthers
  BY <1>1, <1>6 DEF Owned, Replaced, Reopening, LeakOnlyByOverlap, ClosedOnlyByOthers,
                    IsOpen, Held, Renewing
<1>10. ASSUME NEW t \in Task
       PROVE  Staged(t) /\ Alone(t) /\ Rejected(t)
  <2>1. /\ pc[t] = "idle" /\ stage[t] = "none" /\ tx[t] = "none" /\ t \notin refused
        /\ ~Reran(t)
    BY <1>1, <1>2 DEF Reran
  <2> QED BY <2>1 DEF Staged, Alone, Rejected, Renewing
<1> QED BY <1>8, <1>9, <1>10 DEF ClusterInv

-----------------------------------------------------------------------------
(* The theorems about the session *)

(***************************************************************************)
(* What holds of the inner sessions, whatever the calls, the replica lists *)
(* and the failures are (ClusterSession, TransactionFailsafeTask).         *)
(***************************************************************************)
THEOREM Invariance == Spec => []ClusterInv
<1>1. Init => ClusterInv
  BY InitHolds
<1>2. ClusterInv /\ Safe!FailsafeInv /\ [Next]_vars => ClusterInv'
  BY NextKeeps
<1> QED BY <1>1, <1>2, CallsInheritFailsafe, PTL DEF Spec

(***************************************************************************)
(* Every variable has its type, those of the tasks as well.                *)
(***************************************************************************)
THEOREM TypesAreKept == Spec => []TypeOK
<1>1. Safe!FailsafeInv /\ ClusterInv => TypeOK
  BY SameStates DEF Safe!FailsafeInv, ClusterInv, SessionTypes, TypeOK, Inner
<1> QED BY <1>1, Invariance, CallsInheritFailsafe, PTL

(***************************************************************************)
(* An inner session that nobody holds any more is open only when the       *)
(* failovers of two calls overlapped (TransactionFailsafeTask.rerun): a    *)
(* call that fails over alone leaves no session behind.                    *)
(***************************************************************************)
THEOREM LoneFailoverLeaksNothing == Spec => []LeakOnlyByOverlap
<1>1. ClusterInv => LeakOnlyByOverlap
  BY DEF ClusterInv
<1> QED BY <1>1, Invariance, PTL

(***************************************************************************)
(* A transaction that a call has returned is closed only by close() of the *)
(* session or by the failover of another call (TypeDBSessionImpl.close).   *)
(***************************************************************************)
THEOREM TransactionsAreClosedByOthers == Spec => []ClosedOnlyByOthers
<1>1. ClusterInv => ClosedOnlyByOthers
  BY DEF ClusterInv
<1> QED BY <1>1, Invariance, PTL

(***************************************************************************)
(* A call that is refused by a session that was replaced is refused for    *)
(* the failover of another call, and a rerun only by its own session, when *)
(* that has died (TransactionFailsafeTask.run and rerun).                  *)
(***************************************************************************)
THEOREM RefusalsHaveACause == Spec => []RefusedOnlyWhenReplaced
<1>1. ClusterInv => RefusedOnlyWhenReplaced
  <2> SUFFICES ASSUME ClusterInv, NEW t \in refused
               PROVE  /\ sessions[on[t]].state # "open"
                      /\ Reran(t) => sessions[on[t]].state = "dead"
                      /\ sessions[on[t]].state = "replaced" => \E u \in Task \ {t} : Reran(u)
    BY DEF RefusedOnlyWhenReplaced
  <2>1. SessionTypes /\ Replaced /\ t \in Task /\ Staged(t) /\ Rejected(t)
    BY DEF ClusterInv, SessionTypes
  <2>2. on[t] \in DOMAIN sessions
    BY <2>1 DEF SessionTypes, Staged
  <2>3. /\ sessions[on[t]].state # "open"
        /\ Reran(t) => sessions[on[t]].state = "dead"
    BY <2>1 DEF Rejected
  <2> QED BY <2>1, <2>2, <2>3 DEF Replaced
<1> QED BY <1>1, Invariance, PTL

(***************************************************************************)
(* After close() of the session its inner session is open again only when  *)
(* a call that was under way then has failed over (ClusterSession.close).  *)
(***************************************************************************)
THEOREM OnlyPendingCallsReopen == Spec => []ReopenedOnlyByPending
<1>1. ClusterInv => ReopenedOnlyByPending
  BY DEF ClusterInv, Reopening, ReopenedOnlyByPending
<1> QED BY <1>1, Invariance, PTL
=============================================================================
