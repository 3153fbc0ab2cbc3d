------------------------ MODULE SessionLifecycleProofs ------------------------
(***************************************************************************)
(* Theorems about a client, its sessions and their transactions (module    *)
(* SessionLifecycle), for any sessions and any transactions on them: what  *)
(* a close reaches, what it misses, and how often a session pulses.        *)
(***************************************************************************)
EXTENDS SessionLifecycle, TLAPS

-----------------------------------------------------------------------------
(* The inductive invariant *)

(***************************************************************************)
(* Until the sessionOpen RPC has returned nobody knows of the session: it  *)
(* is not open, has no pulse to come, and was neither closed nor lost.     *)
(* What has a pulse to come, or is open, was opened.                       *)
(***************************************************************************)
UnopenedIsUntouched ==
    \A x \in Session :
       stage[x] \notin {"opened", "returned"} =>
          /\ ~isOpen[x] /\ pulseTimer[x] = 0 /\ pulsing[x] = 0
          /\ x \notin closed /\ x \notin lost

(***************************************************************************)
(* Only session() enters a session in the table, as its last step, and     *)
(* only a session that was returned can be closed.  A session that is not  *)
(* open any more before it is returned was therefore lost.                 *)
(***************************************************************************)
KnownOnceReturned ==
    \A x \in Session :
       /\ x \in sessions \/ x \in closed => stage[x] = "returned"
       /\ stage[x] = "opened" /\ ~isOpen[x] => x \in lost

(***************************************************************************)
(* What session() was opening when the client closed is what may still be  *)
(* opened: no sessionOpen RPC is made afterwards.                          *)
(***************************************************************************)
LateOnesAreKnown ==
    \A x \in Session :
       ~clientOpen /\ stage[x] \in {"opening", "opened"} => x \in lateSessions

(***************************************************************************)
(* A session that was closed stays so, and an open transaction is either   *)
(* on its way to the user or in the set of its session.                    *)
(***************************************************************************)
ClosedStaysClosed == \A x \in closed : ~isOpen[x]

OpenTransactionsAreKnown ==
    \A t \in Transaction : txOpen[t] => t \in InProgress \cup transactions

(***************************************************************************)
(* While the channel is open a pulse is made and does not throw.           *)
(***************************************************************************)
ThrowsOnlyOnceClosed == clientOpen => thrown = {}

SessionInv ==
    /\ TypeOK
    /\ UnopenedIsUntouched /\ KnownOnceReturned /\ LateOnesAreKnown
    /\ ClosedStaysClosed /\ OpenTransactionsAreKnown
    /\ KeptAlive /\ TableAgrees
    /\ OnlyLateSessionsSurvive /\ OnlyLateSessionsThrow /\ ThrowsOnlyOnceClosed
    /\ OnlyLateTransactionsSurvive /\ NoStreamLeft

-----------------------------------------------------------------------------
(* Types *)

(***************************************************************************)
(* Every variable keeps its type: stages, flags and tables, whatever calls *)
(* of session(), transaction() and close() and whatever pulses interleave. *)
(***************************************************************************)
LEMMA TypesAreKept == TypeOK /\ [Next]_vars => TypeOK'
<1> SUFFICES ASSUME TypeOK, [Next]_vars
             PROVE  TypeOK'
  OBVIOUS
<1> USE DEF TypeOK, clientVars, sessionVars, txVars
<1>1. CASE CloseClient
  BY <1>1 DEF CloseClient, CloseSessions, InProgress
<1>2. ASSUME NEW x \in Session, CallSession(x) \/ DatabaseFound(x) \/ SessionOpened(x)
                 \/ SessionFails(x) \/ SessionReturned(x)
      PROVE  TypeOK'
  <2> USE DEF SessionStage
  <2>1. CASE CallSession(x)
    BY <2>1 DEF CallSession
  <2>2. CASE DatabaseFound(x)
    BY <2>2 DEF DatabaseFound
  <2>3. CASE SessionOpened(x)
    BY <2>3 DEF SessionOpened
  <2>4. CASE SessionFails(x)
    BY <2>4 DEF SessionFails
  <2>5. CASE SessionReturned(x)
    BY <2>5 DEF SessionReturned
  <2> QED BY <1>2, <2>1, <2>2, <2>3, <2>4, <2>5
<1>3. ASSUME NEW x \in Session, CloseSession(x)
      PROVE  TypeOK'
  BY <1>3 DEF CloseSession, CloseSessions, InProgress
<1>4. ASSUME NEW x \in Session, PulseTimerFires(x) \/ PulseAlive(x) \/ PulseFails(x)
      PROVE  TypeOK'
  <2>1. pulseTimer' \in [Session -> Nat]
    BY <1>4 DEF PulseTimerFires, PulseAlive, PulseFails, PulseReturns
  <2>2. pulsing' \in [Session -> Nat]
    BY <1>4 DEF PulseTimerFires, PulseAlive, PulseFails, PulseReturns
  <2> QED BY <1>4, <2>1, <2>2 DEF PulseTimerFires, PulseAlive, PulseFails
<1>5. ASSUME NEW x \in Session, ServerSessionGone(x)
      PROVE  TypeOK'
  BY <1>5 DEF ServerSessionGone
<1>6. ASSUME NEW t \in Transaction, CallTransaction(t)
      PROVE  TypeOK'
  BY <1>6 DEF CallTransaction, TxStage
<1>7. ASSUME NEW t \in Transaction, TransactionOpened(t) \/ TransactionFails(t)
                 \/ TransactionReturned(t) \/ CloseTransaction(t)
      PROVE  TypeOK'
  BY <1>7 DEF TransactionOpened, TransactionFails, TransactionReturned, CloseTransaction,
              TxStage
<1>8. CASE UNCHANGED vars
  BY <1>8 DEF vars
<1> QED BY <1>1, <1>2, <1>3, <1>4, <1>5, <1>6, <1>7, <1>8 DEF Next

-----------------------------------------------------------------------------
(* A step keeps the invariant *)

(***************************************************************************)
(* close() of sessions takes their pulse timers away; a pulse in flight is *)
(* left and returns to a session that is not open.                         *)
(***************************************************************************)
LEMMA CloseSessionsKeepsPulses ==
  ASSUME TypeOK, KeptAlive, NEW S, CloseSessions(S), UNCHANGED pulsing,
         clientOpen' => clientOpen
  PROVE  KeptAlive'
<1> SUFFICES ASSUME NEW y \in Session
             PROVE  /\ isOpen'[y] /\ clientOpen' => pulseTimer'[y] + pulsing'[y] = 1
                    /\ pulseTimer'[y] + pulsing'[y] <= 1
  BY DEF KeptAlive
<1>1. pulseTimer[y] \in Nat /\ pulsing[y] \in Nat
  BY DEF TypeOK
<1>2. isOpen'[y] => isOpen[y] /\ pulseTimer'[y] = pulseTimer[y]
  BY DEF CloseSessions
<1>3. pulseTimer'[y] = 0 \/ pulseTimer'[y] = pulseTimer[y]
  BY DEF CloseSessions
<1> QED BY <1>1, <1>2, <1>3 DEF KeptAlive

(***************************************************************************)
(* A pulse throws on the closed channel only, for a session that is open   *)
(* there, which is a late one; the close of the client, which says who is  *)
(* late, comes before all of them.                                         *)
(***************************************************************************)
LEMMA ThrowingIsKept ==
  ASSUME SessionInv, Next
  PROVE  OnlyLateSessionsThrow' /\ ThrowsOnlyOnceClosed'
<1> USE DEF SessionInv, OnlyLateSessionsThrow, ThrowsOnlyOnceClosed
<1>1. CASE UNCHANGED <<clientOpen, lateSessions, thrown>>
  BY <1>1
<1>2. CASE CloseClient
  BY <1>2 DEF CloseClient
<1>3. ASSUME NEW x \in Session, PulseTimerFires(x)
      PROVE  OnlyLateSessionsThrow' /\ ThrowsOnlyOnceClosed'
  <2>1. UNCHANGED <<clientOpen, lateSessions>>
    BY <1>3 DEF PulseTimerFires, clientVars
  <2>2. thrown' = thrown \/ (isOpen[x] /\ ~clientOpen /\ thrown' = thrown \cup {x})
    BY <1>3 DEF PulseTimerFires
  <2>3. isOpen[x] /\ ~clientOpen => x \in lateSessions
    BY DEF OnlyLateSessionsSurvive
  <2> QED BY <2>1, <2>2, <2>3
<1>4. ASSUME NEW x \in Session,
             \/ CallSession(x) \/ DatabaseFound(x) \/ SessionOpened(x)
             \/ SessionFails(x) \/ SessionReturned(x) \/ CloseSession(x)
             \/ PulseAlive(x) \/ PulseFails(x) \/ ServerSessionGone(x)
      PROVE  UNCHANGED <<clientOpen, lateSessions, thrown>>
  BY <1>4 DEF CallSession, DatabaseFound, SessionOpened, SessionFails, SessionReturned,
              CloseSession, PulseAlive, PulseFails, ServerSessionGone, clientVars, sessionVars
<1>5. ASSUME NEW t \in Transaction,
             \/ CallTransaction(t) \/ TransactionOpened(t) \/ TransactionFails(t)
             \/ TransactionReturned(t) \/ CloseTransaction(t)
      PROVE  UNCHANGED <<clientOpen, lateSessions, thrown>>
  BY <1>5 DEF CallTransaction, TransactionOpened, TransactionFails, TransactionReturned,
              CloseTransaction, clientVars, sessionVars
<1> QED BY <1>1, <1>2, <1>3, <1>4, <1>5 DEF Next

(***************************************************************************)
(* Each step of the client, of a session or of a transaction disturbs only *)
(* the parts of the invariant named under it; the close of the client is   *)
(* the one that needs them together.                                       *)
(***************************************************************************)
LEMMA SessionInvIsKept == SessionInv /\ [Next]_vars => SessionInv'
<1> SUFFICES ASSUME SessionInv, [Next]_vars
             PROVE  SessionInv'
  OBVIOUS
<1> USE SessionOfIsFunction DEF SessionInv, TypeOK, clientVars, sessionVars, txVars
<1>0. TypeOK' /\ OnlyLateSessionsThrow' /\ ThrowsOnlyOnceClosed'
  <2>1. CASE Next
    BY <2>1, TypesAreKept, ThrowingIsKept
  <2>2. CASE UNCHANGED vars
    BY <2>2, TypesAreKept DEF vars, OnlyLateSessionsThrow, ThrowsOnlyOnceClosed
  <2> QED BY <2>1, <2>2
<1>1. CASE CloseClient
  <2>1. UnopenedIsUntouched'
    BY <1>1 DEF CloseClient, CloseSessions, UnopenedIsUntouched
  <2>2. KnownOnceReturned'
    BY <1>1 DEF CloseClient, CloseSessions, KnownOnceReturned
  <2>3. LateOnesAreKnown'
    BY <1>1 DEF CloseClient, CloseSessions, LateOnesAreKnown
  <2>4. ClosedStaysClosed'
    BY <1>1 DEF CloseClient, CloseSessions, ClosedStaysClosed
  <2>5. OpenTransactionsAreKnown'
    BY <1>1 DEF CloseClient, CloseSessions, OpenTransactionsAreKnown, TransactionsOf, InProgress
  <2>6. KeptAlive'
    BY <1>1, CloseSessionsKeepsPulses DEF CloseClient
  <2>7. TableAgrees'
    BY <1>1 DEF CloseClient, CloseSessions, TableAgrees, UnopenedIsUntouched
  <2>8. OnlyLateSessionsSurvive'
    BY <1>1 DEF CloseClient, CloseSessions, OnlyLateSessionsSurvive, TableAgrees,
                UnopenedIsUntouched
  <2>9. OnlyLateTransactionsSurvive'
    BY <1>1 DEF CloseClient, CloseSessions, OnlyLateTransactionsSurvive,
                OpenTransactionsAreKnown, TransactionsOf, InProgress
  <2>10. NoStreamLeft'
    BY <1>1 DEF CloseClient, CloseSessions, NoStreamLeft
  <2> QED BY <1>0, <2>1, <2>2, <2>3, <2>4, <2>5, <2>6, <2>7, <2>8, <2>9, <2>10
<1>2. ASSUME NEW x \in Session, CallSession(x)
      PROVE  SessionInv'
  <2>1. /\ ClosedStaysClosed' /\ OpenTransactionsAreKnown' /\ KeptAlive'
           /\ OnlyLateSessionsSurvive' /\ OnlyLateTransactionsSurvive' /\ NoStreamLeft'
    BY <1>2 DEF CallSession, SessionStage, ClosedStaysClosed, OpenTransactionsAreKnown,
                KeptAlive, OnlyLateSessionsSurvive, OnlyLateTransactionsSurvive, NoStreamLeft,
                InProgress
  <2>2. UnopenedIsUntouched'
    BY <1>2 DEF CallSession, SessionStage, UnopenedIsUntouched
  <2>3. KnownOnceReturned'
    BY <1>2 DEF CallSession, SessionStage, KnownOnceReturned
  <2>4. LateOnesAreKnown'
    BY <1>2 DEF CallSession, SessionStage, LateOnesAreKnown
  <2>5. TableAgrees'
    BY <1>2 DEF CallSession, SessionStage, TableAgrees
  <2> QED BY <1>0, <2>1, <2>2, <2>3, <2>4, <2>5
<1>3. ASSUME NEW x \in Session, DatabaseFound(x)
      PROVE  SessionInv'
  <2>1. /\ ClosedStaysClosed' /\ OpenTransactionsAreKnown' /\ KeptAlive'
           /\ OnlyLateSessionsSurvive' /\ OnlyLateTransactionsSurvive' /\ NoStreamLeft'
    BY <1>3 DEF DatabaseFound, SessionStage, ClosedStaysClosed, OpenTransactionsAreKnown,
                KeptAlive, OnlyLateSessionsSurvive, OnlyLateTransactionsSurvive, NoStreamLeft,
                InProgress
  <2>2. UnopenedIsUntouched'
    BY <1>3 DEF DatabaseFound, SessionStage, UnopenedIsUntouched
  <2>3. KnownOnceReturned'
    BY <1>3 DEF DatabaseFound, SessionStage, KnownOnceReturned
  <2>4. LateOnesAreKnown'
    BY <1>3 DEF DatabaseFound, SessionStage, LateOnesAreKnown
  <2>5. TableAgrees'
    BY <1>3 DEF DatabaseFound, SessionStage, TableAgrees
  <2> QED BY <1>0, <2>1, <2>2, <2>3, <2>4, <2>5
<1>4. ASSUME NEW x \in Session, SessionOpened(x)
      PROVE  SessionInv'
  <2>1. OpenTransactionsAreKnown' /\ OnlyLateTransactionsSurvive' /\ NoStreamLeft'
    BY <1>4 DEF SessionOpened, SessionStage, OpenTransactionsAreKnown,
                OnlyLateTransactionsSurvive, NoStreamLeft, InProgress
  <2>2. UnopenedIsUntouched'
    BY <1>4 DEF SessionOpened, SessionStage, UnopenedIsUntouched
  <2>3. KnownOnceReturned'
    BY <1>4 DEF SessionOpened, SessionStage, KnownOnceReturned
  <2>4. LateOnesAreKnown'
    BY <1>4 DEF SessionOpened, SessionStage, LateOnesAreKnown
  <2>5. ClosedStaysClosed'
    BY <1>4 DEF SessionOpened, SessionStage, ClosedStaysClosed, UnopenedIsUntouched
  <2>6. KeptAlive'
    BY <1>4 DEF SessionOpened, SessionStage, KeptAlive, UnopenedIsUntouched
  <2>7. TableAgrees'
    BY <1>4 DEF SessionOpened, SessionStage, TableAgrees
  <2>8. OnlyLateSessionsSurvive'
    BY <1>4 DEF SessionOpened, SessionStage, OnlyLateSessionsSurvive, LateOnesAreKnown
  <2> QED BY <1>0, <2>1, <2>2, <2>3, <2>4, <2>5, <2>6, <2>7, <2>8
<1>5. ASSUME NEW x \in Session, SessionFails(x)
      PROVE  SessionInv'
  <2>1. /\ ClosedStaysClosed' /\ OpenTransactionsAreKnown' /\ KeptAlive'
           /\ OnlyLateSessionsSurvive' /\ OnlyLateTransactionsSurvive' /\ NoStreamLeft'
    BY <1>5 DEF SessionFails, ClosedStaysClosed, OpenTransactionsAreKnown, KeptAlive,
                OnlyLateSessionsSurvive, OnlyLateTransactionsSurvive, NoStreamLeft, InProgress
  <2>2. UnopenedIsUntouched'
    BY <1>5 DEF SessionFails, UnopenedIsUntouched
  <2>3. KnownOnceReturned'
    BY <1>5 DEF SessionFails, KnownOnceReturned
  <2>4. LateOnesAreKnown'
    BY <1>5 DEF SessionFails, LateOnesAreKnown
  <2>5. TableAgrees'
    BY <1>5 DEF SessionFails, TableAgrees
  <2> QED BY <1>0, <2>1, <2>2, <2>3, <2>4, <2>5
<1>6. ASSUME NEW x \in Session, SessionReturned(x)
      PROVE  SessionInv'
  <2>1. /\ ClosedStaysClosed' /\ OpenTransactionsAreKnown' /\ KeptAlive'
           /\ OnlyLateSessionsSurvive' /\ OnlyLateTransactionsSurvive' /\ NoStreamLeft'
    BY <1>6 DEF SessionReturned, SessionStage, ClosedStaysClosed, OpenTransactionsAreKnown,
                KeptAlive, OnlyLateSessionsSurvive, OnlyLateTransactionsSurvive, NoStreamLeft,
                InProgress
  <2>2. UnopenedIsUntouched'
    BY <1>6 DEF SessionReturned, SessionStage, UnopenedIsUntouched
  <2>3. KnownOnceReturned'
    BY <1>6 DEF SessionReturned, SessionStage, KnownOnceReturned
  <2>4. LateOnesAreKnown'
    BY <1>6 DEF SessionReturned, SessionStage, LateOnesAreKnown
  <2>5. TableAgrees'
    BY <1>6 DEF SessionReturned, SessionStage, TableAgrees, KnownOnceReturned
  <2> QED BY <1>0, <2>1, <2>2, <2>3, <2>4, <2>5
<1>7. ASSUME NEW x \in Session, CloseSession(x)
      PROVE  SessionInv'
  <2>1. LateOnesAreKnown'
    BY <1>7 DEF CloseSession, CloseSessions, LateOnesAreKnown
  <2>2. UnopenedIsUntouched'
    BY <1>7 DEF CloseSession, CloseSessions, UnopenedIsUntouched
  <2>3. KnownOnceReturned'
    BY <1>7 DEF CloseSession, CloseSessions, KnownOnceReturned
  <2>4. ClosedStaysClosed'
    BY <1>7 DEF CloseSession, CloseSessions, ClosedStaysClosed
  <2>5. OpenTransactionsAreKnown'
    BY <1>7 DEF CloseSession, CloseSessions, OpenTransactionsAreKnown, TransactionsOf,
                InProgress
  <2>6. KeptAlive'
    BY <1>7, CloseSessionsKeepsPulses DEF CloseSession
  <2>7. TableAgrees'
    BY <1>7 DEF CloseSession, CloseSessions, TableAgrees
  <2>8. OnlyLateSessionsSurvive'
    BY <1>7 DEF CloseSession, CloseSessions, OnlyLateSessionsSurvive
  <2>9. OnlyLateTransactionsSurvive'
    BY <1>7 DEF CloseSession, CloseSessions, OnlyLateTransactionsSurvive,
                OpenTransactionsAreKnown, TransactionsOf, InProgress
  <2>10. NoStreamLeft'
    BY <1>7 DEF CloseSession, CloseSessions, NoStreamLeft, TransactionsOf
  <2> QED BY <1>0, <2>1, <2>2, <2>3, <2>4, <2>5, <2>6, <2>7, <2>8, <2>9, <2>10
<1>8. ASSUME NEW x \in Session, PulseTimerFires(x)
      PROVE  SessionInv'
  <2>1. /\ KnownOnceReturned' /\ LateOnesAreKnown' /\ ClosedStaysClosed'
           /\ OpenTransactionsAreKnown' /\ TableAgrees' /\ OnlyLateSessionsSurvive'
           /\ OnlyLateTransactionsSurvive' /\ NoStreamLeft'
    BY <1>8 DEF PulseTimerFires, KnownOnceReturned, LateOnesAreKnown, ClosedStaysClosed,
                OpenTransactionsAreKnown, TableAgrees, OnlyLateSessionsSurvive,
                OnlyLateTransactionsSurvive, NoStreamLeft, InProgress
  <2>2. UnopenedIsUntouched'
    BY <1>8 DEF PulseTimerFires, UnopenedIsUntouched
  <2>3. KeptAlive'
    <3>1. CASE isOpen[x] /\ clientOpen
      BY <1>8, <3>1 DEF PulseTimerFires, KeptAlive
    <3>2. CASE ~isOpen[x] \/ ~clientOpen
      BY <1>8, <3>2 DEF PulseTimerFires, KeptAlive
    <3> QED BY <3>1, <3>2
  <2> QED BY <1>0, <2>1, <2>2, <2>3
<1>9. ASSUME NEW x \in Session, PulseAlive(x)
      PROVE  SessionInv'
  <2>1. /\ KnownOnceReturned' /\ LateOnesAreKnown' /\ ClosedStaysClosed'
           /\ OpenTransactionsAreKnown' /\ TableAgrees' /\ OnlyLateSessionsSurvive'
           /\ OnlyLateTransactionsSurvive' /\ NoStreamLeft'
    BY <1>9 DEF PulseAlive, PulseReturns, KnownOnceReturned, LateOnesAreKnown,
                ClosedStaysClosed, OpenTransactionsAreKnown, TableAgrees,
                OnlyLateSessionsSurvive, OnlyLateTransactionsSurvive, NoStreamLeft, InProgress
  <2>2. UnopenedIsUntouched'
    BY <1>9 DEF PulseAlive, PulseReturns, UnopenedIsUntouched
  <2>3. KeptAlive'
    BY <1>9 DEF PulseAlive, PulseReturns, KeptAlive
  <2> QED BY <1>0, <2>1, <2>2, <2>3
<1>10. ASSUME NEW x \in Session, PulseFails(x)
      PROVE  SessionInv'
  <2>1. /\ LateOnesAreKnown' /\ OpenTransactionsAreKnown' /\ OnlyLateTransactionsSurvive'
           /\ NoStreamLeft'
    BY <1>10 DEF PulseFails, PulseReturns, LateOnesAreKnown, OpenTransactionsAreKnown,
                 OnlyLateTransactionsSurvive, NoStreamLeft, InProgress
  <2>2. UnopenedIsUntouched'
    BY <1>10 DEF PulseFails, PulseReturns, UnopenedIsUntouched
  <2>3. KnownOnceReturned'
    BY <1>10 DEF PulseFails, PulseReturns, KnownOnceReturned
  <2>4. ClosedStaysClosed'
    BY <1>10 DEF PulseFails, PulseReturns, ClosedStaysClosed
  <2>5. KeptAlive'
    BY <1>10 DEF PulseFails, PulseReturns, KeptAlive
  <2>6. TableAgrees'
    BY <1>10 DEF PulseFails, PulseReturns, TableAgrees
  <2>7. OnlyLateSessionsSurvive'
    BY <1>10 DEF PulseFails, PulseReturns, OnlyLateSessionsSurvive
  <2> QED BY <1>0, <2>1, <2>2, <2>3, <2>4, <2>5, <2>6, <2>7
<1>11. ASSUME NEW x \in Session, ServerSessionGone(x)
      PROVE  SessionInv'
  <2>1. /\ UnopenedIsUntouched' /\ KnownOnceReturned' /\ LateOnesAreKnown'
           /\ ClosedStaysClosed' /\ OpenTransactionsAreKnown' /\ KeptAlive'
           /\ TableAgrees' /\ OnlyLateSessionsSurvive' /\ OnlyLateTransactionsSurvive'
           /\ NoStreamLeft'
    BY <1>11 DEF ServerSessionGone, UnopenedIsUntouched, KnownOnceReturned, LateOnesAreKnown,
                 ClosedStaysClosed, OpenTransactionsAreKnown, KeptAlive, TableAgrees,
                 OnlyLateSessionsSurvive, OnlyLateTransactionsSurvive, NoStreamLeft, InProgress
  <2> QED BY <1>0, <2>1
<1>12. ASSUME NEW t \in Transaction, CallTransaction(t)
      PROVE  SessionInv'
  <2>1. /\ UnopenedIsUntouched' /\ KnownOnceReturned' /\ LateOnesAreKnown'
           /\ ClosedStaysClosed' /\ KeptAlive' /\ TableAgrees'
           /\ OnlyLateSessionsSurvive'
    BY <1>12 DEF CallTransaction, TxStage, UnopenedIsUntouched, KnownOnceReturned,
                 LateOnesAreKnown, ClosedStaysClosed, KeptAlive, TableAgrees,
                 OnlyLateSessionsSurvive
  <2>2. OpenTransactionsAreKnown'
    BY <1>12 DEF CallTransaction, TxStage, OpenTransactionsAreKnown, InProgress
  <2>3. OnlyLateTransactionsSurvive'
    BY <1>12 DEF CallTransaction, TxStage, OnlyLateTransactionsSurvive, ClosedStaysClosed
  <2>4. NoStreamLeft'
    BY <1>12 DEF CallTransaction, TxStage, NoStreamLeft
  <2> QED BY <1>0, <2>1, <2>2, <2>3, <2>4
<1>13. ASSUME NEW t \in Transaction, TransactionOpened(t)
      PROVE  SessionInv'
  <2>1. /\ UnopenedIsUntouched' /\ KnownOnceReturned' /\ LateOnesAreKnown'
           /\ ClosedStaysClosed' /\ KeptAlive' /\ TableAgrees'
           /\ OnlyLateSessionsSurvive' /\ OnlyLateTransactionsSurvive' /\ NoStreamLeft'
    BY <1>13 DEF TransactionOpened, TxStage, UnopenedIsUntouched, KnownOnceReturned,
                 LateOnesAreKnown, ClosedStaysClosed, KeptAlive, TableAgrees,
                 OnlyLateSessionsSurvive, OnlyLateTransactionsSurvive, NoStreamLeft
  <2>2. OpenTransactionsAreKnown'
    BY <1>13 DEF TransactionOpened, TxStage, OpenTransactionsAreKnown, InProgress
  <2> QED BY <1>0, <2>1, <2>2
<1>14. ASSUME NEW t \in Transaction, TransactionFails(t)
      PROVE  SessionInv'
  <2>1. /\ UnopenedIsUntouched' /\ KnownOnceReturned' /\ LateOnesAreKnown'
           /\ ClosedStaysClosed' /\ KeptAlive' /\ TableAgrees'
           /\ OnlyLateSessionsSurvive' /\ OnlyLateTransactionsSurvive' /\ NoStreamLeft'
    BY <1>14 DEF TransactionFails, TxStage, UnopenedIsUntouched, KnownOnceReturned,
                 LateOnesAreKnown, ClosedStaysClosed, KeptAlive, TableAgrees,
                 OnlyLateSessionsSurvive, OnlyLateTransactionsSurvive, NoStreamLeft
  <2>2. OpenTransactionsAreKnown'
    BY <1>14 DEF TransactionFails, TxStage, OpenTransactionsAreKnown, InProgress
  <2> QED BY <1>0, <2>1, <2>2
<1>15. ASSUME NEW t \in Transaction, TransactionReturned(t)
      PROVE  SessionInv'
  <2>1. /\ UnopenedIsUntouched' /\ KnownOnceReturned' /\ LateOnesAreKnown'
           /\ ClosedStaysClosed' /\ KeptAlive' /\ TableAgrees'
           /\ OnlyLateSessionsSurvive' /\ OnlyLateTransactionsSurvive' /\ NoStreamLeft'
    BY <1>15 DEF TransactionReturned, TxStage, UnopenedIsUntouched, KnownOnceReturned,
                 LateOnesAreKnown, ClosedStaysClosed, KeptAlive, TableAgrees,
                 OnlyLateSessionsSurvive, OnlyLateTransactionsSurvive, NoStreamLeft
  <2>2. OpenTransactionsAreKnown'
    BY <1>15 DEF TransactionReturned, TxStage, OpenTransactionsAreKnown, InProgress
  <2> QED BY <1>0, <2>1, <2>2
<1>16. ASSUME NEW t \in Transaction, CloseTransaction(t)
      PROVE  SessionInv'
  <2>1. /\ UnopenedIsUntouched' /\ KnownOnceReturned' /\ LateOnesAreKnown'
           /\ ClosedStaysClosed' /\ KeptAlive' /\ TableAgrees'
           /\ OnlyLateSessionsSurvive'
    BY <1>16 DEF CloseTransaction, UnopenedIsUntouched, KnownOnceReturned, LateOnesAreKnown,
                 ClosedStaysClosed, KeptAlive, TableAgrees, OnlyLateSessionsSurvive
  <2>2. OpenTransactionsAreKnown'
    BY <1>16 DEF CloseTransaction, OpenTransactionsAreKnown, InProgress
  <2>3. OnlyLateTransactionsSurvive'
    BY <1>16 DEF CloseTransaction, OnlyLateTransactionsSurvive
  <2>4. NoStreamLeft'
    BY <1>16 DEF CloseTransaction, NoStreamLeft
  <2> QED BY <1>0, <2>1, <2>2, <2>3, <2>4
<1>17. CASE UNCHANGED vars
  <2>1. /\ UnopenedIsUntouched' /\ KnownOnceReturned' /\ LateOnesAreKnown'
        /\ ClosedStaysClosed' /\ OpenTransactionsAreKnown' /\ KeptAlive' /\ TableAgrees'
        /\ OnlyLateSessionsSurvive' /\ OnlyLateTransactionsSurvive' /\ NoStreamLeft'
    BY <1>17 DEF vars, UnopenedIsUntouched, KnownOnceReturned, LateOnesAreKnown,
                 ClosedStaysClosed, OpenTransactionsAreKnown, KeptAlive, TableAgrees,
                 OnlyLateSessionsSurvive, OnlyLateTransactionsSurvive, NoStreamLeft, InProgress
  <2> QED BY <1>0, <2>1
<1> QED BY <1>1, <1>2, <1>3, <1>4, <1>5, <1>6, <1>7, <1>8, <1>9, <1>10, <1>11, <1>12, <1>13,
           <1>14, <1>15, <1>16, <1>17
           DEF Next

-----------------------------------------------------------------------------
(* The theorems *)

(***************************************************************************)
(* Types, the facts about how sessions and transactions become known, and  *)
(* the properties that rest on them are an invariant together.             *)
(***************************************************************************)
THEOREM Invariance == Spec => []SessionInv
<1>1. Init => SessionInv
  BY DEF Init, SessionInv, TypeOK, UnopenedIsUntouched, KnownOnceReturned,
         LateOnesAreKnown, ClosedStaysClosed, OpenTransactionsAreKnown, KeptAlive,
         TableAgrees, OnlyLateSessionsSurvive, OnlyLateSessionsThrow, ThrowsOnlyOnceClosed,
         OnlyLateTransactionsSurvive, NoStreamLeft
<1> QED BY <1>1, SessionInvIsKept, PTL DEF Spec

(***************************************************************************)
(* pulse() of a session: while the client is open, an open session has     *)
(* exactly one pulse to come, and no session ever has two, whenever it is  *)
(* closed.                                                                 *)
(***************************************************************************)
THEOREM PulsesOnce == Spec => []KeptAlive
<1>1. SessionInv => KeptAlive
  BY DEF SessionInv
<1> QED BY <1>1, Invariance, PTL

(***************************************************************************)
(* The table of the client: an open session that was returned is in it,    *)
(* and what is in it without being open was lost by its pulse.             *)
(***************************************************************************)
THEOREM TableIsRight == Spec => []TableAgrees
<1>1. SessionInv => TableAgrees
  BY DEF SessionInv
<1> QED BY <1>1, Invariance, PTL

(***************************************************************************)
(* close() of the client misses only the sessions that session() was still *)
(* opening.                                                                *)
(***************************************************************************)
THEOREM ClientCloseMissesOnlyLate == Spec => []OnlyLateSessionsSurvive
<1>1. SessionInv => OnlyLateSessionsSurvive
  BY DEF SessionInv
<1> QED BY <1>1, Invariance, PTL

(***************************************************************************)
(* The pulse timer of a session throws only if session() was still opening *)
(* it when its client closed, whatever answers of pulses set the timers of *)
(* the others again afterwards.                                            *)
(***************************************************************************)
THEOREM OnlyLatePulsesThrow == Spec => []OnlyLateSessionsThrow
<1>1. SessionInv => OnlyLateSessionsThrow
  BY DEF SessionInv
<1> QED BY <1>1, Invariance, PTL

(***************************************************************************)
(* close() of a session misses only the transactions that transaction()    *)
(* was still opening.                                                      *)
(***************************************************************************)
THEOREM SessionCloseMissesOnlyLate == Spec => []OnlyLateTransactionsSurvive
<1>1. SessionInv => OnlyLateTransactionsSurvive
  BY DEF SessionInv
<1> QED BY <1>1, Invariance, PTL

(***************************************************************************)
(* Once the client is closed no stream is left, whatever the sessions knew *)
(* of their transactions.                                                  *)
(***************************************************************************)
THEOREM EveryStreamEnds == Spec => []NoStreamLeft
<1>1. SessionInv => NoStreamLeft
  BY DEF SessionInv
<1> QED BY <1>1, Invariance, PTL
=============================================================================
