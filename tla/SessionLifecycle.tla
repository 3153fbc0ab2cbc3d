-------------------------- MODULE SessionLifecycle ---------------------------
(***************************************************************************)
(* A client (connection/TypeDBClientImpl.ts), its sessions                 *)
(* (connection/TypeDBSessionImpl.ts) and their transactions, as far as     *)
(* opening and closing them goes: who knows of whom, what is awaited when  *)
(* somebody closes, and the pulse that keeps a session alive.              *)
(*                                                                         *)
(* A step is what runs between two awaits.  An await that is resolved      *)
(* continues in a later step, so that other code may run in between:       *)
(* session() of the client awaits databases.get(), the sessionOpen RPC and *)
(* session.open(); transaction() of the session awaits transaction.open(). *)
(* The calls and the stream of a transaction are in TransactionStream;     *)
(* here it is open, ended behind its back, or closed.                      *)
(*                                                                         *)
(* The server and the gRPC channel are outside this repository.  An RPC    *)
(* may fail at any time; one in flight when the channel is closed still    *)
(* ends in an answer or an error.  One that is made afterwards throws: the *)
(* promises of session(), transaction() and close() are rejected, but      *)
(* nobody catches what a pulse throws.  By default that ends the process;  *)
(* the model goes on, as a process with a handler of its own does.         *)
(* The id of a session is the session: the server makes them unique, and   *)
(* the SESSION_ID_EXISTS check of session() never fires.                   *)
(***************************************************************************)
EXTENDS Naturals, FiniteSets

CONSTANTS Session,      \* calls of session() on the client
          Transaction,  \* calls of transaction() on a session
          SessionOf     \* the session each of these is called on

ASSUME SessionOfIsFunction == SessionOf \in [Transaction -> Session]

VARIABLES
    clientOpen,    \* _isOpen of the client, its transmitter and its channel
    sessions,      \* _sessions: the client's table
    stage,         \* how far session() is for each session
    isOpen,        \* _isOpen of each session
    pulseTimer,    \* pending pulse timers of each session
    pulsing,       \* sessionPulse RPCs in flight for each session
    closed,        \* history: the sessions whose close() did its work
    lost,          \* history: the sessions a pulse found dead
    thrown,        \* history: the sessions whose pulse threw out of its timer
    lateSessions,  \* history: session() was in progress when the client closed
    txStage,       \* how far transaction() is for each transaction
    txOpen,        \* isOpen() of each transaction
    transactions,  \* the members of the _transactions sets of the sessions
    dispatchers,   \* _dispatchers of the transmitter: streams not ended
    lateTxs,       \* history: transaction() was in progress when the session closed
    serverSession  \* what the server has: "none", "live", "gone"

clientVars == <<clientOpen, sessions, lateSessions>>
sessionVars == <<stage, isOpen, pulseTimer, pulsing, closed, lost, thrown>>
txVars == <<txStage, txOpen, transactions, dispatchers, lateTxs>>
vars == <<clientVars, sessionVars, txVars, serverSession>>

TypeOK ==
    /\ clientOpen \in BOOLEAN
    /\ sessions \in SUBSET Session
    /\ stage \in [Session -> {"none", "checking", "opening", "opened",
                              "returned", "failed"}]
    /\ isOpen \in [Session -> BOOLEAN]
    /\ pulseTimer \in [Session -> Nat]
    /\ pulsing \in [Session -> Nat]
    /\ closed \in SUBSET Session
    /\ lost \in SUBSET Session
    /\ thrown \in SUBSET Session
    /\ lateSessions \in SUBSET Session
    /\ txStage \in [Transaction -> {"none", "opening", "opened", "returned",
                                    "failed"}]
    /\ txOpen \in [Transaction -> BOOLEAN]
    /\ transactions \in SUBSET Transaction
    /\ dispatchers \in SUBSET Transaction
    /\ lateTxs \in SUBSET Transaction
    /\ serverSession \in [Session -> {"none", "live", "gone"}]

Init ==
    /\ clientOpen = TRUE /\ sessions = {} /\ lateSessions = {}
    /\ stage = [x \in Session |-> "none"]
    /\ isOpen = [x \in Session |-> FALSE]
    /\ pulseTimer = [x \in Session |-> 0]
    /\ pulsing = [x \in Session |-> 0]
    /\ closed = {} /\ lost = {} /\ thrown = {}
    /\ txStage = [t \in Transaction |-> "none"]
    /\ txOpen = [t \in Transaction |-> FALSE]
    /\ transactions = {} /\ dispatchers = {} /\ lateTxs = {}
    /\ serverSession = [x \in Session |-> "none"]

-----------------------------------------------------------------------------
(* session() of the client *)

SessionStage(x, from, to) == /\ stage[x] = from
                             /\ stage' = [stage EXCEPT ![x] = to]

(***************************************************************************)
(* session(): open() awaits databases.get().  Nothing asks whether the     *)
(* client is still open.                                                   *)
(***************************************************************************)
CallSession(x) ==
    /\ SessionStage(x, "none", "checking")
    /\ UNCHANGED <<clientVars, isOpen, pulseTimer, pulsing, closed, lost,
                   thrown, txVars, serverSession>>

(***************************************************************************)
(* databases.get() has found the database: the sessionOpen RPC is made.    *)
(* The server opens the session.                                           *)
(***************************************************************************)
DatabaseFound(x) ==
    /\ clientOpen
    /\ SessionStage(x, "checking", "opening")
    /\ serverSession' = [serverSession EXCEPT ![x] = "live"]
    /\ UNCHANGED <<clientVars, isOpen, pulseTimer, pulsing, closed, lost, thrown,
                   txVars>>

(***************************************************************************)
(* The sessionOpen RPC returns, the client having been closed or not.      *)
(***************************************************************************)
SessionOpened(x) ==
    /\ SessionStage(x, "opening", "opened")
    /\ isOpen' = [isOpen EXCEPT ![x] = TRUE]
    /\ pulseTimer' = [pulseTimer EXCEPT ![x] = 1]
    /\ UNCHANGED <<clientVars, pulsing, closed, lost, thrown, txVars, serverSession>>

(***************************************************************************)
(* databases.get() or sessionOpen fails: session() rejects.                *)
(***************************************************************************)
SessionFails(x) ==
    /\ stage[x] \in {"checking", "opening"}
    /\ stage' = [stage EXCEPT ![x] = "failed"]
    /\ UNCHANGED <<clientVars, isOpen, pulseTimer, pulsing, closed, lost,
                   thrown, txVars, serverSession>>

(***************************************************************************)
(* session.open() has returned: session() enters the session in the table, *)
(* the client having been closed or not, and returns it.                   *)
(***************************************************************************)
SessionReturned(x) ==
    /\ SessionStage(x, "opened", "returned")
    /\ sessions' = sessions \cup {x}
    /\ UNCHANGED <<clientOpen, lateSessions, isOpen, pulseTimer, pulsing,
                   closed, lost, thrown, txVars, serverSession>>

-----------------------------------------------------------------------------
(* close() of the sessions and of the client *)

InProgress == {t \in Transaction : txStage[t] \in {"opening", "opened"}}

TransactionsOf(S) == {t \in transactions : SessionOf[t] \in S}

\* Mutant of CloseSessions: the sessions stay in the table of the client.
CloseSessionsKeepsEntry(S) ==
    /\ isOpen' = [x \in Session |-> isOpen[x] /\ x \notin S]
    /\ txOpen' = [t \in Transaction |-> txOpen[t] /\ t \notin TransactionsOf(S)]
    /\ UNCHANGED sessions
    /\ pulseTimer' = [x \in Session |-> IF x \in S THEN 0 ELSE pulseTimer[x]]
    /\ closed' = closed \cup S
    /\ lateTxs' = lateTxs \cup {t \in InProgress : SessionOf[t] \in S}

(***************************************************************************)
(* close() of each session in S, all of them open: up to its await of the  *)
(* sessionClose RPC it runs without interruption.  Only the transactions   *)
(* in _transactions are closed.                                            *)
(***************************************************************************)
CloseSessions(S) ==
    /\ isOpen' = [x \in Session |-> isOpen[x] /\ x \notin S]
    /\ txOpen' = [t \in Transaction |-> txOpen[t] /\ t \notin TransactionsOf(S)]
    /\ sessions' = sessions \ S
    /\ pulseTimer' = [x \in Session |-> IF x \in S THEN 0 ELSE pulseTimer[x]]
    /\ closed' = closed \cup S
    /\ lateTxs' = lateTxs \cup {t \in InProgress : SessionOf[t] \in S}

(***************************************************************************)
(* close() of a session that session() returned; it does nothing when the  *)
(* session is not open.                                                    *)
(***************************************************************************)
CloseSession(x) ==
    /\ stage[x] = "returned" /\ isOpen[x]
    /\ CloseSessions({x})
    /\ dispatchers' = dispatchers \ TransactionsOf({x})
    /\ UNCHANGED <<clientOpen, lateSessions, stage, pulsing, lost, thrown, txStage,
                   transactions, serverSession>>

\* Mutant of CloseClient: the transmitter is not closed.
CloseClientKeepsTransmitter ==
    LET S == {x \in sessions : isOpen[x]}
    IN  /\ clientOpen
        /\ clientOpen' = FALSE
        /\ CloseSessions(S)
        /\ dispatchers' = dispatchers \ TransactionsOf(S)
        /\ lateSessions' = {x \in Session : stage[x] \in {"opening", "opened"}}
        /\ UNCHANGED <<stage, pulsing, lost, thrown, txStage, transactions,
                       serverSession>>

\* Mutant of CloseClient: the sessions are not closed.
CloseClientOnly ==
    /\ clientOpen
    /\ clientOpen' = FALSE
    /\ dispatchers' = {}
    /\ lateSessions' = {x \in Session : stage[x] \in {"opening", "opened"}}
    /\ UNCHANGED <<sessions, sessionVars, txStage, txOpen, transactions,
                   lateTxs, serverSession>>

(***************************************************************************)
(* close() of the client closes the sessions in its table; then the        *)
(* transmitter ends the streams that are left, and the channel is closed.  *)
(***************************************************************************)
CloseClient ==
    /\ clientOpen
    /\ clientOpen' = FALSE
    /\ CloseSessions({x \in sessions : isOpen[x]})
    /\ dispatchers' = {}
    /\ lateSessions' = {x \in Session : stage[x] \in {"opening", "opened"}}
    /\ UNCHANGED <<stage, pulsing, lost, thrown, txStage, transactions,
                   serverSession>>

-----------------------------------------------------------------------------
(* pulse() of the session *)

\* Mutant of PulseTimerFires: pulse() does not ask whether the session is open.
PulseTimerFiresUnchecked(x) ==
    /\ pulseTimer[x] > 0
    /\ pulseTimer' = [pulseTimer EXCEPT ![x] = @ - 1]
    /\ \/ clientOpen /\ pulsing' = [pulsing EXCEPT ![x] = @ + 1] /\ UNCHANGED thrown
       \/ ~clientOpen /\ thrown' = thrown \cup {x} /\ UNCHANGED pulsing
    /\ UNCHANGED <<clientVars, stage, isOpen, closed, lost, txVars, serverSession>>

\* Mutant of PulseTimerFires: a pulse that throws is tried again later.
PulseTimerFiresTriesAgain(x) ==
    /\ pulseTimer[x] > 0
    /\ \/ /\ ~isOpen[x]
          /\ pulseTimer' = [pulseTimer EXCEPT ![x] = @ - 1] /\ UNCHANGED <<pulsing, thrown>>
       \/ /\ isOpen[x] /\ clientOpen
          /\ pulseTimer' = [pulseTimer EXCEPT ![x] = @ - 1]
          /\ pulsing' = [pulsing EXCEPT ![x] = @ + 1] /\ UNCHANGED thrown
       \/ /\ isOpen[x] /\ ~clientOpen
          /\ thrown' = thrown \cup {x} /\ UNCHANGED <<pulseTimer, pulsing>>
    /\ UNCHANGED <<clientVars, stage, isOpen, closed, lost, txVars, serverSession>>

(***************************************************************************)
(* The pulse timer: an open session makes the sessionPulse RPC.  On the    *)
(* closed channel the call throws out of the timer, before there is an RPC *)
(* whose callback could set the timer again or clear the flag.             *)
(***************************************************************************)
PulseTimerFires(x) ==
    /\ pulseTimer[x] > 0
    /\ pulseTimer' = [pulseTimer EXCEPT ![x] = @ - 1]
    /\ \/ ~isOpen[x] /\ UNCHANGED <<pulsing, thrown>>
       \/ /\ isOpen[x] /\ clientOpen
          /\ pulsing' = [pulsing EXCEPT ![x] = @ + 1] /\ UNCHANGED thrown
       \/ /\ isOpen[x] /\ ~clientOpen
          /\ thrown' = thrown \cup {x} /\ UNCHANGED pulsing
    /\ UNCHANGED <<clientVars, stage, isOpen, closed, lost, txVars, serverSession>>

PulseReturns(x) == /\ pulsing[x] > 0
                   /\ pulsing' = [pulsing EXCEPT ![x] = @ - 1]

\* Mutant of PulseAlive: the timer is not set again.
PulseAliveNoTimer(x) ==
    /\ PulseReturns(x)
    /\ serverSession[x] = "live"
    /\ UNCHANGED <<clientVars, stage, isOpen, pulseTimer, closed, lost, thrown,
                   txVars, serverSession>>

(***************************************************************************)
(* The server says that the session is alive: the timer is set again, the  *)
(* session or its client having been closed in the meantime or not.        *)
(***************************************************************************)
PulseAlive(x) ==
    /\ PulseReturns(x)
    /\ serverSession[x] = "live"
    /\ pulseTimer' = [pulseTimer EXCEPT ![x] = @ + 1]
    /\ UNCHANGED <<clientVars, stage, isOpen, closed, lost, thrown, txVars,
                   serverSession>>

(***************************************************************************)
(* The RPC fails, or the server does not know the session any more: the    *)
(* flag is all that changes, the transactions and the table are not told.  *)
(***************************************************************************)
PulseFails(x) ==
    /\ PulseReturns(x)
    /\ isOpen' = [isOpen EXCEPT ![x] = FALSE]
    /\ lost' = IF isOpen[x] THEN lost \cup {x} ELSE lost
    /\ UNCHANGED <<clientVars, stage, pulseTimer, closed, thrown, txVars, serverSession>>

-----------------------------------------------------------------------------
(* transaction() of the session *)

TxStage(t, from, to) == /\ txStage[t] = from
                        /\ txStage' = [txStage EXCEPT ![t] = to]

(***************************************************************************)
(* transaction(): the constructor opens the stream, the transmitter adds   *)
(* its dispatcher, and transaction.open() is awaited.  On a session that   *)
(* is not open it throws; on a closed channel there is no stream.          *)
(***************************************************************************)
CallTransaction(t) ==
    LET x == SessionOf[t]
    IN  /\ stage[x] = "returned"
        /\ \/ /\ isOpen[x] /\ clientOpen
              /\ TxStage(t, "none", "opening")
              /\ txOpen' = [txOpen EXCEPT ![t] = TRUE]
              /\ dispatchers' = dispatchers \cup {t}
           \/ /\ ~(isOpen[x] /\ clientOpen)
              /\ TxStage(t, "none", "failed")
              /\ UNCHANGED <<txOpen, dispatchers>>
        /\ UNCHANGED <<clientVars, sessionVars, transactions, lateTxs,
                       serverSession>>

(***************************************************************************)
(* The response to the open request arrives.                               *)
(***************************************************************************)
TransactionOpened(t) ==
    /\ txOpen[t]
    /\ TxStage(t, "opening", "opened")
    /\ UNCHANGED <<clientVars, sessionVars, txOpen, transactions, dispatchers,
                   lateTxs, serverSession>>

(***************************************************************************)
(* The stream was closed before the response: transaction() rejects.       *)
(***************************************************************************)
TransactionFails(t) ==
    /\ ~txOpen[t]
    /\ TxStage(t, "opening", "failed")
    /\ UNCHANGED <<clientVars, sessionVars, txOpen, transactions, dispatchers,
                   lateTxs, serverSession>>

\* Mutant of TransactionReturned: the transaction is not added to the set.
TransactionReturnedUnknown(t) ==
    /\ TxStage(t, "opened", "returned")
    /\ UNCHANGED <<clientVars, sessionVars, txOpen, transactions, dispatchers,
                   lateTxs, serverSession>>

(***************************************************************************)
(* transaction.open() has returned: the transaction is added to the set    *)
(* of the session, which may have been closed in the meantime.             *)
(***************************************************************************)
TransactionReturned(t) ==
    /\ TxStage(t, "opened", "returned")
    /\ transactions' = transactions \cup {t}
    /\ UNCHANGED <<clientVars, sessionVars, txOpen, dispatchers, lateTxs,
                   serverSession>>

(***************************************************************************)
(* A transaction is closed by its user, once transaction() has returned    *)
(* it, or by an event of its stream: BidirectionalStream.close().          *)
(***************************************************************************)
CloseTransaction(t) ==
    /\ txOpen[t]
    /\ txOpen' = [txOpen EXCEPT ![t] = FALSE]
    /\ dispatchers' = dispatchers \ {t}
    /\ UNCHANGED <<clientVars, sessionVars, txStage, transactions, lateTxs,
                   serverSession>>

-----------------------------------------------------------------------------
(* The server (external) *)

(***************************************************************************)
(* The session is gone: closed by the sessionClose RPC, or timed out.      *)
(***************************************************************************)
ServerSessionGone(x) ==
    /\ serverSession[x] = "live"
    /\ serverSession' = [serverSession EXCEPT ![x] = "gone"]
    /\ UNCHANGED <<clientVars, sessionVars, txVars>>

-----------------------------------------------------------------------------

Next ==
    \/ CloseClient
    \/ \E x \in Session :
          \/ CallSession(x) \/ DatabaseFound(x) \/ SessionOpened(x)
          \/ SessionFails(x) \/ SessionReturned(x) \/ CloseSession(x)
          \/ PulseTimerFires(x) \/ PulseAlive(x) \/ PulseFails(x)
          \/ ServerSessionGone(x)
    \/ \E t \in Transaction :
          \/ CallTransaction(t) \/ TransactionOpened(t) \/ TransactionFails(t)
          \/ TransactionReturned(t) \/ CloseTransaction(t)

(***************************************************************************)
(* Timers fire and a pulse RPC returns, one way or the other; an await     *)
(* that is resolved continues.                                             *)
(***************************************************************************)
Fairness ==
    \A x \in Session : /\ WF_vars(PulseTimerFires(x))
                       /\ WF_vars(PulseAlive(x) \/ PulseFails(x))
                       /\ WF_vars(SessionReturned(x))

Spec == Init /\ [][Next]_vars

FairSpec == Spec /\ Fairness

-----------------------------------------------------------------------------
(* Properties *)

(***************************************************************************)
(* While its client is open, an open session always has exactly one pulse  *)
(* to come, a timer or an RPC in flight, so that the server hears from it; *)
(* any other session has at most one left.                                 *)
(***************************************************************************)
KeptAlive ==
    \A x \in Session :
       /\ isOpen[x] /\ clientOpen => pulseTimer[x] + pulsing[x] = 1
       /\ pulseTimer[x] + pulsing[x] <= 1

(***************************************************************************)
(* The table of the client and the sessions agree: every open session that *)
(* session() has returned is in the table, so that close() of the client   *)
(* reaches it, and what is in the table although it is not open was lost   *)
(* by its pulse.                                                           *)
(***************************************************************************)
TableAgrees ==
    \A x \in Session :
       /\ stage[x] = "returned" /\ isOpen[x] => x \in sessions
       /\ x \in sessions /\ ~isOpen[x] => x \in lost

(***************************************************************************)
(* A session that is open although its client is closed was still being    *)
(* opened when the client closed: nobody checks after the await.           *)
(***************************************************************************)
OnlyLateSessionsSurvive ==
    \A x \in Session : ~clientOpen /\ isOpen[x] => x \in lateSessions

(***************************************************************************)
(* Only a session that was still being opened when its client closed is    *)
(* pulsed on the closed channel, which throws out of the timer.  A pulse   *)
(* that was in flight when close() was called may set the timer of any     *)
(* session again (TypeDBSessionImpl.ts:126), but that timer finds the      *)
(* session closed.                                                         *)
(***************************************************************************)
OnlyLateSessionsThrow == thrown \subseteq lateSessions

(***************************************************************************)
(* A transaction that is open although close() of its session has run was  *)
(* still being opened at that time.                                        *)
(***************************************************************************)
OnlyLateTransactionsSurvive ==
    \A t \in Transaction : SessionOf[t] \in closed /\ txOpen[t] => t \in lateTxs

(***************************************************************************)
(* Once the client is closed no transaction stream is left un-ended, those *)
(* of lost sessions and of late transactions included: the transmitter     *)
(* knows the streams that the sessions do not.                             *)
(***************************************************************************)
NoStreamLeft == ~clientOpen => dispatchers = {}

(***************************************************************************)
(* A session that is no longer open stops pulsing.                         *)
(***************************************************************************)
PulseStops ==
    \A x \in Session :
       (stage[x] = "returned" /\ ~isOpen[x])
          ~> [](pulseTimer[x] = 0 /\ pulsing[x] = 0)

(***************************************************************************)
(* Once the client is closed its sessions fall silent, those included that *)
(* were still being opened and are open ever after: no timer is left that  *)
(* would keep the process alive.                                           *)
(***************************************************************************)
SilentOnceClientClosed ==
    \A x \in Session : ~clientOpen ~> [](pulseTimer[x] = 0 /\ pulsing[x] = 0)
=============================================================================
