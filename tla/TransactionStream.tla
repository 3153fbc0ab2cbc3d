-------------------------- MODULE TransactionStream --------------------------
(***************************************************************************)
(* One transaction of the client: TypeDBTransactionImpl.ts over            *)
(* BidirectionalStream.ts, with its BatchDispatcher, its two               *)
(* ResponseCollectors and the ResponsePartIterator of every stream call.   *)
(*                                                                         *)
(* The calls of the user, the callbacks of the event loop (timer, stream   *)
(* events) and the resumption of an await are the steps; between two of    *)
(* them the code runs without interruption.  The calls of a transaction    *)
(* interleave freely: the code awaits in the middle of each of them.       *)
(*                                                                         *)
(* The server and the gRPC stream are outside this repository.  They are   *)
(* modelled as the code uses them: the server takes the requests in order, *)
(* answers a single request once, sends the parts of a stream in portions  *)
(* and waits after each portion until it is asked for more; the stream     *)
(* delivers responses in order and ends, or breaks, at any time.           *)
(***************************************************************************)
EXTENDS Naturals, Sequences, FiniteSets

CONSTANTS Queries,     \* single requests that may wait for a batch
          Immediates,  \* single requests sent at once: open(), rollback()
          Commits,     \* calls of commit()
          Streams,     \* calls of rpcStream()
          MaxParts,    \* bound: parts the server sends for a stream call
          Portion,     \* parts the server sends before it asks
          EmitsDone    \* the stream emits "done" when the server has ended it

ASSUME PortionIsPositive == Portion \in Nat \ {0} /\ MaxParts \in Nat
ASSUME EmitsDoneIsBoolean == EmitsDone \in BOOLEAN
ASSUME CallsAreDistinct ==
    /\ Queries \cap Immediates = {}
    /\ (Queries \cup Immediates) \cap Commits = {}
    /\ (Queries \cup Immediates \cup Commits) \cap Streams = {}

Singles == Queries \cup Immediates \cup Commits
Call == Singles \cup Streams

(***************************************************************************)
(* A request on the wire: the request of a call, or (more) the request of  *)
(* a stream call for its next portion.                                     *)
(***************************************************************************)
Request == [id : Call, more : BOOLEAN]
Req(r) == [id |-> r, more |-> FALSE]
StreamReq(s) == [id |-> s, more |-> TRUE]

(***************************************************************************)
(* What the server sends: "res" answers a single request; a stream call    *)
(* gets numbered parts, "continue" at the end of a portion, "done" at the  *)
(* end.                                                                    *)
(***************************************************************************)
Control(kind) == [kind |-> kind, number |-> 0]
PartReply(n) == [kind |-> "part", number |-> n]

ResReplies == {Control("res")}
PartReplies == {Control("continue"), Control("done")}
                 \cup {PartReply(n) : n \in 1 .. MaxParts}

Cause == {"closed", "error"}   \* close() without, and with, an error

VARIABLES
    isOpen,         \* _isOpen of the stream
    resCollectors, resQueues,     \* _responseCollector
    partCollectors, partQueues,   \* _responsePartCollector
    buffered, isRunning, timers, ended, written, dropped, wroteEmpty, submitted,
                    \* _dispatcher, see BatchDispatcher
    transmitterOpen, \* _isOpen of the RequestTransmitter
    phase,          \* where the code of each call is
    outcome,        \* how the call has settled
    delivered,      \* history: the parts a stream call gave to its user
    reiterated,     \* the stream calls whose Stream is iterated a second time
    cause,          \* history: what the first close() was called with
    uncaught,       \* an exception was thrown in an event handler
    \* outside the client
    received,       \* how many requests of "written" the server has taken
    server,         \* how far the server is with each call
    produced,       \* parts produced for each stream call
    credit,         \* parts the server may still send in this portion
    inbox,          \* responses on their way to the client
    connection,     \* the state of the gRPC stream
    writeError      \* the error event of a late write: no, or raised

collectorVars == <<resCollectors, resQueues, partCollectors, partQueues>>
dispatcherVars == <<buffered, isRunning, timers, ended, written, dropped,
                    wroteEmpty, submitted>>
callVars == <<phase, outcome, delivered, reiterated>>
serverVars == <<received, server, produced, credit>>
networkVars == <<inbox, connection, writeError>>

vars == <<isOpen, collectorVars, dispatcherVars, transmitterOpen, callVars,
          cause, uncaught, serverVars, networkVars>>

Res == INSTANCE ResponseCollector
         WITH RequestId <- Singles, Value <- ResReplies,
              collectors <- resCollectors, queues <- resQueues
Part == INSTANCE ResponseCollector
          WITH RequestId <- Streams, Value <- PartReplies,
               collectors <- partCollectors, queues <- partQueues

\* MaxRequests bounds only the dispatcher's own next-state relation.
Dispatcher == INSTANCE BatchDispatcher WITH MaxRequests <- 0

QueueOf(r) == IF r \in Singles THEN resQueues[r] ELSE partQueues[r]

TypeOK ==
    /\ isOpen \in BOOLEAN
    /\ Res!TypeOK /\ Part!TypeOK /\ Dispatcher!TypeOK
    /\ transmitterOpen \in BOOLEAN
    /\ phase \in [Call -> {"idle", "ready", "waiting", "settling", "settled"}]
    /\ outcome \in [Call -> {"none", "answered", "refused"} \cup Cause]
    /\ delivered \in [Streams -> Seq(1 .. MaxParts)]
    /\ reiterated \in SUBSET Streams
    /\ cause \in {"none"} \cup Cause
    /\ uncaught \in BOOLEAN
    /\ received \in Nat
    /\ server \in [Call -> {"none", "working", "paused", "done"}]
    /\ produced \in [Streams -> 0 .. MaxParts]
    /\ credit \in [Streams -> 0 .. Portion]
    /\ inbox \in Seq([id : Call, reply : ResReplies \cup PartReplies])
    /\ connection \in {"up", "ended", "finished", "broken"}
    /\ writeError \in BOOLEAN

Init ==
    /\ isOpen = TRUE
    /\ Res!Init /\ Part!Init /\ Dispatcher!Init
    /\ transmitterOpen = TRUE
    /\ phase = [r \in Call |-> "idle"]
    /\ outcome = [r \in Call |-> "none"]
    /\ delivered = [s \in Streams |-> <<>>]
    /\ reiterated = {}
    /\ cause = "none"
    /\ uncaught = FALSE
    /\ received = 0
    /\ server = [r \in Call |-> "none"]
    /\ produced = [s \in Streams |-> 0]
    /\ credit = [s \in Streams |-> 0]
    /\ inbox = <<>>
    /\ connection = "up"
    /\ writeError = FALSE

-----------------------------------------------------------------------------
(* BidirectionalStream.close(error) *)

\* Mutant of CloseStream: the calls that wait for parts are forgotten.
CloseStreamForgetsParts(error) ==
    /\ isOpen' = FALSE
    /\ Res!Close(error)
    /\ UNCHANGED <<partCollectors, partQueues>>
    /\ Dispatcher!Close
    /\ cause' = IF isOpen THEN error ELSE cause

\* Mutant of CloseStream: the collectors are closed without the error.
CloseStreamLosesError(error) ==
    /\ isOpen' = FALSE
    /\ Res!Close("closed")
    /\ Part!Close("closed")
    /\ Dispatcher!Close
    /\ cause' = IF isOpen THEN error ELSE cause

CloseStream(error) ==
    /\ isOpen' = FALSE
    /\ Res!Close(error)
    /\ Part!Close(error)
    /\ Dispatcher!Close
    /\ cause' = IF isOpen THEN error ELSE cause

-----------------------------------------------------------------------------
(* The user's calls *)

\* Mutant of Execute: a closed transaction takes the call as well.
ExecuteUnchecked(r) ==
    /\ phase[r] = "idle"
    /\ Res!Queue(r)
    /\ IF r \in Queries THEN Dispatcher!Dispatch(Req(r))
                        ELSE Dispatcher!DispatchNow(Req(r))
    /\ phase' = [phase EXCEPT ![r] = "waiting"]
    /\ UNCHANGED <<isOpen, partCollectors, partQueues, transmitterOpen,
                   outcome, delivered, reiterated, cause, uncaught,
                   serverVars, networkVars>>

(***************************************************************************)
(* rpcExecute(request, batch), up to its await, and single(): the queue is *)
(* registered before the request is passed to the dispatcher.  A commit()  *)
(* that is refused still runs its finally block.                           *)
(***************************************************************************)
Execute(r) ==
    /\ phase[r] = "idle"
    /\ \/ /\ isOpen
          /\ Res!Queue(r)
          /\ \/ r \in Queries /\ Dispatcher!Dispatch(Req(r))
             \/ r \notin Queries /\ Dispatcher!DispatchNow(Req(r))
          /\ phase' = [phase EXCEPT ![r] = "waiting"]
          /\ UNCHANGED outcome
       \/ /\ ~isOpen
          /\ outcome' = [outcome EXCEPT ![r] = "refused"]
          /\ phase' = [phase EXCEPT
                         ![r] = IF r \in Commits THEN "settling" ELSE "settled"]
          /\ UNCHANGED <<resCollectors, resQueues, dispatcherVars>>
    /\ UNCHANGED <<isOpen, partCollectors, partQueues, transmitterOpen,
                   delivered, reiterated, cause, uncaught,
                   serverVars, networkVars>>

(***************************************************************************)
(* rpcStream(request) and stream(): the request is dispatched although     *)
(* nobody has asked the Stream for a part yet.                             *)
(***************************************************************************)
OpenStream(s) ==
    /\ phase[s] = "idle"
    /\ \/ /\ isOpen
          /\ Part!Queue(s)
          /\ Dispatcher!Dispatch(Req(s))
          /\ phase' = [phase EXCEPT ![s] = "ready"]
          /\ UNCHANGED outcome
       \/ /\ ~isOpen
          /\ outcome' = [outcome EXCEPT ![s] = "refused"]
          /\ phase' = [phase EXCEPT ![s] = "settled"]
          /\ UNCHANGED <<partCollectors, partQueues, dispatcherVars>>
    /\ UNCHANGED <<isOpen, resCollectors, resQueues, transmitterOpen,
                   delivered, reiterated, cause, uncaught,
                   serverVars, networkVars>>

(***************************************************************************)
(* The user asks the Stream for its next part: next() awaits take().       *)
(***************************************************************************)
Pull(s) ==
    /\ phase[s] = "ready"
    /\ phase' = [phase EXCEPT ![s] = "waiting"]
    /\ UNCHANGED <<isOpen, collectorVars, dispatcherVars, transmitterOpen,
                   outcome, delivered, reiterated, cause, uncaught,
                   serverVars, networkVars>>

(***************************************************************************)
(* The user iterates again over a Stream whose iteration has ended: a new  *)
(* generator calls next() on the same, used-up queue.  Bound: once.        *)
(***************************************************************************)
Reiterate(s) ==
    /\ phase[s] = "settled" /\ outcome[s] # "refused" /\ s \notin reiterated
    /\ phase' = [phase EXCEPT ![s] = "waiting"]
    /\ reiterated' = reiterated \cup {s}
    /\ UNCHANGED <<isOpen, collectorVars, dispatcherVars, transmitterOpen,
                   outcome, delivered, cause, uncaught,
                   serverVars, networkVars>>

(***************************************************************************)
(* close() of the transaction, at any time.                                *)
(***************************************************************************)
UserClose ==
    /\ CloseStream("closed")
    /\ UNCHANGED <<transmitterOpen, callVars, uncaught, serverVars, networkVars>>

(***************************************************************************)
(* RequestTransmitter.close() ends the stream of every dispatcher that has *)
(* not been closed, behind the back of its transaction.                    *)
(***************************************************************************)
TransmitterClose ==
    /\ transmitterOpen
    /\ transmitterOpen' = FALSE
    /\ \/ ~ended /\ Dispatcher!Close
       \/ ended /\ UNCHANGED dispatcherVars
    /\ UNCHANGED <<isOpen, collectorVars, callVars, cause, uncaught,
                   serverVars, networkVars>>

-----------------------------------------------------------------------------
(* The code after an await *)

(***************************************************************************)
(* How a call settles when take() returns its first closing element.       *)
(***************************************************************************)
Settle(r, how) ==
    outcome' = [outcome EXCEPT ![r] = IF @ = "none" THEN how ELSE @]

(***************************************************************************)
(* take() returns in single().  A commit() goes on to its finally block.   *)
(***************************************************************************)
ResumeSingle(r) ==
    /\ phase[r] = "waiting"
    /\ Res!Take(r)
    /\ LET e == Head(resQueues[r])
       IN  Settle(r, IF e.done THEN e.error ELSE "answered")
    /\ phase' = [phase EXCEPT
                   ![r] = IF r \in Commits THEN "settling" ELSE "settled"]
    /\ UNCHANGED <<isOpen, partCollectors, partQueues, dispatcherVars,
                   transmitterOpen, delivered, reiterated, cause, uncaught,
                   serverVars, networkVars>>

\* Mutant of CommitCloses: commit() has no finally block.
CommitDoesNotClose(r) ==
    /\ phase[r] = "settling"
    /\ phase' = [phase EXCEPT ![r] = "settled"]
    /\ UNCHANGED <<isOpen, collectorVars, dispatcherVars, transmitterOpen,
                   outcome, delivered, reiterated, cause, uncaught,
                   serverVars, networkVars>>

(***************************************************************************)
(* The finally block of commit().                                          *)
(***************************************************************************)
CommitCloses(r) ==
    /\ phase[r] = "settling"
    /\ CloseStream("closed")
    /\ phase' = [phase EXCEPT ![r] = "settled"]
    /\ UNCHANGED <<transmitterOpen, outcome, delivered, reiterated, uncaught,
                   serverVars, networkVars>>

KindOf(e) == IF e.done THEN "closing" ELSE e.value.kind

\* Mutant of Advance: the end of a portion is taken for the end of the stream.
AdvanceStopsAtPortion(s, e) ==
    \/ /\ KindOf(e) = "part"
       /\ delivered' = [delivered EXCEPT ![s] = Append(@, e.value.number)]
       /\ phase' = [phase EXCEPT ![s] = "ready"]
       /\ UNCHANGED <<outcome, dispatcherVars>>
    \/ /\ KindOf(e) \in {"done", "continue", "closing"}
       /\ Settle(s, IF e.done THEN e.error ELSE "answered")
       /\ phase' = [phase EXCEPT ![s] = "settled"]
       /\ UNCHANGED <<delivered, dispatcherVars>>

\* Mutant of Advance: every part asks for another portion.
AdvanceAlwaysAsks(s, e) ==
    \/ /\ KindOf(e) = "part"
       /\ delivered' = [delivered EXCEPT ![s] = Append(@, e.value.number)]
       /\ phase' = [phase EXCEPT ![s] = "ready"]
       /\ Dispatcher!Dispatch(StreamReq(s))
       /\ UNCHANGED outcome
    \/ /\ KindOf(e) = "continue"
       /\ UNCHANGED <<phase, outcome, delivered, dispatcherVars>>
    \/ /\ KindOf(e) \in {"done", "closing"}
       /\ Settle(s, IF e.done THEN e.error ELSE "answered")
       /\ phase' = [phase EXCEPT ![s] = "settled"]
       /\ UNCHANGED <<delivered, dispatcherVars>>

(***************************************************************************)
(* next() of the iterator, with the element take() returned: a part goes   *)
(* to the user, the end of a portion makes it ask for the next one and     *)
(* take again, the end of the stream or a closing element ends it.         *)
(***************************************************************************)
Advance(s, e) ==
    \/ /\ KindOf(e) = "part"
       /\ delivered' = [delivered EXCEPT ![s] = Append(@, e.value.number)]
       /\ phase' = [phase EXCEPT ![s] = "ready"]
       /\ UNCHANGED <<outcome, dispatcherVars>>
    \/ /\ KindOf(e) = "continue"
       /\ Dispatcher!Dispatch(StreamReq(s))
       /\ UNCHANGED <<phase, outcome, delivered>>
    \/ /\ KindOf(e) \in {"done", "closing"}
       /\ Settle(s, IF e.done THEN e.error ELSE "answered")
       /\ phase' = [phase EXCEPT ![s] = "settled"]
       /\ UNCHANGED <<delivered, dispatcherVars>>

ResumeStream(s) ==
    /\ phase[s] = "waiting"
    /\ Part!Take(s)
    /\ Advance(s, Head(partQueues[s]))
    /\ UNCHANGED <<isOpen, resCollectors, resQueues, transmitterOpen,
                   reiterated, cause, uncaught, serverVars, networkVars>>

-----------------------------------------------------------------------------
(* The event handlers: the timer, and registerObserver() *)

TimerFires ==
    /\ Dispatcher!TimerFires
    /\ UNCHANGED <<isOpen, collectorVars, transmitterOpen, callVars, cause,
                   uncaught, serverVars, networkVars>>

(***************************************************************************)
(* collectRes(res) and collectResPart(res): a response for which no queue  *)
(* is registered is an UNKNOWN_REQUEST_ID error, thrown where nobody       *)
(* catches it.                                                             *)
(***************************************************************************)
Collect(m) ==
    \/ /\ m.reply.kind = "res" /\ m.id \in resCollectors
       /\ Res!Put(m.id, m.reply)
       /\ UNCHANGED <<partCollectors, partQueues, uncaught>>
    \/ /\ m.reply.kind # "res" /\ m.id \in partCollectors
       /\ Part!Put(m.id, m.reply)
       /\ UNCHANGED <<resCollectors, resQueues, uncaught>>
    \/ /\ m.id \notin (IF m.reply.kind = "res" THEN resCollectors ELSE partCollectors)
       /\ uncaught' = TRUE
       /\ UNCHANGED collectorVars

\* Mutant of DataEvent: responses are collected after close() as well.
DataEventAfterClose ==
    /\ inbox # <<>>
    /\ inbox' = Tail(inbox)
    /\ Collect(Head(inbox))
    /\ UNCHANGED <<isOpen, dispatcherVars, transmitterOpen, callVars, cause,
                   serverVars, connection, writeError>>

(***************************************************************************)
(* on("data"): ignored once the stream is closed.                          *)
(***************************************************************************)
DataEvent ==
    /\ inbox # <<>>
    /\ inbox' = Tail(inbox)
    /\ \/ isOpen /\ Collect(Head(inbox))
       \/ ~isOpen /\ UNCHANGED <<collectorVars, uncaught>>
    /\ UNCHANGED <<isOpen, dispatcherVars, transmitterOpen, callVars, cause,
                   serverVars, connection, writeError>>

(***************************************************************************)
(* on("error") when the connection breaks or the server fails the stream:  *)
(* the responses still on their way are lost.                              *)
(***************************************************************************)
ErrorEvent ==
    /\ connection = "up"
    /\ connection' = "broken"
    /\ inbox' = <<>>
    /\ CloseStream("error")
    /\ UNCHANGED <<transmitterOpen, callVars, uncaught, serverVars, writeError>>

\* Mutant of WriteErrorEvent: the stream has no error handler.
WriteErrorIgnored ==
    /\ dropped # <<>> /\ ~writeError
    /\ writeError' = TRUE
    /\ UNCHANGED <<isOpen, collectorVars, dispatcherVars, cause,
                   transmitterOpen, callVars, uncaught, serverVars,
                   inbox, connection>>

(***************************************************************************)
(* on("error") after a write to the ended stream.                          *)
(***************************************************************************)
WriteErrorEvent ==
    /\ dropped # <<>> /\ ~writeError
    /\ writeError' = TRUE
    /\ CloseStream("error")
    /\ UNCHANGED <<transmitterOpen, callVars, uncaught, serverVars,
                   inbox, connection>>

(***************************************************************************)
(* on("done"), after the last response.                                    *)
(***************************************************************************)
DoneEvent ==
    /\ EmitsDone /\ connection = "ended" /\ inbox = <<>>
    /\ connection' = "finished"
    /\ CloseStream("closed")
    /\ UNCHANGED <<transmitterOpen, callVars, uncaught, serverVars,
                   inbox, writeError>>

-----------------------------------------------------------------------------
(* The server (external) *)

clientVars == <<isOpen, collectorVars, dispatcherVars, transmitterOpen,
                callVars, cause, uncaught, writeError>>

(***************************************************************************)
(* The server takes the next request; a request for more is honoured while *)
(* the stream call waits for one, and meaningless otherwise.               *)
(***************************************************************************)
ServerReceives ==
    /\ connection = "up" /\ received < Len(written)
    /\ received' = received + 1
    /\ LET m == written[received']
       IN  IF ~m.more \/ server[m.id] = "paused"
           THEN /\ server' = [server EXCEPT ![m.id] = "working"]
                /\ credit' = IF m.id \in Streams
                             THEN [credit EXCEPT ![m.id] = Portion]
                             ELSE credit
           ELSE UNCHANGED <<server, credit>>
    /\ UNCHANGED <<clientVars, produced, inbox, connection>>

ServerSends(r, reply) == /\ connection = "up" /\ server[r] = "working"
                         /\ inbox' = Append(inbox, [id |-> r, reply |-> reply])

ServerAnswers(r) ==
    /\ r \in Singles
    /\ ServerSends(r, Control("res"))
    /\ server' = [server EXCEPT ![r] = "done"]
    /\ UNCHANGED <<clientVars, received, produced, credit, connection>>

ServerStreams(s) ==
    /\ \/ /\ credit[s] > 0 /\ produced[s] < MaxParts
          /\ ServerSends(s, PartReply(produced[s] + 1))
          /\ produced' = [produced EXCEPT ![s] = @ + 1]
          /\ credit' = [credit EXCEPT ![s] = @ - 1]
          /\ UNCHANGED server
       \/ /\ credit[s] = 0
          /\ ServerSends(s, Control("continue"))
          /\ server' = [server EXCEPT ![s] = "paused"]
          /\ UNCHANGED <<produced, credit>>
       \/ /\ credit[s] > 0
          /\ ServerSends(s, Control("done"))
          /\ server' = [server EXCEPT ![s] = "done"]
          /\ UNCHANGED <<produced, credit>>
    /\ UNCHANGED <<clientVars, received, connection>>

(***************************************************************************)
(* The server ends the stream without an error.                            *)
(***************************************************************************)
ServerEnds ==
    /\ connection = "up"
    /\ connection' = "ended"
    /\ UNCHANGED <<clientVars, serverVars, inbox>>

-----------------------------------------------------------------------------

UserStep == \/ \E r \in Singles : Execute(r)
            \/ \E s \in Streams : OpenStream(s) \/ Pull(s) \/ Reiterate(s)
            \/ UserClose
            \/ TransmitterClose

ClientStep == \/ \E r \in Singles : ResumeSingle(r)
              \/ \E r \in Commits : CommitCloses(r)
              \/ \E s \in Streams : ResumeStream(s)
              \/ TimerFires
              \/ DataEvent
              \/ WriteErrorEvent
              \/ DoneEvent

ServerStep == \/ ServerReceives
              \/ \E r \in Singles : ServerAnswers(r)
              \/ \E s \in Streams : ServerStreams(s)

Next == UserStep \/ ClientStep \/ ServerStep \/ ErrorEvent \/ ServerEnds

(***************************************************************************)
(* The event loop runs every callback and continuation that is due, and    *)
(* the server goes on with what it has received as long as the connection  *)
(* is up.  Nothing obliges the user to do anything, the connection to      *)
(* break or the server to end.                                             *)
(***************************************************************************)
Fairness ==
    /\ \A r \in Singles : WF_vars(ResumeSingle(r)) /\ WF_vars(ServerAnswers(r))
    /\ \A r \in Commits : WF_vars(CommitCloses(r))
    /\ \A s \in Streams : WF_vars(ResumeStream(s)) /\ WF_vars(ServerStreams(s))
    /\ WF_vars(TimerFires) /\ WF_vars(DataEvent)
    /\ WF_vars(WriteErrorEvent) /\ WF_vars(DoneEvent)
    /\ WF_vars(ServerReceives)

Spec == Init /\ [][Next]_vars

FairSpec == Spec /\ Fairness

-----------------------------------------------------------------------------
(* Properties *)

IsClosing(e) == e.done

(***************************************************************************)
(* No response of a server that answers what it was asked ends in an       *)
(* UNKNOWN_REQUEST_ID exception in the "data" handler, whenever the        *)
(* transaction is closed (BidirectionalStream.collectRes, collectResPart). *)
(***************************************************************************)
NoUncaught == ~uncaught

(***************************************************************************)
(* Once the transaction is closed, whoever still waits for a response, or  *)
(* holds a Stream that has not ended, finds a closing element at the end   *)
(* of the queue: nobody waits for ever.  The one exception is a Stream     *)
(* iterated again after its end, whose queue has nothing left in it.       *)
(***************************************************************************)
NobodyStranded ==
    ~isOpen => \A r \in Call \ reiterated :
                  phase[r] \in {"ready", "waiting"} =>
                     /\ QueueOf(r) # <<>>
                     /\ IsClosing(QueueOf(r)[Len(QueueOf(r))])

(***************************************************************************)
(* However often close() runs (by the user, a commit, an error, a late     *)
(* write), a queue gets one closing element at most, nothing after it, and *)
(* it carries what the first close() was called with.                      *)
(***************************************************************************)
ClosedOnce ==
    \A r \in Call :
       \A i \in DOMAIN QueueOf(r) :
          IsClosing(QueueOf(r)[i]) =>
             i = Len(QueueOf(r)) /\ QueueOf(r)[i].error = cause

(***************************************************************************)
(* A call that fails reports what closed the transaction first: the error  *)
(* of the stream, or TRANSACTION_CLOSED when the user closed it.           *)
(***************************************************************************)
FirstCauseReported ==
    \A r \in Call : outcome[r] \in Cause => outcome[r] = cause

(***************************************************************************)
(* While the transaction is open every call that was made is registered in *)
(* a collector, so that close() finds it; afterwards no call is.           *)
(***************************************************************************)
Registered ==
    /\ isOpen <=> cause = "none"
    /\ isOpen => \A r \in Call : phase[r] # "idle" =>
                    r \in resCollectors \cup partCollectors
    /\ ~isOpen => resCollectors = {} /\ partCollectors = {}

(***************************************************************************)
(* The invariants about closing hold each other up: they are inductive     *)
(* together.                                                               *)
(***************************************************************************)
CloseInv ==
    /\ TypeOK
    /\ Registered
    /\ ClosedOnce
    /\ NobodyStranded
    /\ FirstCauseReported

(***************************************************************************)
(* A stream call gives its user the parts of the server in order and       *)
(* without gaps, and ends normally only when it has given all of them.     *)
(***************************************************************************)
PartsInOrder ==
    \A s \in Streams :
       /\ \A i \in DOMAIN delivered[s] : delivered[s][i] = i
       /\ Len(delivered[s]) <= produced[s]
       /\ outcome[s] = "answered" => /\ server[s] = "done"
                                     /\ Len(delivered[s]) = produced[s]

(***************************************************************************)
(* The requests for more of stream call s that the server has yet to see.  *)
(***************************************************************************)
MoreInFlight(s) ==
    LET asks(q, first) == {i \in first .. Len(q) : q[i] = StreamReq(s)}
    IN  Cardinality(asks(written, received + 1)) + Cardinality(asks(buffered, 1))

(***************************************************************************)
(* The client asks for another portion only when the server waits for it,  *)
(* and asks once (ResponsePartIterator.next with CONTINUE).                *)
(***************************************************************************)
MoreOnlyWhenPaused ==
    \A s \in Streams :
       MoreInFlight(s) <= IF server[s] = "paused" THEN 1 ELSE 0

(***************************************************************************)
(* A commit() is answered only after the server has taken every request    *)
(* made on the transaction before it, the batched ones included, and when  *)
(* it returns the transaction is closed.                                   *)
(***************************************************************************)
CommitIsLast ==
    \A r \in Commits :
       /\ outcome[r] = "answered" =>
             \E i \in 1 .. received :
                /\ written[i] = Req(r)
                /\ SubSeq(written, 1, i) = SubSeq(submitted, 1, i)
       /\ phase[r] = "settled" => ~isOpen /\ ended

(***************************************************************************)
(* The transaction implements TransactionCalls: answered, failed and       *)
(* refused mean to the user what they say.                                 *)
(***************************************************************************)
CallState(r) == CASE outcome[r] \in Cause -> "failed"
                  [] outcome[r] \in {"answered", "refused"} -> outcome[r]
                  [] outcome[r] = "none" ->
                       IF phase[r] = "idle" THEN "new" ELSE "pending"

Calls == INSTANCE TransactionCalls
           WITH open <- isOpen,
                state <- [r \in Call |-> CallState(r)],
                replied <- {r \in Call : server[r] = "done"}

ImplementsTransactionCalls == Calls!Spec

(***************************************************************************)
(* Every caller that waits gets a response or an error, provided that the  *)
(* stream says when the server has ended it.                               *)
(***************************************************************************)
EveryCallSettles ==
    \A r \in Call :
       (phase[r] = "waiting" /\ r \notin reiterated)
          ~> (phase[r] \in {"ready", "settled"})

(***************************************************************************)
(* After the last call the transaction leaves no timer behind, open or     *)
(* closed.                                                                 *)
(***************************************************************************)
TimerStops == <>[](timers = 0)
=============================================================================
