--------------------------- MODULE BatchDispatcher ---------------------------
(***************************************************************************)
(* class BatchDispatcher of stream/RequestTransmitter.ts: it collects the  *)
(* requests of one transaction and writes them to the transaction stream   *)
(* in batches.  dispatch() leaves the request to a timer, dispatchNow()    *)
(* writes the whole buffer at once, and the timer reschedules itself until *)
(* it fires on an empty buffer.  Requests, timer callbacks and close()     *)
(* come in any order: the class has no state that says it is closed, and   *)
(* close() stops neither the timer nor the buffer.                         *)
(*                                                                         *)
(* The transaction stream is a gRPC duplex stream, outside this            *)
(* repository: what is written after end() never leaves the client and     *)
(* raises an error event.  How long the timer waits (1 ms or 3 ms) makes   *)
(* no difference to the order of events and is left out.                   *)
(***************************************************************************)
EXTENDS Naturals, Sequences

CONSTANTS Request,      \* the requests a transaction sends
          MaxRequests   \* bound: calls of dispatch() and dispatchNow()

ASSUME MaxRequestsIsNat == MaxRequests \in Nat

VARIABLES buffered,   \* _bufferedRequests
          isRunning,  \* _isRunning
          timers,     \* number of pending setTimeout callbacks
          ended,      \* end() was called on the transaction stream
          written,    \* the requests the stream accepted, in order
          dropped,    \* the requests written after end()
          wroteEmpty, \* history: a message without a request was written
          submitted   \* history: the requests passed to the dispatcher

vars == <<buffered, isRunning, timers, ended, written, dropped, wroteEmpty,
          submitted>>

TypeOK == /\ buffered \in Seq(Request)
          /\ isRunning \in BOOLEAN
          /\ timers \in Nat
          /\ ended \in BOOLEAN
          /\ written \in Seq(Request)
          /\ dropped \in Seq(Request)
          /\ wroteEmpty \in BOOLEAN
          /\ submitted \in Seq(Request)

Init == /\ buffered = <<>>
        /\ isRunning = FALSE
        /\ timers = 0
        /\ ended = FALSE
        /\ written = <<>>
        /\ dropped = <<>>
        /\ wroteEmpty = FALSE
        /\ submitted = <<>>

-----------------------------------------------------------------------------

(***************************************************************************)
(* transactionStream.write(clientRequest), with the given requests.        *)
(***************************************************************************)
Write(batch) ==
    /\ wroteEmpty' = (wroteEmpty \/ batch = <<>>)
    /\ \/ ~ended /\ written' = written \o batch /\ UNCHANGED dropped
       \/ ended /\ dropped' = dropped \o batch /\ UNCHANGED written

(***************************************************************************)
(* sendNow(), with what the buffer holds when it is called.                *)
(***************************************************************************)
SendNow(requests) ==
    /\ Write(requests)
    /\ buffered' = <<>>

SendScheduledBatch ==
    \/ isRunning /\ UNCHANGED <<isRunning, timers>>
    \/ ~isRunning /\ isRunning' = TRUE /\ timers' = timers + 1

\* Mutant of Dispatch: no timer is set once the stream has ended.
DispatchNoTimerAfterEnd(req) ==
    /\ submitted' = Append(submitted, req)
    /\ buffered' = Append(buffered, req)
    /\ IF ended THEN UNCHANGED <<isRunning, timers>> ELSE SendScheduledBatch
    /\ UNCHANGED <<ended, written, dropped, wroteEmpty>>

Dispatch(req) ==
    /\ submitted' = Append(submitted, req)
    /\ buffered' = Append(buffered, req)
    /\ SendScheduledBatch
    /\ UNCHANGED <<ended, written, dropped, wroteEmpty>>

\* Mutant of DispatchNow: the request overtakes the buffered ones.
DispatchNowOvertakes(req) ==
    /\ submitted' = Append(submitted, req)
    /\ Write(<<req>>)
    /\ UNCHANGED <<buffered, isRunning, timers, ended>>

DispatchNow(req) ==
    /\ submitted' = Append(submitted, req)
    /\ SendNow(Append(buffered, req))
    /\ UNCHANGED <<isRunning, timers, ended>>

\* Mutant of TimerFires: it writes and reschedules whatever the buffer holds.
TimerFiresAlwaysWrites ==
    /\ timers > 0
    /\ SendNow(buffered)
    /\ UNCHANGED <<isRunning, timers, ended, submitted>>

\* Mutant of TimerFires: the flag is left set when the timer stops.
TimerFiresStaysRunning ==
    /\ timers > 0
    /\ \/ /\ buffered # <<>>
          /\ SendNow(buffered)
          /\ UNCHANGED timers
       \/ /\ buffered = <<>>
          /\ timers' = timers - 1
          /\ UNCHANGED <<buffered, written, dropped, wroteEmpty>>
    /\ UNCHANGED <<isRunning, ended, submitted>>

(***************************************************************************)
(* The callback of setSchedule(): it writes the buffer and sets the next   *)
(* timer, or stops.                                                        *)
(***************************************************************************)
TimerFires ==
    /\ timers > 0
    /\ \/ /\ buffered # <<>>
          /\ SendNow(buffered)
          /\ UNCHANGED <<isRunning, timers>>
       \/ /\ buffered = <<>>
          /\ isRunning' = FALSE
          /\ timers' = timers - 1
          /\ UNCHANGED <<buffered, written, dropped, wroteEmpty>>
    /\ UNCHANGED <<ended, submitted>>

Close ==
    /\ ended' = TRUE
    /\ UNCHANGED <<buffered, isRunning, timers, written, dropped, wroteEmpty,
                   submitted>>

Next == \/ \E req \in Request :
              /\ Len(submitted) < MaxRequests
              /\ Dispatch(req) \/ DispatchNow(req)
        \/ TimerFires
        \/ Close

(***************************************************************************)
(* The event loop runs every timer that is due.                            *)
(***************************************************************************)
Spec == Init /\ [][Next]_vars /\ WF_vars(TimerFires)

-----------------------------------------------------------------------------

(***************************************************************************)
(* Whatever mixture of dispatch(), dispatchNow() and timer callbacks sends *)
(* them, the requests reach the stream in the order in which they were     *)
(* made, none of them twice; one is lost only after the stream was ended.  *)
(***************************************************************************)
Conservation == /\ written \o (dropped \o buffered) = submitted
                /\ dropped # <<>> => ended

(***************************************************************************)
(* There is one timer while _isRunning is set and none when it is not: the *)
(* flag is what keeps the timers from multiplying and from dying out.      *)
(***************************************************************************)
OneTimer == timers = IF isRunning THEN 1 ELSE 0

(***************************************************************************)
(* A request in the buffer has a timer that will send it, even after       *)
(* close().                                                                *)
(***************************************************************************)
NothingStranded == buffered # <<>> => timers > 0

(***************************************************************************)
(* Every message written to the stream carries at least one request: the   *)
(* timer that fires on an empty buffer writes nothing.                     *)
(***************************************************************************)
NoEmptyWrite == ~wroteEmpty

IInv == TypeOK /\ Conservation /\ OneTimer /\ NothingStranded /\ NoEmptyWrite

(***************************************************************************)
(* Every request passed to dispatch() or dispatchNow() leaves the buffer.  *)
(***************************************************************************)
EverythingWritten ==
    \A n \in 1 .. MaxRequests :
        (Len(submitted) >= n) ~> (Len(written) + Len(dropped) >= n)
=============================================================================
