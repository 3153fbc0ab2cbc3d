------------------------ MODULE BatchDispatcherProofs ------------------------
(***************************************************************************)
(* Theorems about class BatchDispatcher (module BatchDispatcher): its      *)
(* safety invariants hold for any requests and any number of them.         *)
(***************************************************************************)
EXTENDS BatchDispatcher, SequenceTheorems, TLAPS

(***************************************************************************)
(* Moving the buffer to the end of what was written, or of what was        *)
(* dropped while the buffer follows it, keeps the order of the requests.   *)
(***************************************************************************)
LEMMA FlushKeepsOrder ==
  ASSUME NEW S, NEW w \in Seq(S), NEW d \in Seq(S), NEW b \in Seq(S)
  PROVE  /\ w \o ((d \o b) \o <<>>) = w \o (d \o b)
         /\ d = <<>> => (w \o b) \o (d \o <<>>) = w \o (d \o b)
<1>1. d \o b \in Seq(S)
  BY ConcatProperties
<1>2. (d \o b) \o <<>> = d \o b
  BY <1>1, ConcatEmptySeq
<1>3. ASSUME d = <<>>
      PROVE  (w \o b) \o (d \o <<>>) = w \o (d \o b)
  <2>1. w \o b \in Seq(S)
    BY ConcatProperties
  <2>2. d \o <<>> = <<>> /\ d \o b = b
    BY <1>3, ConcatEmptySeq
  <2>3. (w \o b) \o <<>> = w \o b
    BY <2>1, ConcatEmptySeq
  <2> QED BY <2>2, <2>3
<1> QED BY <1>2, <1>3

LEMMA AppendKeepsOrder ==
  ASSUME NEW S, NEW w \in Seq(S), NEW d \in Seq(S), NEW b \in Seq(S), NEW r \in S
  PROVE  w \o (d \o Append(b, r)) = Append(w \o (d \o b), r)
<1>1. /\ <<r>> \in Seq(S)
      /\ d \o b \in Seq(S)
      /\ w \o (d \o b) \in Seq(S)
  BY ConcatProperties
<1>2. Append(b, r) = b \o <<r>>
  BY AppendIsConcat
<1>3. d \o (b \o <<r>>) = (d \o b) \o <<r>>
  BY <1>1, ConcatAssociative
<1>4. w \o ((d \o b) \o <<r>>) = (w \o (d \o b)) \o <<r>>
  BY <1>1, ConcatAssociative
<1>5. Append(w \o (d \o b), r) = (w \o (d \o b)) \o <<r>>
  BY <1>1, AppendIsConcat
<1> QED BY <1>2, <1>3, <1>4, <1>5

LEMMA InitIInv == Init => IInv
<1> SUFFICES ASSUME Init PROVE IInv
  OBVIOUS
<1>1. <<>> \in Seq(Request)
  OBVIOUS
<1>2. <<>> \o <<>> = <<>>
  BY <1>1, ConcatEmptySeq
<1>3. Conservation
  BY <1>2, Zenon DEF Init, Conservation
<1>4. TypeOK
  BY <1>1 DEF Init, TypeOK
<1>5. OneTimer /\ NothingStranded
  BY DEF Init, OneTimer, NothingStranded
<1>6. NoEmptyWrite
  BY DEF Init, NoEmptyWrite
<1> QED BY <1>3, <1>4, <1>5, <1>6 DEF IInv

(***************************************************************************)
(* sendNow() with a non-empty buffer: what it changes keeps the requests   *)
(* in order and is no empty write.                                         *)
(***************************************************************************)
LEMMA SendNowSends ==
  ASSUME TypeOK, NoEmptyWrite, dropped # <<>> => ended,
         NEW b \in Seq(Request), b # <<>>, SendNow(b)
  PROVE  /\ buffered' = <<>>
         /\ written' \in Seq(Request) /\ dropped' \in Seq(Request)
         /\ written' \o (dropped' \o buffered') = written \o (dropped \o b)
         /\ dropped' # <<>> => ended
         /\ wroteEmpty' \in BOOLEAN /\ ~wroteEmpty'
<1>1. buffered' = <<>> /\ wroteEmpty' \in BOOLEAN /\ ~wroteEmpty'
  BY DEF SendNow, Write, NoEmptyWrite, TypeOK
<1>2. /\ written \in Seq(Request) /\ dropped \in Seq(Request)
  BY DEF TypeOK
<1>3. CASE ~ended /\ written' = written \o b /\ dropped' = dropped
  <2>1. dropped = <<>>
    BY <1>3
  <2>2. written' \in Seq(Request)
    BY <1>2, <1>3, ConcatProperties
  <2>3. written' \o (dropped' \o <<>>) = written \o (dropped \o b)
    BY <1>2, <1>3, <2>1, FlushKeepsOrder
  <2> QED BY <1>1, <1>2, <1>3, <2>1, <2>2, <2>3
<1>4. CASE ended /\ dropped' = dropped \o b /\ written' = written
  <2>1. dropped' \in Seq(Request)
    BY <1>2, <1>4, ConcatProperties
  <2>2. written' \o (dropped' \o <<>>) = written \o (dropped \o b)
    BY <1>2, <1>4, FlushKeepsOrder
  <2> QED BY <1>1, <1>2, <1>4, <2>1, <2>2
<1> QED BY <1>3, <1>4 DEF SendNow, Write

LEMMA DispatchIInv ==
  ASSUME IInv, NEW req \in Request, Dispatch(req)
  PROVE  IInv'
<1>1. /\ submitted' = Append(submitted, req)
      /\ buffered' = Append(buffered, req)
      /\ UNCHANGED <<ended, written, dropped, wroteEmpty>>
      /\ isRunning' = TRUE
      /\ timers' = 1
  <2>1. timers' = 1 /\ isRunning' = TRUE
    <3>1. CASE isRunning
      BY <3>1 DEF Dispatch, SendScheduledBatch, IInv, OneTimer, TypeOK
    <3>2. CASE ~isRunning
      BY <3>2 DEF Dispatch, SendScheduledBatch, IInv, OneTimer, TypeOK
    <3> QED BY <3>1, <3>2
  <2> QED BY <2>1 DEF Dispatch
<1>2. buffered' \in Seq(Request) /\ submitted' \in Seq(Request)
  BY <1>1, AppendProperties DEF IInv, TypeOK
<1>3. TypeOK'
  BY <1>1, <1>2 DEF IInv, TypeOK
<1>4. written \o (dropped \o Append(buffered, req)) = Append(submitted, req)
  <2>1. /\ written \in Seq(Request) /\ dropped \in Seq(Request)
        /\ buffered \in Seq(Request)
    BY DEF IInv, TypeOK
  <2>2. written \o (dropped \o Append(buffered, req))
          = Append(written \o (dropped \o buffered), req)
    BY <2>1, AppendKeepsOrder
  <2> QED BY <2>2 DEF IInv, Conservation
<1>5. Conservation'
  BY <1>1, <1>4 DEF IInv, Conservation
<1>6. OneTimer' /\ NothingStranded'
  BY <1>1 DEF OneTimer, NothingStranded
<1>7. NoEmptyWrite'
  BY <1>1 DEF IInv, NoEmptyWrite
<1> QED BY <1>3, <1>5, <1>6, <1>7 DEF IInv

LEMMA DispatchNowIInv ==
  ASSUME IInv, NEW req \in Request, DispatchNow(req)
  PROVE  IInv'
<1> DEFINE b == Append(buffered, req)
<1>1. /\ submitted' = Append(submitted, req)
      /\ SendNow(b)
      /\ UNCHANGED <<isRunning, timers, ended>>
  BY DEF DispatchNow
<1>2. b \in Seq(Request) /\ b # <<>> /\ submitted' \in Seq(Request)
  BY <1>1, AppendProperties DEF IInv, TypeOK
<1>3. written \o (dropped \o b) = Append(submitted, req)
  <2>1. /\ written \in Seq(Request) /\ dropped \in Seq(Request)
        /\ buffered \in Seq(Request)
    BY DEF IInv, TypeOK
  <2>2. written \o (dropped \o Append(buffered, req))
          = Append(written \o (dropped \o buffered), req)
    BY <2>1, AppendKeepsOrder
  <2> QED BY <2>2 DEF IInv, Conservation
<1> HIDE DEF b
<1>4. /\ buffered' = <<>>
      /\ written' \in Seq(Request) /\ dropped' \in Seq(Request)
      /\ written' \o (dropped' \o buffered') = written \o (dropped \o b)
      /\ dropped' # <<>> => ended
      /\ wroteEmpty' \in BOOLEAN /\ ~wroteEmpty'
  BY <1>1, <1>2, SendNowSends DEF IInv, Conservation
<1>5. TypeOK'
  BY <1>1, <1>2, <1>4 DEF IInv, TypeOK
<1>6. Conservation'
  BY <1>1, <1>3, <1>4 DEF Conservation
<1>7. OneTimer' /\ NothingStranded' /\ NoEmptyWrite'
  BY <1>1, <1>4 DEF IInv, OneTimer, NothingStranded, NoEmptyWrite
<1> QED BY <1>5, <1>6, <1>7 DEF IInv

LEMMA TimerFiresIInv ==
  ASSUME IInv, TimerFires
  PROVE  IInv'
<1>1. timers = 1 /\ isRunning = TRUE /\ UNCHANGED <<ended, submitted>>
  BY DEF TimerFires, IInv, TypeOK, OneTimer
<1>2. CASE buffered # <<>>
  <2>1. SendNow(buffered) /\ UNCHANGED <<isRunning, timers>>
    BY <1>2 DEF TimerFires
  <2>2. /\ buffered' = <<>>
        /\ written' \in Seq(Request) /\ dropped' \in Seq(Request)
        /\ written' \o (dropped' \o buffered') = written \o (dropped \o buffered)
        /\ dropped' # <<>> => ended
        /\ wroteEmpty' \in BOOLEAN /\ ~wroteEmpty'
    BY <1>2, <2>1, SendNowSends DEF IInv, TypeOK, Conservation
  <2>3. TypeOK'
    BY <1>1, <2>1, <2>2 DEF IInv, TypeOK
  <2>4. Conservation'
    BY <1>1, <2>2 DEF IInv, Conservation
  <2>5. OneTimer' /\ NothingStranded' /\ NoEmptyWrite'
    BY <2>1, <2>2 DEF IInv, OneTimer, NothingStranded, NoEmptyWrite
  <2> QED BY <2>3, <2>4, <2>5 DEF IInv
<1>3. CASE buffered = <<>>
  <2>1. /\ isRunning' = FALSE /\ timers' = 0
        /\ UNCHANGED <<buffered, written, dropped, wroteEmpty>>
    BY <1>1, <1>3 DEF TimerFires
  <2>2. TypeOK' /\ NoEmptyWrite'
    BY <1>1, <2>1 DEF IInv, TypeOK, NoEmptyWrite
  <2>3. Conservation'
    BY <1>1, <2>1 DEF IInv, Conservation
  <2>4. OneTimer' /\ NothingStranded'
    BY <1>3, <2>1 DEF OneTimer, NothingStranded
  <2> QED BY <2>2, <2>3, <2>4 DEF IInv
<1> QED BY <1>2, <1>3

LEMMA CloseIInv ==
  ASSUME IInv, Close
  PROVE  IInv'
BY DEF Close, IInv, TypeOK, Conservation, OneTimer, NothingStranded, NoEmptyWrite

(***************************************************************************)
(* The conjunction of the safety invariants is inductive.                  *)
(***************************************************************************)
THEOREM Invariance == Spec => []IInv
<1>1. IInv /\ [Next]_vars => IInv'
  <2> SUFFICES ASSUME IInv, [Next]_vars
               PROVE  IInv'
    OBVIOUS
  <2>1. ASSUME NEW req \in Request, Dispatch(req) \/ DispatchNow(req)
        PROVE  IInv'
    BY <2>1, DispatchIInv, DispatchNowIInv
  <2>2. CASE TimerFires
    BY <2>2, TimerFiresIInv
  <2>3. CASE Close
    BY <2>3, CloseIInv
  <2>4. CASE UNCHANGED vars
    BY <2>4 DEF vars, IInv, TypeOK, Conservation, OneTimer, NothingStranded,
                NoEmptyWrite
  <2> QED BY <2>1, <2>2, <2>3, <2>4 DEF Next
<1> QED BY InitIInv, <1>1, PTL DEF Spec

(***************************************************************************)
(* The requests of a transaction reach its stream in the order in which    *)
(* they were dispatched, and only those written after end() are lost.      *)
(***************************************************************************)
THEOREM RequestsInOrder == Spec => []Conservation
<1>1. IInv => Conservation
  BY DEF IInv
<1> QED BY Invariance, <1>1, PTL

(***************************************************************************)
(* No request stays in the buffer without a timer that will send it.       *)
(***************************************************************************)
THEOREM NoRequestStranded == Spec => []NothingStranded
<1>1. IInv => NothingStranded
  BY DEF IInv
<1> QED BY Invariance, <1>1, PTL
=============================================================================
