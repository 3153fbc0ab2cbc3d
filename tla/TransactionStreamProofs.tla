----------------------- MODULE TransactionStreamProofs -----------------------
(***************************************************************************)
(* Theorems about one transaction (module TransactionStream), for any      *)
(* calls, any number of parts and any portion: types, and how a close      *)
(* reaches the calls that wait; then what the requests and the replies of  *)
(* the calls mean, from the user to the server and back.  The server has   *)
(* replied to a call that is answered, has taken everything before a       *)
(* commit that is answered, and no reply is without an addressee; the      *)
(* transaction keeps the promises of TransactionCalls; the parts of a      *)
(* stream call reach its user in order and complete; and the server is     *)
(* asked for more only while it waits to be asked.                         *)
(***************************************************************************)
EXTENDS TransactionStream, SequenceTheorems, FiniteSetTheorems, TLAPS

-----------------------------------------------------------------------------
(* Types: the components *)

LEMMA DispatcherTypes ==
  ASSUME Dispatcher!TypeOK
  PROVE  /\ \A q \in Request : Dispatcher!Dispatch(q) => Dispatcher!TypeOK'
         /\ \A q \in Request : Dispatcher!DispatchNow(q) => Dispatcher!TypeOK'
         /\ Dispatcher!TimerFires => Dispatcher!TypeOK'
         /\ Dispatcher!Close => Dispatcher!TypeOK'
         /\ UNCHANGED dispatcherVars => Dispatcher!TypeOK'
<1> USE DEF Dispatcher!TypeOK
<1>1. ASSUME NEW b \in Seq(Request), Dispatcher!Write(b)
      PROVE  wroteEmpty' \in BOOLEAN /\ written' \in Seq(Request)
               /\ dropped' \in Seq(Request)
  BY <1>1, ConcatProperties DEF Dispatcher!Write
<1>2. ASSUME NEW q \in Request, Dispatcher!Dispatch(q)
      PROVE  Dispatcher!TypeOK'
  <2>1. Append(buffered, q) \in Seq(Request) /\ Append(submitted, q) \in Seq(Request)
    BY AppendProperties
  <2>2. isRunning' \in BOOLEAN
    BY <1>2, Zenon DEF Dispatcher!Dispatch, Dispatcher!SendScheduledBatch
  <2>3. timers' \in Nat
    BY <1>2 DEF Dispatcher!Dispatch, Dispatcher!SendScheduledBatch
  <2> QED BY <1>2, <2>1, <2>2, <2>3 DEF Dispatcher!Dispatch
<1>3. ASSUME NEW q \in Request, Dispatcher!DispatchNow(q)
      PROVE  Dispatcher!TypeOK'
  <2>1. Append(buffered, q) \in Seq(Request) /\ Append(submitted, q) \in Seq(Request)
    BY AppendProperties
  <2>2. <<>> \in Seq(Request)
    OBVIOUS
  <2> QED BY <1>1, <1>3, <2>1, <2>2 DEF Dispatcher!DispatchNow, Dispatcher!SendNow
<1>4. ASSUME Dispatcher!TimerFires
      PROVE  Dispatcher!TypeOK'
  <2>1. <<>> \in Seq(Request)
    OBVIOUS
  <2>2. isRunning' \in BOOLEAN
    BY <1>4, Zenon DEF Dispatcher!TimerFires
  <2>3. timers' \in Nat
    BY <1>4 DEF Dispatcher!TimerFires
  <2>4. CASE Dispatcher!SendNow(buffered) /\ UNCHANGED <<ended, submitted>>
    BY <1>1, <2>1, <2>2, <2>3, <2>4 DEF Dispatcher!SendNow
  <2>5. CASE UNCHANGED <<buffered, written, dropped, wroteEmpty, ended, submitted>>
    BY <2>2, <2>3, <2>5
  <2> QED BY <1>4, <2>4, <2>5 DEF Dispatcher!TimerFires
<1>5. ASSUME Dispatcher!Close
      PROVE  Dispatcher!TypeOK'
  BY <1>5 DEF Dispatcher!Close
<1>6. ASSUME UNCHANGED dispatcherVars
      PROVE  Dispatcher!TypeOK'
  BY <1>6 DEF dispatcherVars
<1> QED BY <1>2, <1>3, <1>4, <1>5, <1>6

LEMMA ResTypes ==
  ASSUME Res!TypeOK
  PROVE  /\ \A r \in Singles : Res!Queue(r) => Res!TypeOK'
         /\ \A r \in Singles : \A v \in ResReplies : Res!Put(r, v) => Res!TypeOK'
         /\ \A r \in Singles : Res!Take(r) => Res!TypeOK'
         /\ \A error \in Cause : Res!Close(error) => Res!TypeOK'
         /\ UNCHANGED <<resCollectors, resQueues>> => Res!TypeOK'
<1> USE DEF Res!TypeOK
<1>1. ASSUME NEW r \in Singles, Res!Queue(r)
      PROVE  Res!TypeOK'
  BY <1>1 DEF Res!Queue
<1>2. ASSUME NEW r \in Singles, NEW v \in ResReplies, Res!Put(r, v)
      PROVE  Res!TypeOK'
  <2>1. Res!Response(v) \in Res!Element
    BY DEF Res!Response, Res!Element
  <2>2. Append(resQueues[r], Res!Response(v)) \in Seq(Res!Element)
    BY <2>1, AppendProperties
  <2> QED BY <1>2, <2>2 DEF Res!Put
<1>3. ASSUME NEW r \in Singles, Res!Take(r)
      PROVE  Res!TypeOK'
  <2>1. Tail(resQueues[r]) \in Seq(Res!Element)
    BY <1>3, HeadTailProperties DEF Res!Take
  <2> QED BY <1>3, <2>1 DEF Res!Take
<1>4. ASSUME NEW error \in Cause, Res!Close(error)
      PROVE  Res!TypeOK'
  <2>1. Res!Done(error) \in Res!Element
    BY DEF Res!Done, Res!Element
  <2>2. \A r \in Singles : Append(resQueues[r], Res!Done(error)) \in Seq(Res!Element)
    BY <2>1, AppendProperties
  <2> QED BY <1>4, <2>2 DEF Res!Close
<1>5. ASSUME UNCHANGED <<resCollectors, resQueues>>
      PROVE  Res!TypeOK'
  BY <1>5
<1> QED BY <1>1, <1>2, <1>3, <1>4, <1>5

LEMMA PartTypes ==
  ASSUME Part!TypeOK
  PROVE  /\ \A s \in Streams : Part!Queue(s) => Part!TypeOK'
         /\ \A s \in Streams : \A v \in PartReplies : Part!Put(s, v) => Part!TypeOK'
         /\ \A s \in Streams : Part!Take(s) => Part!TypeOK'
         /\ \A error \in Cause : Part!Close(error) => Part!TypeOK'
         /\ UNCHANGED <<partCollectors, partQueues>> => Part!TypeOK'
<1> USE DEF Part!TypeOK
<1>1. ASSUME NEW s \in Streams, Part!Queue(s)
      PROVE  Part!TypeOK'
  BY <1>1 DEF Part!Queue
<1>2. ASSUME NEW s \in Streams, NEW v \in PartReplies, Part!Put(s, v)
      PROVE  Part!TypeOK'
  <2>1. Part!Response(v) \in Part!Element
    BY DEF Part!Response, Part!Element
  <2>2. Append(partQueues[s], Part!Response(v)) \in Seq(Part!Element)
    BY <2>1, AppendProperties
  <2> QED BY <1>2, <2>2 DEF Part!Put
<1>3. ASSUME NEW s \in Streams, Part!Take(s)
      PROVE  Part!TypeOK'
  <2>1. Tail(partQueues[s]) \in Seq(Part!Element)
    BY <1>3, HeadTailProperties DEF Part!Take
  <2> QED BY <1>3, <2>1 DEF Part!Take
<1>4. ASSUME NEW error \in Cause, Part!Close(error)
      PROVE  Part!TypeOK'
  <2>1. Part!Done(error) \in Part!Element
    BY DEF Part!Done, Part!Element
  <2>2. \A s \in Streams : Append(partQueues[s], Part!Done(error)) \in Seq(Part!Element)
    BY <2>1, AppendProperties
  <2> QED BY <1>4, <2>2 DEF Part!Close
<1>5. ASSUME UNCHANGED <<partCollectors, partQueues>>
      PROVE  Part!TypeOK'
  BY <1>5
<1> QED BY <1>1, <1>2, <1>3, <1>4, <1>5

-----------------------------------------------------------------------------
(* Types: the transaction *)

ControlTypes ==
    /\ isOpen \in BOOLEAN
    /\ transmitterOpen \in BOOLEAN
    /\ cause \in {"none"} \cup Cause
    /\ uncaught \in BOOLEAN
    /\ connection \in {"up", "ended", "finished", "broken"}
    /\ writeError \in BOOLEAN

CallTypes ==
    /\ phase \in [Call -> {"idle", "ready", "waiting", "settling", "settled"}]
    /\ outcome \in [Call -> {"none", "answered", "refused"} \cup Cause]
    /\ delivered \in [Streams -> Seq(1 .. MaxParts)]
    /\ reiterated \in SUBSET Streams

Message == [id : Call, reply : ResReplies \cup PartReplies]

ServerTypes ==
    /\ received \in Nat
    /\ server \in [Call -> {"none", "working", "paused", "done"}]
    /\ produced \in [Streams -> 0 .. MaxParts]
    /\ credit \in [Streams -> 0 .. Portion]
    /\ inbox \in Seq(Message)

LEMMA TypeParts ==
  TypeOK <=> /\ Res!TypeOK /\ Part!TypeOK /\ Dispatcher!TypeOK
             /\ ControlTypes /\ CallTypes /\ ServerTypes
BY Zenon DEF TypeOK, ControlTypes, CallTypes, ServerTypes, Message

LEMMA TypePartsNext ==
  ASSUME Res!TypeOK', Part!TypeOK', Dispatcher!TypeOK',
         ControlTypes', CallTypes', ServerTypes'
  PROVE  TypeOK'
BY Zenon DEF TypeOK, ControlTypes, CallTypes, ServerTypes, Message

LEMMA CloseStreamTypes ==
  ASSUME TypeOK, NEW error \in Cause, CloseStream(error)
  PROVE  /\ Res!TypeOK' /\ Part!TypeOK' /\ Dispatcher!TypeOK'
         /\ isOpen' \in BOOLEAN /\ cause' \in {"none"} \cup Cause
<1>1. Res!TypeOK' /\ Part!TypeOK' /\ Dispatcher!TypeOK'
  BY TypeParts, ResTypes, PartTypes, DispatcherTypes DEF CloseStream
<1>2. isOpen' \in BOOLEAN
  BY Zenon DEF CloseStream
<1>3. cause' \in {"none"} \cup Cause
  BY TypeParts DEF CloseStream, ControlTypes
<1> QED BY <1>1, <1>2, <1>3

LEMMA RepliesAreTyped ==
  /\ Control("res") \in ResReplies
  /\ Control("continue") \in PartReplies /\ Control("done") \in PartReplies
  /\ \A n \in 1 .. MaxParts : PartReply(n) \in PartReplies
  /\ \A v \in ResReplies : v.kind = "res"
  /\ \A v \in PartReplies : v.kind # "res"
  /\ \A v \in PartReplies : v.kind = "part" => v.number \in 1 .. MaxParts
<1> USE DEF ResReplies, PartReplies, Control, PartReply
<1>1. Control("res") \in ResReplies
  OBVIOUS
<1>2. Control("continue") \in PartReplies /\ Control("done") \in PartReplies
  OBVIOUS
<1>3. \A n \in 1 .. MaxParts : PartReply(n) \in PartReplies
  OBVIOUS
<1>4. \A v \in ResReplies : v.kind = "res"
  OBVIOUS
<1>5. ASSUME NEW v \in PartReplies
      PROVE  /\ v.kind # "res"
             /\ v.kind = "part" => v.number \in 1 .. MaxParts
  <2>1. CASE v \in {Control("continue"), Control("done")}
    BY <2>1
  <2>2. CASE \E n \in 1 .. MaxParts : v = PartReply(n)
    BY <2>2
  <2> QED BY <1>5, <2>1, <2>2
<1> QED BY <1>1, <1>2, <1>3, <1>4, <1>5

LEMMA RequestsAreTyped ==
  \A r \in Call : Req(r) \in Request /\ StreamReq(r) \in Request
BY DEF Req, StreamReq, Request

LEMMA InitTypes == Init => TypeOK
<1> SUFFICES ASSUME Init PROVE TypeOK
  OBVIOUS
<1>1. Res!TypeOK
  BY DEF Init, Res!Init, Res!TypeOK
<1>2. Part!TypeOK
  BY DEF Init, Part!Init, Part!TypeOK
<1>3. Dispatcher!TypeOK
  <2>1. <<>> \in Seq(Request) /\ 0 \in Nat
    OBVIOUS
  <2> QED BY <2>1, Zenon DEF Init, Dispatcher!Init, Dispatcher!TypeOK
<1>4. ControlTypes
  BY Zenon DEF Init, ControlTypes
<1>5. CallTypes
  BY DEF Init, CallTypes
<1>6. ServerTypes
  BY PortionIsPositive DEF Init, ServerTypes
<1> QED BY <1>1, <1>2, <1>3, <1>4, <1>5, <1>6, TypeParts

LEMMA UserTypes == TypeOK /\ UserStep => TypeOK'
<1> SUFFICES ASSUME TypeOK, UserStep PROVE TypeOK'
  OBVIOUS
<1> USE TypeParts
<1>1. ASSUME NEW r \in Singles, Execute(r)
      PROVE  TypeOK'
  <2>0. r \in Call
    BY DEF Call
  <2>1. Res!TypeOK'
    BY <1>1, ResTypes DEF Execute
  <2>2. Part!TypeOK'
    BY <1>1, PartTypes DEF Execute
  <2>3. Dispatcher!TypeOK'
    BY <1>1, <2>0, DispatcherTypes, RequestsAreTyped DEF Execute
  <2>4. ControlTypes' /\ ServerTypes'
    BY <1>1 DEF Execute, ControlTypes, ServerTypes, serverVars, networkVars
  <2>5. CallTypes'
    BY <1>1 DEF Execute, CallTypes
  <2> QED BY <2>1, <2>2, <2>3, <2>4, <2>5, TypePartsNext, Zenon
<1>2. ASSUME NEW s \in Streams, OpenStream(s)
      PROVE  TypeOK'
  <2>0. s \in Call
    BY DEF Call
  <2>1. Res!TypeOK'
    BY <1>2, ResTypes DEF OpenStream
  <2>2. Part!TypeOK'
    BY <1>2, PartTypes DEF OpenStream
  <2>3. Dispatcher!TypeOK'
    BY <1>2, <2>0, DispatcherTypes, RequestsAreTyped DEF OpenStream
  <2>4. ControlTypes' /\ ServerTypes'
    BY <1>2 DEF OpenStream, ControlTypes, ServerTypes, serverVars, networkVars
  <2>5. CallTypes'
    BY <1>2 DEF OpenStream, CallTypes
  <2> QED BY <2>1, <2>2, <2>3, <2>4, <2>5, TypePartsNext, Zenon
<1>3. ASSUME NEW s \in Streams, Pull(s) \/ Reiterate(s)
      PROVE  TypeOK'
  <2>1. Res!TypeOK' /\ Part!TypeOK' /\ Dispatcher!TypeOK'
    BY <1>3, ResTypes, PartTypes, DispatcherTypes DEF Pull, Reiterate, collectorVars
  <2>2. ControlTypes' /\ ServerTypes'
    BY <1>3 DEF Pull, Reiterate, ControlTypes, ServerTypes, serverVars, networkVars
  <2>3. CallTypes'
    BY <1>3 DEF Pull, Reiterate, CallTypes
  <2> QED BY <2>1, <2>2, <2>3, TypePartsNext, Zenon
<1>4. ASSUME UserClose
      PROVE  TypeOK'
  <2>1. /\ Res!TypeOK' /\ Part!TypeOK' /\ Dispatcher!TypeOK'
        /\ isOpen' \in BOOLEAN /\ cause' \in {"none"} \cup Cause
    BY <1>4, CloseStreamTypes DEF UserClose, Cause
  <2>2. ControlTypes' /\ CallTypes' /\ ServerTypes'
    BY <1>4, <2>1 DEF UserClose, ControlTypes, CallTypes, ServerTypes, callVars,
                      serverVars, networkVars
  <2> QED BY <2>1, <2>2, TypePartsNext, Zenon
<1>5. ASSUME TransmitterClose
      PROVE  TypeOK'
  <2>1. Res!TypeOK' /\ Part!TypeOK' /\ Dispatcher!TypeOK'
    BY <1>5, ResTypes, PartTypes, DispatcherTypes DEF TransmitterClose, collectorVars
  <2>2. transmitterOpen' \in BOOLEAN
    BY <1>5, Zenon DEF TransmitterClose
  <2>3. ControlTypes' /\ CallTypes' /\ ServerTypes'
    BY <1>5, <2>2 DEF TransmitterClose, ControlTypes, CallTypes, ServerTypes,
                      callVars, serverVars, networkVars
  <2> QED BY <2>1, <2>3, TypePartsNext, Zenon
<1> QED BY <1>1, <1>2, <1>3, <1>4, <1>5, Zenon DEF UserStep

LEMMA ElementsAreTyped ==
  /\ \A e \in Res!Element : e.done => e.error \in Cause
  /\ \A e \in Part!Element : e.done => e.error \in Cause
  /\ \A e \in Part!Element : ~e.done => e.value \in PartReplies
BY DEF Res!Element, Part!Element

LEMMA ClientTypes == TypeOK /\ ClientStep => TypeOK'
<1> SUFFICES ASSUME TypeOK, ClientStep PROVE TypeOK'
  OBVIOUS
<1> USE TypeParts
<1>1. ASSUME NEW r \in Singles, ResumeSingle(r)
      PROVE  TypeOK'
  <2> DEFINE e == Head(resQueues[r])
             how == IF e.done THEN e.error ELSE "answered"
  <2>1. Res!TypeOK' /\ Part!TypeOK' /\ Dispatcher!TypeOK'
    BY <1>1, ResTypes, PartTypes, DispatcherTypes DEF ResumeSingle
  <2>2. e \in Res!Element
    BY <1>1, HeadTailProperties DEF ResumeSingle, Res!Take, Res!TypeOK
  <2>3. how \in {"answered"} \cup Cause
    BY <2>2, ElementsAreTyped
  <2>4. ControlTypes' /\ ServerTypes'
    BY <1>1 DEF ResumeSingle, ControlTypes, ServerTypes, serverVars, networkVars
  <2>5. Settle(r, how) /\ UNCHANGED <<delivered, reiterated>>
    BY <1>1 DEF ResumeSingle
  <2>6. outcome' \in [Call -> {"none", "answered", "refused"} \cup Cause]
    <3> HIDE DEF how
    <3> QED BY <2>3, <2>5 DEF Settle, CallTypes
  <2>7. CallTypes'
    BY <1>1, <2>5, <2>6 DEF ResumeSingle, CallTypes
  <2> QED BY <2>1, <2>4, <2>7, TypePartsNext, Zenon
<1>2. ASSUME NEW r \in Commits, CommitCloses(r)
      PROVE  TypeOK'
  <2>1. /\ Res!TypeOK' /\ Part!TypeOK' /\ Dispatcher!TypeOK'
        /\ isOpen' \in BOOLEAN /\ cause' \in {"none"} \cup Cause
    BY <1>2, CloseStreamTypes DEF CommitCloses, Cause
  <2>2. ControlTypes' /\ ServerTypes'
    BY <1>2, <2>1 DEF CommitCloses, ControlTypes, ServerTypes, serverVars, networkVars
  <2>3. CallTypes'
    BY <1>2 DEF CommitCloses, CallTypes
  <2> QED BY <2>1, <2>2, <2>3, TypePartsNext, Zenon
<1>3. ASSUME NEW s \in Streams, ResumeStream(s)
      PROVE  TypeOK'
  <2> DEFINE e == Head(partQueues[s])
             how == IF e.done THEN e.error ELSE "answered"
  <2>0. s \in Call
    BY DEF Call
  <2>1. Advance(s, e) /\ Part!Take(s)
    BY <1>3 DEF ResumeStream
  <2>2. e \in Part!Element
    BY <2>1, HeadTailProperties DEF Part!Take, Part!TypeOK
  <2>3. /\ how \in {"answered"} \cup Cause
        /\ KindOf(e) = "part" => e.value.number \in 1 .. MaxParts
    <3>1. how \in {"answered"} \cup Cause
      <4>1. e.done => e.error \in Cause
        BY <2>2, ElementsAreTyped, Zenon
      <4> QED BY <4>1
    <3>2. ASSUME KindOf(e) = "part"
          PROVE  e.value.number \in 1 .. MaxParts
      <4>1. ~e.done /\ e.value.kind = "part"
        BY <3>2 DEF KindOf
      <4> QED BY <2>2, <4>1, ElementsAreTyped, RepliesAreTyped
    <3> QED BY <3>1, <3>2
  <2>4. Res!TypeOK' /\ Part!TypeOK'
    BY <1>3, ResTypes, PartTypes DEF ResumeStream
  <2>5. ControlTypes' /\ ServerTypes' /\ reiterated' = reiterated
    BY <1>3 DEF ResumeStream, ControlTypes, ServerTypes, serverVars, networkVars
  <2> HIDE DEF e, how
  <2>6. CASE /\ KindOf(e) = "part"
             /\ delivered' = [delivered EXCEPT ![s] = Append(@, e.value.number)]
             /\ phase' = [phase EXCEPT ![s] = "ready"]
             /\ UNCHANGED <<outcome, dispatcherVars>>
    <3>1. Append(delivered[s], e.value.number) \in Seq(1 .. MaxParts)
      BY <2>3, <2>6, AppendProperties DEF CallTypes
    <3>2. CallTypes'
      BY <2>5, <2>6, <3>1 DEF CallTypes
    <3>3. Dispatcher!TypeOK'
      BY <2>6, DispatcherTypes
    <3> QED BY <2>4, <2>5, <3>2, <3>3, TypePartsNext, Zenon
  <2>7. CASE /\ Dispatcher!Dispatch(StreamReq(s))
             /\ UNCHANGED <<phase, outcome, delivered>>
    <3>1. CallTypes'
      BY <2>5, <2>7 DEF CallTypes
    <3>2. Dispatcher!TypeOK'
      BY <2>0, <2>7, DispatcherTypes, RequestsAreTyped
    <3> QED BY <2>4, <2>5, <3>1, <3>2, TypePartsNext, Zenon
  <2>8. CASE /\ Settle(s, how)
             /\ phase' = [phase EXCEPT ![s] = "settled"]
             /\ UNCHANGED <<delivered, dispatcherVars>>
    <3>1. outcome' \in [Call -> {"none", "answered", "refused"} \cup Cause]
      BY <2>3, <2>8 DEF Settle, CallTypes
    <3>2. CallTypes'
      BY <2>5, <2>8, <3>1 DEF CallTypes
    <3>3. Dispatcher!TypeOK'
      BY <2>8, DispatcherTypes
    <3> QED BY <2>4, <2>5, <3>2, <3>3, TypePartsNext, Zenon
  <2> QED BY <2>1, <2>6, <2>7, <2>8, Zenon DEF Advance, how
<1>4. ASSUME TimerFires
      PROVE  TypeOK'
  <2>1. Res!TypeOK' /\ Part!TypeOK' /\ Dispatcher!TypeOK'
    BY <1>4, ResTypes, PartTypes, DispatcherTypes DEF TimerFires, collectorVars
  <2>2. ControlTypes' /\ CallTypes' /\ ServerTypes'
    BY <1>4 DEF TimerFires, ControlTypes, CallTypes, ServerTypes, callVars,
                serverVars, networkVars
  <2> QED BY <2>1, <2>2, TypePartsNext, Zenon
<1>5. ASSUME DataEvent
      PROVE  TypeOK'
  <2> DEFINE m == Head(inbox)
  <2>1. m \in Message /\ Tail(inbox) \in Seq(Message)
    BY <1>5, HeadTailProperties DEF DataEvent, ServerTypes
  <2>2. \/ Collect(m)
        \/ UNCHANGED <<collectorVars, uncaught>>
    BY <1>5 DEF DataEvent
  <2> HIDE DEF m
  <2>3. Res!TypeOK'
    BY <2>1, <2>2, ResTypes, RepliesAreTyped, Zenon
       DEF Collect, collectorVars, Message, Res!TypeOK
  <2>4. Part!TypeOK'
    BY <2>1, <2>2, PartTypes, RepliesAreTyped, Zenon
       DEF Collect, collectorVars, Message, Part!TypeOK
  <2>5. Dispatcher!TypeOK'
    BY <1>5, DispatcherTypes DEF DataEvent
  <2>6. uncaught' \in BOOLEAN
    BY <2>2, Zenon DEF Collect, ControlTypes
  <2>7. ControlTypes' /\ CallTypes'
    BY <1>5, <2>6 DEF DataEvent, ControlTypes, CallTypes, callVars
  <2>8. ServerTypes'
    BY <1>5, <2>1 DEF DataEvent, ServerTypes, serverVars, m
  <2> QED BY <2>3, <2>4, <2>5, <2>7, <2>8, TypePartsNext, Zenon
<1>6. ASSUME WriteErrorEvent \/ DoneEvent
      PROVE  TypeOK'
  <2>1. \E error \in Cause : CloseStream(error)
    BY <1>6 DEF WriteErrorEvent, DoneEvent, Cause
  <2>2. /\ Res!TypeOK' /\ Part!TypeOK' /\ Dispatcher!TypeOK'
        /\ isOpen' \in BOOLEAN /\ cause' \in {"none"} \cup Cause
    BY <2>1, CloseStreamTypes
  <2>3. writeError' \in BOOLEAN
    BY <1>6, Zenon DEF WriteErrorEvent, DoneEvent, ControlTypes
  <2>4. ControlTypes' /\ CallTypes' /\ ServerTypes'
    BY <1>6, <2>2, <2>3 DEF WriteErrorEvent, DoneEvent, ControlTypes, CallTypes,
                            ServerTypes, callVars, serverVars
  <2> QED BY <2>2, <2>4, TypePartsNext, Zenon
<1> QED BY <1>1, <1>2, <1>3, <1>4, <1>5, <1>6, Zenon DEF ClientStep

LEMMA OutsideTypes ==
  TypeOK /\ (ServerStep \/ ErrorEvent \/ ServerEnds) => TypeOK'
<1> SUFFICES ASSUME TypeOK, ServerStep \/ ErrorEvent \/ ServerEnds PROVE TypeOK'
  OBVIOUS
<1> USE TypeParts
<1>1. ASSUME UNCHANGED clientVars
      PROVE  /\ Res!TypeOK' /\ Part!TypeOK' /\ Dispatcher!TypeOK' /\ CallTypes'
             /\ connection' = connection => ControlTypes'
  <2>1. Res!TypeOK' /\ Part!TypeOK' /\ Dispatcher!TypeOK'
    BY <1>1, ResTypes, PartTypes, DispatcherTypes DEF clientVars, collectorVars
  <2>2. CallTypes'
    BY <1>1 DEF clientVars, callVars, CallTypes
  <2>3. connection' = connection => ControlTypes'
    BY <1>1 DEF clientVars, ControlTypes
  <2> QED BY <2>1, <2>2, <2>3
<1>2. ASSUME NEW r \in Call, NEW reply \in ResReplies \cup PartReplies,
             ServerSends(r, reply)
      PROVE  inbox' \in Seq(Message) /\ connection = "up"
  <2>1. [id |-> r, reply |-> reply] \in Message
    BY DEF Message
  <2> QED BY <1>2, <2>1, AppendProperties DEF ServerSends, ServerTypes
<1>3. ASSUME ServerReceives
      PROVE  TypeOK'
  <2> DEFINE m == written[received']
  <2>1. received' \in Nat /\ m \in Request
    BY <1>3 DEF ServerReceives, ServerTypes, Dispatcher!TypeOK
  <2>2. m.id \in Call
    BY <2>1 DEF Request
  <2> HIDE DEF m
  <2>3. server' \in [Call -> {"none", "working", "paused", "done"}]
    BY <1>3, <2>2 DEF ServerReceives, ServerTypes, m
  <2>4. credit' \in [Streams -> 0 .. Portion]
    BY <1>3, <2>2, PortionIsPositive DEF ServerReceives, ServerTypes, m
  <2>5. ServerTypes' /\ UNCHANGED <<clientVars, connection>>
    BY <1>3, <2>1, <2>3, <2>4 DEF ServerReceives, ServerTypes
  <2> QED BY <1>1, <2>5, TypePartsNext, Zenon
<1>4. ASSUME NEW r \in Singles, ServerAnswers(r)
      PROVE  TypeOK'
  <2>1. r \in Call
    BY DEF Call
  <2>2. inbox' \in Seq(Message)
    BY <1>2, <1>4, <2>1, RepliesAreTyped DEF ServerAnswers
  <2>3. ServerTypes' /\ UNCHANGED <<clientVars, connection>>
    BY <1>4, <2>2 DEF ServerAnswers, ServerTypes
  <2> QED BY <1>1, <2>3, TypePartsNext, Zenon
<1>5. ASSUME NEW s \in Streams, ServerStreams(s)
      PROVE  TypeOK'
  <2>1. s \in Call
    BY DEF Call
  <2>2. UNCHANGED <<clientVars, received, connection>>
    BY <1>5 DEF ServerStreams
  <2>3. CASE /\ credit[s] > 0 /\ produced[s] < MaxParts
             /\ ServerSends(s, PartReply(produced[s] + 1))
             /\ produced' = [produced EXCEPT ![s] = @ + 1]
             /\ credit' = [credit EXCEPT ![s] = @ - 1]
             /\ UNCHANGED server
    <3>1. produced[s] + 1 \in 1 .. MaxParts
      BY <2>3, PortionIsPositive DEF ServerTypes
    <3>2. inbox' \in Seq(Message)
      BY <1>2, <2>1, <2>3, <3>1, RepliesAreTyped
    <3>3. credit[s] - 1 \in 0 .. Portion
      BY <2>3, PortionIsPositive DEF ServerTypes
    <3>4. ServerTypes'
      BY <2>2, <2>3, <3>1, <3>2, <3>3 DEF ServerTypes
    <3> QED BY <1>1, <2>2, <3>4, TypePartsNext, Zenon
  <2>4. CASE \E reply \in PartReplies :
                /\ ServerSends(s, reply)
                /\ server' = [server EXCEPT ![s] = "paused"]
                      \/ server' = [server EXCEPT ![s] = "done"]
                /\ UNCHANGED <<produced, credit>>
    <3>1. inbox' \in Seq(Message)
      BY <1>2, <2>1, <2>4
    <3>2. ServerTypes'
      BY <2>2, <2>4, <3>1 DEF ServerTypes
    <3> QED BY <1>1, <2>2, <3>2, TypePartsNext, Zenon
  <2> QED BY <1>5, <2>3, <2>4, RepliesAreTyped DEF ServerStreams
<1>6. ASSUME ErrorEvent
      PROVE  TypeOK'
  <2>1. /\ Res!TypeOK' /\ Part!TypeOK' /\ Dispatcher!TypeOK'
        /\ isOpen' \in BOOLEAN /\ cause' \in {"none"} \cup Cause
    BY <1>6, CloseStreamTypes DEF ErrorEvent, Cause
  <2>2. ControlTypes' /\ CallTypes' /\ ServerTypes'
    BY <1>6, <2>1 DEF ErrorEvent, ControlTypes, CallTypes, ServerTypes, callVars,
                      serverVars
  <2> QED BY <2>1, <2>2, TypePartsNext, Zenon
<1>7. ASSUME ServerEnds
      PROVE  TypeOK'
  <2>1. ControlTypes' /\ ServerTypes' /\ UNCHANGED clientVars
    BY <1>7 DEF ServerEnds, ControlTypes, ServerTypes, clientVars, serverVars
  <2> QED BY <1>1, <2>1, TypePartsNext, Zenon
<1> QED BY <1>3, <1>4, <1>5, <1>6, <1>7, Zenon DEF ServerStep

LEMMA StutterTypes == TypeOK /\ UNCHANGED vars => TypeOK'
<1> SUFFICES ASSUME TypeOK, UNCHANGED vars PROVE TypeOK'
  OBVIOUS
<1> USE TypeParts
<1>1. Res!TypeOK' /\ Part!TypeOK' /\ Dispatcher!TypeOK'
  BY ResTypes, PartTypes, DispatcherTypes DEF vars, collectorVars
<1>2. ControlTypes' /\ CallTypes' /\ ServerTypes'
  BY DEF vars, callVars, serverVars, networkVars, ControlTypes, CallTypes, ServerTypes
<1> QED BY <1>1, <1>2, TypePartsNext, Zenon

(***************************************************************************)
(* Type correctness of the transaction: in particular every element of a   *)
(* queue is a response of its kind or a closing element with a cause.      *)
(***************************************************************************)
THEOREM TypeCorrect == Spec => []TypeOK
<1>1. TypeOK /\ [Next]_vars => TypeOK'
  BY UserTypes, ClientTypes, OutsideTypes, StutterTypes DEF Next
<1> QED BY <1>1, InitTypes, PTL DEF Spec

-----------------------------------------------------------------------------
(* Closing *)

AnyElement == Res!Element \cup Part!Element

LEMMA QueuesAreTyped ==
  ASSUME TypeOK, NEW r \in Call
  PROVE  /\ QueueOf(r) \in Seq(AnyElement)
         /\ Len(QueueOf(r)) \in Nat
         /\ \A i \in DOMAIN QueueOf(r) :
               IsClosing(QueueOf(r)[i]) => QueueOf(r)[i].error \in Cause
<1>1. QueueOf(r) \in Seq(AnyElement)
  <2>1. CASE r \in Singles
    <3>1. resQueues[r] \in Seq(Res!Element)
      BY <2>1, TypeParts DEF Res!TypeOK
    <3> QED BY <2>1, <3>1 DEF QueueOf, AnyElement
  <2>2. CASE r \notin Singles
    <3>1. partQueues[r] \in Seq(Part!Element)
      BY <2>2, TypeParts DEF Part!TypeOK, Call
    <3> QED BY <2>2, <3>1 DEF QueueOf, AnyElement
  <2> QED BY <2>1, <2>2
<1>2. Len(QueueOf(r)) \in Nat
  BY <1>1
<1>3. \A e \in AnyElement : e.done => e.error \in Cause
  BY ElementsAreTyped, Zenon DEF AnyElement
<1>4. \A i \in DOMAIN QueueOf(r) : QueueOf(r)[i] \in AnyElement
  BY <1>1
<1> QED BY <1>1, <1>2, <1>3, <1>4, Zenon DEF IsClosing

(***************************************************************************)
(* Nothing is closed while the transaction is open.                        *)
(***************************************************************************)
LEMMA OpenHasNoClosing ==
  ASSUME CloseInv, isOpen
  PROVE  /\ \A r \in Call : \A i \in DOMAIN QueueOf(r) : ~IsClosing(QueueOf(r)[i])
         /\ \A r \in Call : outcome[r] \notin Cause
<1>1. cause = "none" /\ "none" \notin Cause
  BY DEF CloseInv, Registered, Cause
<1>2. ASSUME NEW r \in Call, NEW i \in DOMAIN QueueOf(r), IsClosing(QueueOf(r)[i])
      PROVE  FALSE
  <2>1. QueueOf(r)[i].error = cause
    BY <1>2, Zenon DEF CloseInv, ClosedOnce
  <2>2. QueueOf(r)[i].error \in Cause
    BY <1>2, QueuesAreTyped, Zenon DEF CloseInv
  <2> QED BY <1>1, <2>1, <2>2
<1>3. \A r \in Call : outcome[r] \notin Cause
  BY <1>1, Zenon DEF CloseInv, FirstCauseReported
<1> QED BY <1>2, <1>3

(***************************************************************************)
(* What close() does to the queue of a call.                               *)
(***************************************************************************)
ClosingElement(error) == [done |-> TRUE, error |-> error]

LEMMA CloseReachesQueue ==
  ASSUME TypeOK, NEW error \in Cause, CloseStream(error), NEW r \in Call
  PROVE  QueueOf(r)' = IF r \in resCollectors \cup partCollectors
                       THEN Append(QueueOf(r), ClosingElement(error))
                       ELSE QueueOf(r)
<1>1. resCollectors \subseteq Singles /\ partCollectors \subseteq Streams
  BY TypeParts DEF Res!TypeOK, Part!TypeOK
<1>2. CASE r \in Singles
  <2>1. r \notin partCollectors
    BY <1>1, <1>2, CallsAreDistinct DEF Singles
  <2> QED BY <1>2, <2>1 DEF CloseStream, Res!Close, Res!Done, ClosingElement, QueueOf
<1>3. CASE r \in Streams
  <2>1. r \notin Singles /\ r \notin resCollectors
    BY <1>1, <1>3, CallsAreDistinct DEF Singles
  <2> QED BY <1>3, <2>1 DEF CloseStream, Part!Close, Part!Done, ClosingElement, QueueOf
<1> QED BY <1>2, <1>3 DEF Call

Live == {"ready", "waiting"}

(***************************************************************************)
(* A step that leaves the stream, the collectors and the queues alone.     *)
(***************************************************************************)
LEMMA QuietStep ==
  ASSUME CloseInv, TypeOK',
         UNCHANGED <<isOpen, cause, collectorVars>>,
         reiterated \subseteq reiterated',
         \A r \in Call : outcome'[r] \in Cause => outcome'[r] = outcome[r],
         \A r \in Call : phase'[r] \in Live => phase[r] \in Live \/ r \in reiterated',
         isOpen => \A r \in Call : phase'[r] # "idle" => phase[r] # "idle"
  PROVE  CloseInv'
<1>1. \A r \in Call : QueueOf(r)' = QueueOf(r)
  BY DEF QueueOf, collectorVars
<1>2. Registered'
  BY Zenon DEF CloseInv, Registered, collectorVars
<1>3. ClosedOnce'
  BY <1>1 DEF CloseInv, ClosedOnce, IsClosing
<1>4. NobodyStranded'
  BY <1>1 DEF CloseInv, NobodyStranded, IsClosing, Live
<1>5. FirstCauseReported'
  BY DEF CloseInv, FirstCauseReported
<1> QED BY <1>2, <1>3, <1>4, <1>5, Zenon DEF CloseInv

(***************************************************************************)
(* A step of the open stream that puts no closing element in a queue.      *)
(***************************************************************************)
LEMMA OpenStep ==
  ASSUME CloseInv, TypeOK', isOpen,
         UNCHANGED <<isOpen, cause, outcome>>,
         \A r \in Call : \A i \in DOMAIN QueueOf(r)' : ~IsClosing(QueueOf(r)'[i]),
         \A r \in Call : phase'[r] # "idle" =>
                            r \in resCollectors' \cup partCollectors'
  PROVE  CloseInv'
<1>1. Registered'
  BY Zenon DEF CloseInv, Registered
<1>2. ClosedOnce'
  BY Zenon DEF ClosedOnce, IsClosing
<1>3. NobodyStranded'
  BY Zenon DEF NobodyStranded
<1>4. FirstCauseReported'
  BY DEF CloseInv, FirstCauseReported
<1> QED BY <1>1, <1>2, <1>3, <1>4, Zenon DEF CloseInv

(***************************************************************************)
(* A step that closes the stream, for the first time or again.             *)
(***************************************************************************)
LEMMA CloseStep ==
  ASSUME CloseInv, TypeOK', NEW error \in Cause, CloseStream(error),
         UNCHANGED <<outcome, reiterated>>,
         \A r \in Call : phase'[r] \in Live => phase[r] \in Live
  PROVE  CloseInv'
<1>0. TypeOK
  BY Zenon DEF CloseInv
<1>1. /\ ~isOpen' /\ resCollectors' = {} /\ partCollectors' = {}
      /\ cause' # "none"
  <2>1. ~isOpen' /\ resCollectors' = {} /\ partCollectors' = {}
    BY Zenon DEF CloseStream, Res!Close, Part!Close
  <2>2. CASE isOpen
    BY <2>1, <2>2 DEF CloseStream, Cause
  <2>3. CASE ~isOpen
    <3>1. cause # "none"
      BY <2>3, Zenon DEF CloseInv, Registered
    <3> QED BY <2>1, <2>3, <3>1 DEF CloseStream
  <2> QED BY <2>1, <2>2, <2>3
<1>2. Registered'
  BY <1>1, Zenon DEF Registered
<1>3. CASE ~isOpen
  <2>1. UNCHANGED cause
    BY <1>3 DEF CloseStream
  <2>2. resCollectors = {} /\ partCollectors = {}
    BY <1>3, Zenon DEF CloseInv, Registered
  <2>3. \A r \in Call : QueueOf(r)' = QueueOf(r)
    BY <1>0, <2>2, CloseReachesQueue
  <2>4. ClosedOnce'
    BY <2>1, <2>3 DEF CloseInv, ClosedOnce, IsClosing
  <2>5. NobodyStranded'
    BY <1>3, <2>3 DEF CloseInv, NobodyStranded, IsClosing, Live
  <2>6. FirstCauseReported'
    BY <2>1 DEF CloseInv, FirstCauseReported
  <2> QED BY <1>2, <2>4, <2>5, <2>6, Zenon DEF CloseInv
<1>4. CASE isOpen
  <2>1. cause' = error
    BY <1>4 DEF CloseStream
  <2>2. ASSUME NEW r \in Call
        PROVE  /\ \A i \in DOMAIN QueueOf(r)' :
                     IsClosing(QueueOf(r)'[i]) =>
                        i = Len(QueueOf(r)') /\ QueueOf(r)'[i].error = error
               /\ phase[r] \in Live =>
                     /\ QueueOf(r)' # <<>>
                     /\ IsClosing(QueueOf(r)'[Len(QueueOf(r)')])
    <3> DEFINE q == QueueOf(r)
    <3>1. q \in Seq(AnyElement) /\ \A i \in DOMAIN q : ~q[i].done
      BY <1>0, <1>4, QueuesAreTyped, OpenHasNoClosing DEF IsClosing
    <3>2. CASE r \in resCollectors \cup partCollectors
      <4>1. q' = Append(q, ClosingElement(error))
        BY <1>0, <3>2, CloseReachesQueue
      <4> HIDE DEF q
      <4>2. /\ Len(q') = Len(q) + 1 /\ Len(q) \in Nat
            /\ DOMAIN q' = 1 .. Len(q) + 1
            /\ \A i \in 1 .. Len(q) : q'[i] = q[i] /\ i \in DOMAIN q
            /\ q'[Len(q) + 1] = ClosingElement(error)
        BY <3>1, <4>1
      <4>3. \A i \in DOMAIN q' : i = Len(q) + 1 \/ i \in 1 .. Len(q)
        BY <4>2
      <4>4. /\ \A i \in DOMAIN q' : q'[i].done => i = Len(q') /\ q'[i].error = error
            /\ q' # <<>> /\ q'[Len(q')].done
        BY <3>1, <4>2, <4>3 DEF ClosingElement
      <4> QED BY <4>4 DEF q, IsClosing
    <3>3. CASE r \notin resCollectors \cup partCollectors
      <4>1. q' = q
        BY <1>0, <3>3, CloseReachesQueue
      <4>2. phase[r] = "idle"
        BY <1>4, <3>3, Zenon DEF CloseInv, Registered
      <4> QED BY <3>1, <4>1, <4>2 DEF IsClosing, Live
    <3> QED BY <3>2, <3>3
  <2>3. ClosedOnce'
    BY <2>1, <2>2 DEF ClosedOnce, IsClosing
  <2>4. NobodyStranded'
    BY <2>2 DEF NobodyStranded, IsClosing, Live
  <2>5. FirstCauseReported'
    BY <1>4, OpenHasNoClosing DEF FirstCauseReported
  <2> QED BY <1>2, <2>3, <2>4, <2>5, Zenon DEF CloseInv
<1> QED BY <1>3, <1>4

(***************************************************************************)
(* A take() by call r, which then waits no longer if it took a closing     *)
(* element, and reports what the element carries if it reports a failure.  *)
(***************************************************************************)
LEMMA TakeStep ==
  ASSUME CloseInv, TypeOK', NEW r \in Call,
         UNCHANGED <<isOpen, cause, resCollectors, partCollectors, reiterated>>,
         phase[r] = "waiting",
         QueueOf(r) # <<>>, QueueOf(r)' = Tail(QueueOf(r)),
         \A x \in Call \ {r} :
            /\ QueueOf(x)' = QueueOf(x)
            /\ phase'[x] = phase[x] /\ outcome'[x] = outcome[x],
         IsClosing(Head(QueueOf(r))) => phase'[r] \notin Live,
         \/ outcome'[r] = outcome[r]
         \/ outcome'[r] \notin Cause
         \/ /\ IsClosing(Head(QueueOf(r)))
            /\ outcome'[r] = Head(QueueOf(r)).error
  PROVE  CloseInv'
<1> DEFINE q == QueueOf(r)
<1>0. TypeOK
  BY Zenon DEF CloseInv
<1>1. Registered'
  BY Zenon DEF CloseInv, Registered
<1>2. /\ q \in Seq(AnyElement) /\ q # <<>> /\ q' = Tail(q)
      /\ \A i \in DOMAIN q : IsClosing(q[i]) => i = Len(q) /\ q[i].error = cause
  BY <1>0, QueuesAreTyped DEF CloseInv, ClosedOnce
<1>3. /\ Len(q) \in Nat \ {0} /\ Head(q) = q[1] /\ 1 \in DOMAIN q
      /\ Len(q') = Len(q) - 1 /\ DOMAIN q' = 1 .. Len(q) - 1
      /\ \A i \in DOMAIN q' : q'[i] = q[i + 1] /\ i + 1 \in DOMAIN q
  <2> HIDE DEF q
  <2> QED BY <1>2
<1>4. \A i \in DOMAIN q' : IsClosing(q'[i]) => i = Len(q') /\ q'[i].error = cause
  <2> HIDE DEF q
  <2> QED BY <1>2, <1>3
<1>5. ClosedOnce'
  <2> SUFFICES ASSUME NEW x \in Call, NEW i \in DOMAIN QueueOf(x)',
                      IsClosing(QueueOf(x)'[i])
               PROVE  i = Len(QueueOf(x)') /\ QueueOf(x)'[i].error = cause
    BY DEF ClosedOnce, IsClosing
  <2>1. CASE x = r
    BY <1>4, <2>1
  <2>2. CASE x # r
    <3>1. QueueOf(x)' = QueueOf(x)
      BY <2>2
    <3> QED BY <3>1 DEF CloseInv, ClosedOnce
  <2> QED BY <2>1, <2>2
<1>6. NobodyStranded'
  <2> SUFFICES ASSUME ~isOpen, NEW x \in Call \ reiterated, phase'[x] \in Live
               PROVE  /\ QueueOf(x)' # <<>>
                      /\ IsClosing(QueueOf(x)'[Len(QueueOf(x)')])
    BY DEF NobodyStranded, IsClosing, Live
  <2>1. CASE x = r
    <3>1. IsClosing(q[Len(q)]) /\ ~IsClosing(q[1])
      BY <1>3, <2>1 DEF CloseInv, NobodyStranded
    <3>2. Len(q) - 1 \in DOMAIN q' /\ q'[Len(q')] = q[Len(q)] /\ q' # <<>>
      <4> HIDE DEF q
      <4> QED BY <1>3, <3>1
    <3> QED BY <2>1, <3>1, <3>2
  <2>2. CASE x # r
    <3>1. QueueOf(x)' = QueueOf(x) /\ phase[x] \in Live
      BY <2>2
    <3> QED BY <3>1 DEF CloseInv, NobodyStranded, Live
  <2> QED BY <2>1, <2>2
<1>7. FirstCauseReported'
  <2>1. outcome'[r] \in Cause => outcome'[r] = cause
    BY <1>2, <1>3 DEF CloseInv, FirstCauseReported
  <2> QED BY <2>1 DEF CloseInv, FirstCauseReported
<1> QED BY <1>1, <1>5, <1>6, <1>7, Zenon DEF CloseInv

LEMMA InitClose == Init => CloseInv
<1> SUFFICES ASSUME Init PROVE CloseInv
  OBVIOUS
<1>1. TypeOK
  BY InitTypes
<1>2. \A r \in Call : QueueOf(r) = <<>>
  BY DEF Init, Res!Init, Part!Init, QueueOf, Call
<1>3. Registered
  BY DEF Init, Registered
<1>4. ClosedOnce
  BY <1>2 DEF ClosedOnce
<1>5. NobodyStranded
  BY Zenon DEF Init, NobodyStranded
<1>6. FirstCauseReported
  BY DEF Init, FirstCauseReported, Cause
<1> QED BY <1>1, <1>3, <1>4, <1>5, <1>6, Zenon DEF CloseInv

LEMMA UserClosing == CloseInv /\ TypeOK' /\ UserStep => CloseInv'
<1> SUFFICES ASSUME CloseInv, TypeOK', UserStep PROVE CloseInv'
  OBVIOUS
<1>0. TypeOK
  BY Zenon DEF CloseInv
<1> USE <1>0, TypeParts
<1>1. ASSUME NEW r \in Singles, Execute(r)
      PROVE  CloseInv'
  <2>0. r \in Call /\ r \notin Streams
    BY CallsAreDistinct DEF Call, Singles
  <2>1. CASE isOpen
    <3>1. /\ Res!Queue(r) /\ phase' = [phase EXCEPT ![r] = "waiting"]
          /\ UNCHANGED <<isOpen, cause, outcome, partCollectors, partQueues>>
      BY <1>1, <2>1 DEF Execute
    <3>2. \A x \in Call : QueueOf(x)' = IF x = r THEN <<>> ELSE QueueOf(x)
      BY <3>1 DEF Res!Queue, Res!TypeOK, QueueOf
    <3>3. \A x \in Call : \A i \in DOMAIN QueueOf(x)' : ~IsClosing(QueueOf(x)'[i])
      BY <2>1, <3>2, OpenHasNoClosing
    <3>4. \A x \in Call : phase'[x] # "idle" =>
                             x \in resCollectors' \cup partCollectors'
      BY <2>1, <3>1 DEF CloseInv, Registered, Res!Queue, CallTypes
    <3> QED BY <2>1, <3>1, <3>3, <3>4, OpenStep
  <2>2. CASE ~isOpen
    <3>1. /\ outcome' = [outcome EXCEPT ![r] = "refused"]
          /\ phase' = [phase EXCEPT
                         ![r] = IF r \in Commits THEN "settling" ELSE "settled"]
          /\ UNCHANGED <<isOpen, cause, collectorVars, reiterated>>
      BY <1>1, <2>2 DEF Execute, collectorVars
    <3>2. \A x \in Call : outcome'[x] \in Cause => outcome'[x] = outcome[x]
      BY <3>1 DEF CallTypes, Cause
    <3>3. \A x \in Call : phase'[x] \in Live => phase[x] \in Live
      BY <3>1 DEF CallTypes, Live
    <3> QED BY <2>2, <3>1, <3>2, <3>3, QuietStep
  <2> QED BY <2>1, <2>2
<1>2. ASSUME NEW s \in Streams, OpenStream(s)
      PROVE  CloseInv'
  <2>0. s \in Call /\ s \notin Singles
    BY CallsAreDistinct DEF Call, Singles
  <2>1. CASE isOpen
    <3>1. /\ Part!Queue(s) /\ phase' = [phase EXCEPT ![s] = "ready"]
          /\ UNCHANGED <<isOpen, cause, outcome, resCollectors, resQueues>>
      BY <1>2, <2>1 DEF OpenStream
    <3>2. \A x \in Call : QueueOf(x)' = IF x = s THEN <<>> ELSE QueueOf(x)
      BY <2>0, <3>1 DEF Part!Queue, Part!TypeOK, QueueOf, Call
    <3>3. \A x \in Call : \A i \in DOMAIN QueueOf(x)' : ~IsClosing(QueueOf(x)'[i])
      BY <2>1, <3>2, OpenHasNoClosing
    <3>4. \A x \in Call : phase'[x] # "idle" =>
                             x \in resCollectors' \cup partCollectors'
      BY <2>1, <3>1 DEF CloseInv, Registered, Part!Queue, CallTypes
    <3> QED BY <2>1, <3>1, <3>3, <3>4, OpenStep
  <2>2. CASE ~isOpen
    <3>1. /\ outcome' = [outcome EXCEPT ![s] = "refused"]
          /\ phase' = [phase EXCEPT ![s] = "settled"]
          /\ UNCHANGED <<isOpen, cause, collectorVars, reiterated>>
      BY <1>2, <2>2 DEF OpenStream, collectorVars
    <3>2. \A x \in Call : outcome'[x] \in Cause => outcome'[x] = outcome[x]
      BY <3>1 DEF CallTypes, Cause
    <3>3. \A x \in Call : phase'[x] \in Live => phase[x] \in Live
      BY <3>1 DEF CallTypes, Live
    <3> QED BY <2>2, <3>1, <3>2, <3>3, QuietStep
  <2> QED BY <2>1, <2>2
<1>3. ASSUME NEW s \in Streams, Pull(s) \/ Reiterate(s)
      PROVE  CloseInv'
  <2>1. /\ UNCHANGED <<isOpen, cause, collectorVars, outcome>>
        /\ reiterated \subseteq reiterated'
    BY <1>3 DEF Pull, Reiterate
  <2>2. \A x \in Call : phase'[x] \in Live => phase[x] \in Live \/ x \in reiterated'
    BY <1>3 DEF Pull, Reiterate, CallTypes, Live
  <2>3. \A x \in Call : phase'[x] # "idle" => phase[x] # "idle"
    BY <1>3 DEF Pull, Reiterate, CallTypes
  <2> QED BY <2>1, <2>2, <2>3, QuietStep
<1>4. ASSUME UserClose
      PROVE  CloseInv'
  <2>1. "closed" \in Cause /\ CloseStream("closed") /\ UNCHANGED callVars
    BY <1>4 DEF UserClose, Cause
  <2> QED BY <2>1, CloseStep DEF callVars
<1>5. ASSUME TransmitterClose
      PROVE  CloseInv'
  <2>1. UNCHANGED <<isOpen, cause, collectorVars, callVars>>
    BY <1>5 DEF TransmitterClose
  <2> QED BY <2>1, QuietStep DEF callVars
<1> QED BY <1>1, <1>2, <1>3, <1>4, <1>5, Zenon DEF UserStep

LEMMA ClientClosing == CloseInv /\ TypeOK' /\ ClientStep => CloseInv'
<1> SUFFICES ASSUME CloseInv, TypeOK', ClientStep PROVE CloseInv'
  OBVIOUS
<1>0. TypeOK
  BY Zenon DEF CloseInv
<1> USE <1>0, TypeParts
<1>1. ASSUME NEW r \in Singles, ResumeSingle(r)
      PROVE  CloseInv'
  <2>0. r \in Call
    BY DEF Call
  <2>1. /\ Res!Take(r) /\ phase[r] = "waiting"
        /\ phase' = [phase EXCEPT
                       ![r] = IF r \in Commits THEN "settling" ELSE "settled"]
        /\ outcome' = [outcome EXCEPT ![r] =
                         IF @ = "none"
                         THEN IF Head(resQueues[r]).done
                              THEN Head(resQueues[r]).error ELSE "answered"
                         ELSE @]
        /\ UNCHANGED <<isOpen, cause, resCollectors, partCollectors, partQueues,
                       reiterated>>
    BY <1>1 DEF ResumeSingle, Settle, Res!Take
  <2>2. /\ QueueOf(r) = resQueues[r] /\ QueueOf(r) # <<>>
        /\ QueueOf(r)' = Tail(QueueOf(r))
        /\ \A x \in Call \ {r} : QueueOf(x)' = QueueOf(x)
    BY <2>1 DEF Res!Take, Res!TypeOK, QueueOf
  <2>3. phase'[r] \notin Live
    BY <2>0, <2>1 DEF CallTypes, Live
  <2>4. \/ outcome'[r] = outcome[r]
        \/ outcome'[r] \notin Cause
        \/ /\ IsClosing(Head(QueueOf(r)))
           /\ outcome'[r] = Head(QueueOf(r)).error
    BY <2>0, <2>1, <2>2 DEF CallTypes, Cause, IsClosing
  <2>5. \A x \in Call \ {r} : phase'[x] = phase[x] /\ outcome'[x] = outcome[x]
    BY <2>1 DEF CallTypes
  <2> QED BY <2>0, <2>1, <2>2, <2>3, <2>4, <2>5, TakeStep
<1>2. ASSUME NEW r \in Commits, CommitCloses(r)
      PROVE  CloseInv'
  <2>1. "closed" \in Cause /\ CloseStream("closed") /\ UNCHANGED <<outcome, reiterated>>
    BY <1>2 DEF CommitCloses, Cause
  <2>2. \A x \in Call : phase'[x] \in Live => phase[x] \in Live
    BY <1>2 DEF CommitCloses, CallTypes, Live
  <2> QED BY <2>1, <2>2, CloseStep
<1>3. ASSUME NEW s \in Streams, ResumeStream(s)
      PROVE  CloseInv'
  <2> DEFINE e == Head(partQueues[s])
  <2>0. s \in Call /\ s \notin Singles
    BY CallsAreDistinct DEF Call, Singles
  <2>1. /\ Part!Take(s) /\ phase[s] = "waiting" /\ Advance(s, e)
        /\ UNCHANGED <<isOpen, cause, resCollectors, resQueues, partCollectors,
                       reiterated>>
    BY <1>3 DEF ResumeStream, Part!Take
  <2>2. /\ QueueOf(s) = partQueues[s] /\ QueueOf(s) # <<>>
        /\ QueueOf(s)' = Tail(QueueOf(s))
        /\ \A x \in Call \ {s} : QueueOf(x)' = QueueOf(x)
    BY <2>0, <2>1 DEF Part!Take, Part!TypeOK, QueueOf, Call
  <2>3. e = Head(QueueOf(s))
    BY <2>2
  <2> HIDE DEF e
  <2>4. /\ \A x \in Call \ {s} : phase'[x] = phase[x] /\ outcome'[x] = outcome[x]
        /\ phase'[s] # "idle"
    BY <2>1 DEF Advance, Settle, CallTypes
  <2>5. e.done => phase'[s] \notin Live
    BY <2>0, <2>1 DEF Advance, KindOf, CallTypes, Live
  <2>6. \/ outcome'[s] = outcome[s]
        \/ outcome'[s] \notin Cause
        \/ e.done /\ outcome'[s] = e.error
    BY <2>0, <2>1 DEF Advance, Settle, CallTypes, Cause
  <2> QED BY <2>0, <2>1, <2>2, <2>3, <2>4, <2>5, <2>6, TakeStep DEF IsClosing
<1>4. ASSUME TimerFires
      PROVE  CloseInv'
  <2>1. UNCHANGED <<isOpen, cause, collectorVars, callVars>>
    BY <1>4 DEF TimerFires
  <2> QED BY <2>1, QuietStep DEF callVars
<1>5. ASSUME DataEvent
      PROVE  CloseInv'
  <2> DEFINE m == Head(inbox)
  <2>1. UNCHANGED <<isOpen, cause, callVars>>
    BY <1>5 DEF DataEvent
  <2>2. CASE UNCHANGED collectorVars
    BY <2>1, <2>2, QuietStep DEF callVars
  <2>3. CASE isOpen /\ Collect(m) /\ ~UNCHANGED collectorVars
    <3>1. m \in Message
      BY <1>5, HeadTailProperties DEF DataEvent, ServerTypes
    <3> HIDE DEF m
    <3>2. \/ m.id \in Singles /\ Res!Put(m.id, m.reply)
             /\ UNCHANGED <<partCollectors, partQueues>>
          \/ m.id \in Streams /\ Part!Put(m.id, m.reply)
             /\ UNCHANGED <<resCollectors, resQueues>>
      BY <2>3 DEF Collect, Res!TypeOK, Part!TypeOK
    <3>3. UNCHANGED <<resCollectors, partCollectors>>
      BY <3>2 DEF Res!Put, Part!Put
    <3>4. ASSUME NEW x \in Call, NEW i \in DOMAIN QueueOf(x)'
          PROVE  ~IsClosing(QueueOf(x)'[i])
      <4>1. \/ QueueOf(x)' = QueueOf(x)
            \/ \E v : QueueOf(x)' = Append(QueueOf(x), [done |-> FALSE, value |-> v])
        BY <3>2, CallsAreDistinct
           DEF Res!Put, Part!Put, Res!Response, Part!Response, Res!TypeOK,
               Part!TypeOK, QueueOf, Call, Singles
      <4>2. QueueOf(x) \in Seq(AnyElement)
            /\ \A j \in DOMAIN QueueOf(x) : ~IsClosing(QueueOf(x)[j])
        BY <2>3, QueuesAreTyped, OpenHasNoClosing
      <4>3. CASE QueueOf(x)' = QueueOf(x)
        BY <3>4, <4>2, <4>3
      <4>4. ASSUME NEW v, QueueOf(x)' = Append(QueueOf(x), [done |-> FALSE, value |-> v])
            PROVE  ~IsClosing(QueueOf(x)'[i])
        <5>1. \/ i \in DOMAIN QueueOf(x) /\ QueueOf(x)'[i] = QueueOf(x)[i]
              \/ QueueOf(x)'[i] = [done |-> FALSE, value |-> v]
          BY <3>4, <4>2, <4>4
        <5> QED BY <4>2, <5>1 DEF IsClosing
      <4> QED BY <4>1, <4>3, <4>4
    <3>5. \A x \in Call : phase'[x] # "idle" =>
                             x \in resCollectors' \cup partCollectors'
      BY <2>1, <2>3, <3>3 DEF CloseInv, Registered, callVars
    <3> QED BY <2>1, <2>3, <3>4, <3>5, OpenStep DEF callVars
  <2> QED BY <1>5, <2>2, <2>3 DEF DataEvent
<1>6. ASSUME WriteErrorEvent \/ DoneEvent
      PROVE  CloseInv'
  <2>1. /\ \E error \in Cause : CloseStream(error)
        /\ UNCHANGED callVars
    BY <1>6 DEF WriteErrorEvent, DoneEvent, Cause
  <2> QED BY <2>1, CloseStep DEF callVars
<1> QED BY <1>1, <1>2, <1>3, <1>4, <1>5, <1>6, Zenon DEF ClientStep

LEMMA OutsideClosing ==
  CloseInv /\ TypeOK' /\ (ServerStep \/ ErrorEvent \/ ServerEnds) => CloseInv'
<1> SUFFICES ASSUME CloseInv, TypeOK', ServerStep \/ ErrorEvent \/ ServerEnds
             PROVE  CloseInv'
  OBVIOUS
<1>1. CASE ErrorEvent
  <2>1. "error" \in Cause /\ CloseStream("error") /\ UNCHANGED callVars
    BY <1>1 DEF ErrorEvent, Cause
  <2> QED BY <2>1, CloseStep DEF callVars
<1>2. CASE ServerStep \/ ServerEnds
  <2>1. UNCHANGED clientVars
    BY <1>2 DEF ServerStep, ServerReceives, ServerAnswers, ServerStreams, ServerEnds
  <2> QED BY <2>1, QuietStep DEF clientVars, callVars
<1> QED BY <1>1, <1>2

(***************************************************************************)
(* Together with the types, the facts about closing are an invariant of    *)
(* every transaction.                                                      *)
(***************************************************************************)
THEOREM ClosingIsInductive == Spec => []CloseInv
<1>1. CloseInv /\ [Next]_vars => CloseInv'
  <2> SUFFICES ASSUME CloseInv, [Next]_vars PROVE CloseInv'
    OBVIOUS
  <2>1. TypeOK'
    BY UserTypes, ClientTypes, OutsideTypes, StutterTypes, Zenon DEF Next, CloseInv
  <2>2. CASE UNCHANGED vars
    BY <2>1, <2>2, QuietStep DEF vars, callVars
  <2> QED BY <2>1, <2>2, UserClosing, ClientClosing, OutsideClosing DEF Next
<1> QED BY <1>1, InitClose, PTL DEF Spec

(***************************************************************************)
(* Whatever closes the transaction, and however often, every call that     *)
(* waits then finds a closing element at the end of its queue              *)
(* (BidirectionalStream.close, ResponseCollector.close).                   *)
(***************************************************************************)
THEOREM CloseStrandsNobody == Spec => []NobodyStranded
<1>1. CloseInv => NobodyStranded
  BY DEF CloseInv
<1> QED BY <1>1, ClosingIsInductive, PTL

(***************************************************************************)
(* No queue is ever closed twice, nothing follows a closing element, and   *)
(* each carries the first cause.                                           *)
(***************************************************************************)
THEOREM QueuesClosedOnce == Spec => []ClosedOnce
<1>1. CloseInv => ClosedOnce
  BY DEF CloseInv
<1> QED BY <1>1, ClosingIsInductive, PTL

(***************************************************************************)
(* The error a call reports is what closed the transaction first.          *)
(***************************************************************************)
THEOREM CallsReportFirstCause == Spec => []FirstCauseReported
<1>1. CloseInv => FirstCauseReported
  BY DEF CloseInv
<1> QED BY <1>1, ClosingIsInductive, PTL

-----------------------------------------------------------------------------
(* Requests and replies *)

\* The theorems about the dispatcher alone.
Batch == INSTANCE BatchDispatcherProofs WITH MaxRequests <- 0

-----------------------------------------------------------------------------
(* The dispatcher within the transaction *)

LEMMA SameInvariant ==
  /\ Dispatcher!IInv <=> Batch!IInv
  /\ Dispatcher!IInv' <=> Batch!IInv'
<1>1. Dispatcher!TypeOK <=> Batch!TypeOK
  BY Zenon DEF Dispatcher!TypeOK, Batch!TypeOK
<1>2. Dispatcher!TypeOK' <=> Batch!TypeOK'
  BY Zenon DEF Dispatcher!TypeOK, Batch!TypeOK
<1>3. Dispatcher!IInv <=> Batch!IInv
  BY <1>1, Zenon
     DEF Dispatcher!IInv, Batch!IInv, Dispatcher!Conservation, Batch!Conservation,
         Dispatcher!OneTimer, Batch!OneTimer, Dispatcher!NothingStranded,
         Batch!NothingStranded, Dispatcher!NoEmptyWrite, Batch!NoEmptyWrite
<1>4. Dispatcher!IInv' <=> Batch!IInv'
  BY <1>2, Zenon
     DEF Dispatcher!IInv, Batch!IInv, Dispatcher!Conservation, Batch!Conservation,
         Dispatcher!OneTimer, Batch!OneTimer, Dispatcher!NothingStranded,
         Batch!NothingStranded, Dispatcher!NoEmptyWrite, Batch!NoEmptyWrite
<1> QED BY <1>3, <1>4

(***************************************************************************)
(* The operations of the dispatcher keep its invariant (see                *)
(* BatchDispatcherProofs).                                                 *)
(***************************************************************************)
LEMMA DispatcherKeeps ==
  ASSUME Dispatcher!IInv
  PROVE  /\ \A q \in Request : Dispatcher!Dispatch(q) => Dispatcher!IInv'
         /\ \A q \in Request : Dispatcher!DispatchNow(q) => Dispatcher!IInv'
         /\ Dispatcher!TimerFires => Dispatcher!IInv'
         /\ Dispatcher!Close => Dispatcher!IInv'
         /\ UNCHANGED dispatcherVars => Dispatcher!IInv'
<1>1. ASSUME NEW q \in Request, Dispatcher!Dispatch(q)
      PROVE  Dispatcher!IInv'
  <2>1. Batch!Dispatch(q)
    BY <1>1, Zenon DEF Dispatcher!Dispatch, Batch!Dispatch,
                       Dispatcher!SendScheduledBatch, Batch!SendScheduledBatch
  <2> QED BY <2>1, SameInvariant, Batch!DispatchIInv
<1>2. ASSUME NEW q \in Request, Dispatcher!DispatchNow(q)
      PROVE  Dispatcher!IInv'
  <2>1. Batch!DispatchNow(q)
    BY <1>2, Zenon DEF Dispatcher!DispatchNow, Batch!DispatchNow, Dispatcher!SendNow,
                       Batch!SendNow, Dispatcher!Write, Batch!Write
  <2> QED BY <2>1, SameInvariant, Batch!DispatchNowIInv
<1>3. ASSUME Dispatcher!TimerFires
      PROVE  Dispatcher!IInv'
  <2>1. Batch!TimerFires
    BY <1>3, Zenon DEF Dispatcher!TimerFires, Batch!TimerFires, Dispatcher!SendNow,
                       Batch!SendNow, Dispatcher!Write, Batch!Write
  <2> QED BY <2>1, SameInvariant, Batch!TimerFiresIInv
<1>4. ASSUME Dispatcher!Close
      PROVE  Dispatcher!IInv'
  <2>1. Batch!Close
    BY <1>4, Zenon DEF Dispatcher!Close, Batch!Close
  <2> QED BY <2>1, SameInvariant, Batch!CloseIInv
<1>5. ASSUME UNCHANGED dispatcherVars
      PROVE  Dispatcher!IInv'
  BY <1>5 DEF dispatcherVars, Dispatcher!IInv, Dispatcher!TypeOK,
              Dispatcher!Conservation, Dispatcher!OneTimer,
              Dispatcher!NothingStranded, Dispatcher!NoEmptyWrite
<1> QED BY <1>1, <1>2, <1>3, <1>4, <1>5

(***************************************************************************)
(* What is written stays written.                                          *)
(***************************************************************************)
Grows == /\ Len(written) <= Len(written')
         /\ \A i \in 1 .. Len(written) : written'[i] = written[i]

LEMMA WrittenGrows ==
  ASSUME Dispatcher!TypeOK
  PROVE  /\ \A q \in Request : Dispatcher!Dispatch(q) => Grows
         /\ \A q \in Request : Dispatcher!DispatchNow(q) => Grows
         /\ Dispatcher!TimerFires => Grows
         /\ Dispatcher!Close => Grows
         /\ UNCHANGED written => Grows
<1>0. written \in Seq(Request) /\ buffered \in Seq(Request)
  BY DEF Dispatcher!TypeOK
<1>1. UNCHANGED written => Grows
  BY <1>0, LenProperties DEF Grows
<1>2. ASSUME NEW b \in Seq(Request), Dispatcher!Write(b)
      PROVE  Grows
  <2>1. CASE written' = written \o b
    BY <1>0, <2>1, ConcatProperties, LenProperties DEF Grows
  <2> QED BY <1>1, <1>2, <2>1 DEF Dispatcher!Write
<1>3. ASSUME NEW q \in Request
      PROVE  /\ Dispatcher!Dispatch(q) => Grows
             /\ Dispatcher!DispatchNow(q) => Grows
  <2>1. Append(buffered, q) \in Seq(Request)
    BY <1>0, AppendProperties
  <2> QED BY <1>1, <1>2, <2>1
          DEF Dispatcher!Dispatch, Dispatcher!DispatchNow, Dispatcher!SendNow
<1>4. Dispatcher!TimerFires => Grows
  BY <1>0, <1>1, <1>2 DEF Dispatcher!TimerFires, Dispatcher!SendNow
<1> QED BY <1>1, <1>3, <1>4 DEF Dispatcher!Close

(***************************************************************************)
(* What is written is the beginning of what was submitted.                 *)
(***************************************************************************)
LEMMA WrittenIsPrefix ==
  ASSUME Dispatcher!IInv
  PROVE  /\ Len(written) \in Nat /\ Len(submitted) \in Nat
         /\ Len(written) <= Len(submitted)
         /\ DOMAIN submitted = 1 .. Len(submitted)
         /\ \A i \in 1 .. Len(written) : submitted[i] = written[i]
         /\ \A i \in 1 .. Len(written) : SubSeq(submitted, 1, i) = SubSeq(written, 1, i)
<1> DEFINE rest == dropped \o buffered
<1>1. /\ written \in Seq(Request) /\ submitted \in Seq(Request) /\ rest \in Seq(Request)
      /\ submitted = written \o rest
  BY ConcatProperties DEF Dispatcher!IInv, Dispatcher!TypeOK, Dispatcher!Conservation
<1> HIDE DEF rest
<1>2. /\ Len(written) \in Nat /\ Len(submitted) \in Nat /\ Len(rest) \in Nat
      /\ Len(submitted) = Len(written) + Len(rest)
      /\ DOMAIN submitted = 1 .. Len(submitted)
      /\ \A i \in 1 .. Len(written) : submitted[i] = written[i]
  BY <1>1, ConcatProperties, LenProperties
<1>3. ASSUME NEW i \in 1 .. Len(written)
      PROVE  SubSeq(submitted, 1, i) = SubSeq(written, 1, i)
  <2>1. 1 \in 1 .. Len(written)
    BY <1>2
  <2> QED BY <1>1, <2>1, SubSeqOfConcat1
<1> QED BY <1>2, <1>3

-----------------------------------------------------------------------------
(* The inductive invariant about requests and replies *)

Elements(q) == {q[i] : i \in DOMAIN q}

(***************************************************************************)
(* A request is submitted only for a call that was made and not refused,   *)
(* and the request of a call once; the server knows of a call only from    *)
(* its request.                                                            *)
(***************************************************************************)
Requested ==
    /\ received <= Len(written)
    /\ \A i \in DOMAIN submitted :
          phase[submitted[i].id] # "idle" /\ outcome[submitted[i].id] # "refused"
    /\ \A i, j \in DOMAIN submitted :
          submitted[i] = submitted[j] /\ ~submitted[i].more => i = j
    /\ \A r \in Call : server[r] # "none" => \E i \in 1 .. received : written[i] = Req(r)

Final == {"res", "done"}

Answers(e) == ~e.done /\ e.value.kind \in Final

Meant(m) ==
    /\ server[m.id] # "none"
    /\ m.reply.kind = "res" <=> m.id \in Singles
    /\ m.reply.kind \in Final => server[m.id] = "done"

(***************************************************************************)
(* Every reply on its way, in a queue or taken is one that the server has  *)
(* given to the call it is for.                                            *)
(***************************************************************************)
Replied ==
    /\ \A m \in Elements(inbox) : Meant(m)
    /\ \A r \in Call : \A e \in Elements(QueueOf(r)) : Answers(e) => server[r] = "done"
    /\ \A r \in Call : outcome[r] = "answered" => server[r] = "done"

(***************************************************************************)
(* A call is refused at once or not at all; a closed stream has been       *)
(* ended; a commit() returns closed.                                       *)
(***************************************************************************)
InTurn ==
    /\ \A r \in Call :
          /\ phase[r] = "idle" => outcome[r] = "none"
          /\ outcome[r] = "refused" => phase[r] \in {"settling", "settled"}
    /\ ~isOpen => ended
    /\ \A r \in Commits : phase[r] = "settled" => ~isOpen

ReplyInv == CloseInv /\ Dispatcher!IInv /\ Requested /\ Replied /\ InTurn /\ NoUncaught

-----------------------------------------------------------------------------
(* What the steps do to the queues, the wire and the calls *)

LEMMA ElementsOf ==
  ASSUME NEW S, NEW q \in Seq(S)
  PROVE  /\ Elements(q) \subseteq S
         /\ \A e \in S : Elements(Append(q, e)) = Elements(q) \cup {e}
         /\ q # <<>> => Head(q) \in Elements(q) /\ Elements(Tail(q)) \subseteq Elements(q)
<1>0. Len(q) \in Nat /\ DOMAIN q = 1 .. Len(q)
  BY LenProperties
<1>1. Elements(q) \subseteq S
  BY <1>0 DEF Elements
<1>2. ASSUME NEW e \in S
      PROVE  Elements(Append(q, e)) = Elements(q) \cup {e}
  <2>1. /\ DOMAIN Append(q, e) = 1 .. Len(q) + 1
        /\ \A i \in 1 .. Len(q) : Append(q, e)[i] = q[i]
        /\ Append(q, e)[Len(q) + 1] = e
    BY AppendProperties, LenProperties
  <2> QED BY <1>0, <2>1 DEF Elements
<1>3. ASSUME q # <<>>
      PROVE  Head(q) \in Elements(q) /\ Elements(Tail(q)) \subseteq Elements(q)
  <2>1. Len(q) \in Nat \ {0} /\ Head(q) = q[1]
    BY <1>3, EmptySeq
  <2>2. /\ DOMAIN Tail(q) = 1 .. Len(q) - 1
        /\ \A i \in 1 .. Len(q) - 1 : Tail(q)[i] = q[i + 1]
    BY <1>3, HeadTailProperties, LenProperties
  <2> QED BY <1>0, <2>1, <2>2 DEF Elements
<1> QED BY <1>1, <1>2, <1>3

LEMMA QueueNext ==
  ASSUME NEW x \in Call
  PROVE  QueueOf(x)' = IF x \in Singles THEN resQueues'[x] ELSE partQueues'[x]
BY DEF QueueOf

(***************************************************************************)
(* A queue gets nothing but closing elements and, while the stream is      *)
(* open, the response that arrives for its call.                           *)
(***************************************************************************)
Arrived(x, e) ==
    /\ isOpen /\ inbox # <<>> /\ x = Head(inbox).id
    /\ e = [done |-> FALSE, value |-> Head(inbox).reply]

LEMMA QueueSteps ==
  ASSUME TypeOK, Next, NEW x \in Call, NEW e \in Elements(QueueOf(x)')
  PROVE  e \in Elements(QueueOf(x)) \/ e.done \/ Arrived(x, e)
<1>0. /\ Res!TypeOK /\ Part!TypeOK /\ ServerTypes
      /\ QueueOf(x) \in Seq(AnyElement)
  BY TypeParts, QueuesAreTyped
<1>1. CASE QueueOf(x)' = QueueOf(x)
  BY <1>1
<1>2. ASSUME QueueOf(x)' = <<>>
      PROVE  FALSE
  BY <1>2 DEF Elements
<1>3. ASSUME NEW error \in Cause, CloseStream(error)
      PROVE  e \in Elements(QueueOf(x)) \/ e.done
  <2>1. CASE QueueOf(x)' = Append(QueueOf(x), ClosingElement(error))
    <3>1. ClosingElement(error) \in AnyElement /\ ClosingElement(error).done
      BY DEF ClosingElement, AnyElement, Res!Element
    <3>2. Elements(QueueOf(x)') = Elements(QueueOf(x)) \cup {ClosingElement(error)}
      BY <1>0, <2>1, <3>1, ElementsOf
    <3> QED BY <3>1, <3>2
  <2> QED BY <1>1, <1>3, <2>1, CloseReachesQueue
<1>4. ASSUME QueueOf(x) # <<>>, QueueOf(x)' = Tail(QueueOf(x))
      PROVE  e \in Elements(QueueOf(x))
  BY <1>0, <1>4, ElementsOf
<1>5. ASSUME NEW r \in Singles, Execute(r)
      PROVE  e \in Elements(QueueOf(x))
  <2>1. QueueOf(x)' = QueueOf(x) \/ QueueOf(x)' = <<>>
    BY <1>0, <1>5 DEF Execute, Res!Queue, Res!TypeOK, QueueOf
  <2> QED BY <1>2, <2>1
<1>6. ASSUME NEW s \in Streams, OpenStream(s)
      PROVE  e \in Elements(QueueOf(x))
  <2>1. QueueOf(x)' = QueueOf(x) \/ QueueOf(x)' = <<>>
    BY <1>0, <1>6 DEF OpenStream, Part!Queue, Part!TypeOK, QueueOf, Call
  <2> QED BY <1>2, <2>1
<1>7. ASSUME NEW r \in Singles, ResumeSingle(r)
      PROVE  e \in Elements(QueueOf(x))
  <2>1. \/ QueueOf(x)' = QueueOf(x)
        \/ QueueOf(x) # <<>> /\ QueueOf(x)' = Tail(QueueOf(x))
    BY <1>0, <1>7 DEF ResumeSingle, Res!Take, Res!TypeOK, QueueOf
  <2> QED BY <1>4, <2>1
<1>8. ASSUME NEW s \in Streams, ResumeStream(s)
      PROVE  e \in Elements(QueueOf(x))
  <2>1. \/ QueueOf(x)' = QueueOf(x)
        \/ QueueOf(x) # <<>> /\ QueueOf(x)' = Tail(QueueOf(x))
    BY <1>0, <1>8 DEF ResumeStream, Part!Take, Part!TypeOK, QueueOf, Call
  <2> QED BY <1>4, <2>1
<1>9. CASE DataEvent
  <2> DEFINE m == Head(inbox)
             answer == [done |-> FALSE, value |-> m.reply]
  <2>1. m \in Message /\ inbox # <<>>
    BY <1>0, <1>9, HeadTailProperties DEF DataEvent, ServerTypes
  <2>2. \/ UNCHANGED collectorVars
        \/ isOpen /\ Collect(m)
    BY <1>9 DEF DataEvent
  <2>3. isOpen => Arrived(m.id, answer)
    BY <2>1 DEF Arrived
  <2> HIDE DEF m
  <2>4. CASE UNCHANGED collectorVars
    BY <1>1, <2>4 DEF QueueOf, collectorVars
  <2>5. CASE isOpen /\ Collect(m) /\ ~UNCHANGED collectorVars
    <3>1. \/ m.id \in Singles /\ m.reply.kind = "res" /\ Res!Put(m.id, m.reply)
             /\ UNCHANGED partQueues
          \/ m.id \in Streams /\ m.reply.kind # "res" /\ Part!Put(m.id, m.reply)
             /\ UNCHANGED resQueues
      BY <1>0, <2>5 DEF Collect, Res!TypeOK, Part!TypeOK
    <3>2. answer \in AnyElement
      <4>1. CASE m.reply.kind = "res"
        <5>1. m.reply \in ResReplies
          BY <2>1, <4>1, RepliesAreTyped DEF Message
        <5> QED BY <5>1 DEF AnyElement, Res!Element
      <4>2. CASE m.reply.kind # "res"
        <5>1. m.reply \in PartReplies
          BY <2>1, <4>2, RepliesAreTyped DEF Message
        <5> QED BY <5>1 DEF AnyElement, Part!Element
      <4> QED BY <4>1, <4>2
    <3>3. \/ QueueOf(x)' = QueueOf(x)
          \/ x = m.id /\ QueueOf(x)' = Append(QueueOf(x), answer)
      BY <1>0, <3>1, CallsAreDistinct
         DEF Res!Put, Part!Put, Res!Response, Part!Response, Res!TypeOK,
             Part!TypeOK, QueueOf, Call, Singles
    <3> HIDE DEF answer
    <3>4. QueueOf(x)' = Append(QueueOf(x), answer)
             => Elements(QueueOf(x)') = Elements(QueueOf(x)) \cup {answer}
      BY <1>0, <3>2, ElementsOf
    <3> QED BY <2>3, <2>5, <3>3, <3>4
  <2> QED BY <2>2, <2>4, <2>5
<1>10. ASSUME UNCHANGED collectorVars
       PROVE  e \in Elements(QueueOf(x))
  BY <1>1, <1>10 DEF QueueOf, collectorVars
<1>11. UserStep => e \in Elements(QueueOf(x)) \/ e.done
  <2>1. ASSUME NEW s \in Streams, Pull(s) \/ Reiterate(s)
        PROVE  UNCHANGED collectorVars
    BY <2>1 DEF Pull, Reiterate
  <2>2. UserClose => \E error \in Cause : CloseStream(error)
    BY DEF UserClose, Cause
  <2>3. TransmitterClose => UNCHANGED collectorVars
    BY DEF TransmitterClose
  <2> QED BY <1>3, <1>5, <1>6, <1>10, <2>1, <2>2, <2>3 DEF UserStep
<1>12. ClientStep => e \in Elements(QueueOf(x)) \/ e.done \/ Arrived(x, e)
  <2>1. WriteErrorEvent \/ DoneEvent \/ (\E r \in Commits : CommitCloses(r))
           => \E error \in Cause : CloseStream(error)
    BY DEF WriteErrorEvent, DoneEvent, CommitCloses, Cause
  <2>2. TimerFires => UNCHANGED collectorVars
    BY DEF TimerFires
  <2> QED BY <1>3, <1>7, <1>8, <1>9, <1>10, <2>1, <2>2 DEF ClientStep
<1>13. ErrorEvent => \E error \in Cause : CloseStream(error)
  BY DEF ErrorEvent, Cause
<1>14. ServerStep \/ ServerEnds => UNCHANGED collectorVars
  BY DEF ServerStep, ServerReceives, ServerAnswers, ServerStreams, ServerEnds, clientVars
<1> QED BY <1>3, <1>10, <1>11, <1>12, <1>13, <1>14 DEF Next

(***************************************************************************)
(* The dispatcher keeps its invariant, and what is submitted is the        *)
(* request of a call as it is made, or that of a stream call for more.     *)
(***************************************************************************)
Submits(q) ==
    /\ submitted' = Append(submitted, q)
    /\ \E r \in Call :
          \/ q = Req(r) /\ phase[r] = "idle" /\ phase'[r] # "idle" /\ outcome'[r] = outcome[r]
          \/ q = StreamReq(r) /\ phase[r] = "waiting" /\ UNCHANGED <<phase, outcome>>

LEMMA WireSteps ==
  ASSUME TypeOK, Dispatcher!IInv, Next
  PROVE  /\ Dispatcher!IInv' /\ Grows
         /\ UNCHANGED submitted \/ \E q \in Request : Submits(q)
<1>0. Dispatcher!TypeOK /\ CallTypes
  BY TypeParts
<1> DEFINE Goal == /\ Dispatcher!IInv' /\ Grows
                   /\ UNCHANGED submitted \/ \E q \in Request : Submits(q)
<1>1. ASSUME UNCHANGED dispatcherVars
      PROVE  Goal
  BY <1>0, <1>1, DispatcherKeeps, WrittenGrows DEF dispatcherVars
<1>2. ASSUME Dispatcher!Close
      PROVE  Goal
  BY <1>0, <1>2, DispatcherKeeps, WrittenGrows DEF Dispatcher!Close
<1>3. ASSUME NEW q \in Request, Dispatcher!Dispatch(q) \/ Dispatcher!DispatchNow(q),
             \E r \in Call :
                \/ /\ q = Req(r) /\ phase[r] = "idle"
                   /\ phase'[r] # "idle" /\ outcome'[r] = outcome[r]
                \/ q = StreamReq(r) /\ phase[r] = "waiting" /\ UNCHANGED <<phase, outcome>>
      PROVE  Goal
  <2>1. Dispatcher!IInv' /\ Grows
    BY <1>0, <1>3, DispatcherKeeps, WrittenGrows
  <2>2. submitted' = Append(submitted, q)
    BY <1>3 DEF Dispatcher!Dispatch, Dispatcher!DispatchNow
  <2>3. Submits(q)
    BY <1>3, <2>2, Zenon DEF Submits
  <2> QED BY <2>1, <2>3
<1>4. ASSUME NEW r \in Singles, Execute(r)
      PROVE  Goal
  <2>1. r \in Call /\ Req(r) \in Request
    BY RequestsAreTyped DEF Call
  <2>2. phase[r] = "idle"
    BY <1>4 DEF Execute
  <2>3. CASE isOpen
    <3>1. /\ Dispatcher!Dispatch(Req(r)) \/ Dispatcher!DispatchNow(Req(r))
          /\ phase'[r] = "waiting" /\ UNCHANGED outcome
      BY <1>0, <1>4, <2>1, <2>3 DEF Execute, CallTypes
    <3> HIDE DEF Goal
    <3> QED BY <1>3, <2>1, <2>2, <3>1
  <2>4. CASE ~isOpen
    BY <1>1, <1>4, <2>4 DEF Execute
  <2> QED BY <2>3, <2>4
<1>5. ASSUME NEW s \in Streams, OpenStream(s)
      PROVE  Goal
  <2>1. s \in Call /\ Req(s) \in Request
    BY RequestsAreTyped DEF Call
  <2>2. phase[s] = "idle"
    BY <1>5 DEF OpenStream
  <2>3. CASE isOpen
    <3>1. /\ Dispatcher!Dispatch(Req(s))
          /\ phase'[s] = "ready" /\ UNCHANGED outcome
      BY <1>0, <1>5, <2>1, <2>3 DEF OpenStream, CallTypes
    <3> HIDE DEF Goal
    <3> QED BY <1>3, <2>1, <2>2, <3>1
  <2>4. CASE ~isOpen
    BY <1>1, <1>5, <2>4 DEF OpenStream
  <2> QED BY <2>3, <2>4
<1>6. ASSUME NEW s \in Streams, ResumeStream(s)
      PROVE  Goal
  <2>1. s \in Call /\ StreamReq(s) \in Request
    BY RequestsAreTyped DEF Call
  <2>2. phase[s] = "waiting" /\ Advance(s, Head(partQueues[s]))
    BY <1>6 DEF ResumeStream
  <2>3. \/ UNCHANGED dispatcherVars
        \/ Dispatcher!Dispatch(StreamReq(s)) /\ UNCHANGED <<phase, outcome>>
    BY <2>2 DEF Advance
  <2> HIDE DEF Goal
  <2> QED BY <1>1, <1>3, <2>1, <2>2, <2>3
<1>7. ASSUME TimerFires
      PROVE  Goal
  <2>1. Dispatcher!TimerFires /\ UNCHANGED submitted
    BY <1>7 DEF TimerFires, Dispatcher!TimerFires
  <2> QED BY <1>0, <2>1, DispatcherKeeps, WrittenGrows
<1> HIDE DEF Goal
<1>8. UserStep => Goal
  <2>1. UserClose => Dispatcher!Close
    BY DEF UserClose, CloseStream
  <2>2. TransmitterClose => Dispatcher!Close \/ UNCHANGED dispatcherVars
    BY DEF TransmitterClose
  <2>3. \A s \in Streams : Pull(s) \/ Reiterate(s) => UNCHANGED dispatcherVars
    BY DEF Pull, Reiterate
  <2> QED BY <1>1, <1>2, <1>4, <1>5, <2>1, <2>2, <2>3 DEF UserStep
<1>9. ClientStep => Goal
  <2>1. WriteErrorEvent \/ DoneEvent \/ (\E r \in Commits : CommitCloses(r))
           => Dispatcher!Close
    BY DEF WriteErrorEvent, DoneEvent, CommitCloses, CloseStream
  <2>2. DataEvent \/ (\E r \in Singles : ResumeSingle(r)) => UNCHANGED dispatcherVars
    BY DEF DataEvent, ResumeSingle
  <2> QED BY <1>1, <1>2, <1>6, <1>7, <2>1, <2>2 DEF ClientStep
<1>10. ErrorEvent => Dispatcher!Close
  BY DEF ErrorEvent, CloseStream
<1>11. ServerStep \/ ServerEnds => UNCHANGED dispatcherVars
  BY DEF ServerStep, ServerReceives, ServerAnswers, ServerStreams, ServerEnds, clientVars
<1> QED BY <1>1, <1>2, <1>8, <1>9, <1>10, <1>11 DEF Next, Goal

LEMMA KindsOfParts ==
  \A v \in PartReplies : v.kind \in {"part", "continue", "done"}
<1>1. SUFFICES ASSUME NEW v \in PartReplies
               PROVE  v.kind \in {"part", "continue", "done"}
  OBVIOUS
<1>2. CASE v \in {Control("continue"), Control("done")}
  BY <1>2 DEF Control
<1>3. CASE \E n \in 1 .. MaxParts : v = PartReply(n)
  BY <1>3 DEF PartReply
<1> QED BY <1>1, <1>2, <1>3 DEF PartReplies

(***************************************************************************)
(* What a call takes from its queue.                                       *)
(***************************************************************************)
LEMMA TakenBySingle ==
  ASSUME TypeOK, NEW r \in Singles, resQueues[r] # <<>>
  PROVE  /\ Head(resQueues[r]) \in Elements(QueueOf(r))
         /\ Head(resQueues[r]).done => Head(resQueues[r]).error \in Cause
         /\ ~Head(resQueues[r]).done => Answers(Head(resQueues[r]))
<1> DEFINE e == Head(resQueues[r])
<1>1. e \in Res!Element /\ e \in Elements(QueueOf(r))
  BY TypeParts, ElementsOf DEF Res!TypeOK, QueueOf
<1> HIDE DEF e
<1>2. ~e.done => Answers(e)
  <2>1. ~e.done => e.value \in ResReplies
    BY <1>1 DEF Res!Element
  <2>2. ~e.done => e.value.kind = "res"
    BY <2>1, RepliesAreTyped, Zenon
  <2> QED BY <2>2, Zenon DEF Answers, Final
<1>3. e.done => e.error \in Cause
  BY <1>1, ElementsAreTyped
<1> QED BY <1>1, <1>2, <1>3 DEF e

LEMMA TakenByStream ==
  ASSUME TypeOK, NEW s \in Streams, partQueues[s] # <<>>
  PROVE  /\ Head(partQueues[s]) \in Elements(QueueOf(s))
         /\ Head(partQueues[s]).done => Head(partQueues[s]).error \in Cause
         /\ ~Head(partQueues[s]).done /\ KindOf(Head(partQueues[s])) \in {"done", "closing"}
               => Answers(Head(partQueues[s]))
<1> DEFINE e == Head(partQueues[s])
<1>0. s \notin Singles
  BY CallsAreDistinct DEF Singles
<1>1. e \in Part!Element /\ e \in Elements(QueueOf(s))
  BY <1>0, TypeParts, ElementsOf DEF Part!TypeOK, QueueOf
<1> HIDE DEF e
<1>2. ~e.done /\ KindOf(e) \in {"done", "closing"} => Answers(e)
  <2>1. ~e.done => e.value.kind # "closing"
    BY <1>1, ElementsAreTyped, KindsOfParts
  <2>2. ~e.done => KindOf(e) = e.value.kind
    BY Zenon DEF KindOf
  <2>3. ~e.done /\ KindOf(e) \in {"done", "closing"} => e.value.kind = "done"
    BY <2>1, <2>2
  <2> QED BY <2>3, Zenon DEF Answers, Final
<1>3. e.done => e.error \in Cause
  BY <1>1, ElementsAreTyped
<1> QED BY <1>1, <1>2, <1>3 DEF e

(***************************************************************************)
(* A call that was made stays made; it is refused only when it is made,    *)
(* while the transaction is closed; it is answered only with the final     *)
(* reply of the server.                                                    *)
(***************************************************************************)
LEMMA CallSteps ==
  ASSUME TypeOK, InTurn, Next, NEW x \in Call
  PROVE  /\ phase[x] # "idle" => phase'[x] # "idle"
         /\ phase[x] # "idle" /\ outcome[x] # "refused" => outcome'[x] # "refused"
         /\ outcome[x] # "none" => outcome'[x] = outcome[x]
         /\ phase'[x] = "idle" => UNCHANGED <<phase[x], outcome[x]>>
         /\ outcome'[x] = "refused" => phase'[x] \in {"settling", "settled"}
         /\ outcome'[x] = "answered" =>
               \/ outcome[x] = "answered"
               \/ \E e \in Elements(QueueOf(x)) : Answers(e)
<1>0. /\ CallTypes /\ Res!TypeOK /\ Part!TypeOK
      /\ phase[x] = "idle" => outcome[x] = "none"
      /\ outcome[x] = "refused" => phase[x] \in {"settling", "settled"}
  BY TypeParts DEF InTurn
<1> DEFINE Goal ==
      /\ phase[x] # "idle" => phase'[x] # "idle"
      /\ phase[x] # "idle" /\ outcome[x] # "refused" => outcome'[x] # "refused"
      /\ outcome[x] # "none" => outcome'[x] = outcome[x]
      /\ phase'[x] = "idle" => UNCHANGED <<phase[x], outcome[x]>>
      /\ outcome'[x] = "refused" => phase'[x] \in {"settling", "settled"}
      /\ outcome'[x] = "answered" =>
            \/ outcome[x] = "answered"
            \/ \E e \in Elements(QueueOf(x)) : Answers(e)
<1>1. ASSUME UNCHANGED <<phase, outcome>>
      PROVE  Goal
  BY <1>0, <1>1
<1>2. ASSUME NEW r \in Singles, Execute(r)
      PROVE  Goal
  <2>0. r \in Call /\ phase[r] = "idle"
    BY <1>2 DEF Execute, Call
  <2>1. CASE phase' = [phase EXCEPT ![r] = "waiting"] /\ UNCHANGED outcome
    BY <1>0, <2>0, <2>1 DEF CallTypes
  <2>2. CASE /\ outcome' = [outcome EXCEPT ![r] = "refused"]
             /\ phase' = [phase EXCEPT
                            ![r] = IF r \in Commits THEN "settling" ELSE "settled"]
    BY <1>0, <2>0, <2>2 DEF CallTypes
  <2> QED BY <1>2, <2>1, <2>2 DEF Execute
<1>3. ASSUME NEW s \in Streams, OpenStream(s)
      PROVE  Goal
  <2>0. s \in Call /\ phase[s] = "idle"
    BY <1>3 DEF OpenStream, Call
  <2>1. CASE phase' = [phase EXCEPT ![s] = "ready"] /\ UNCHANGED outcome
    BY <1>0, <2>0, <2>1 DEF CallTypes
  <2>2. CASE /\ outcome' = [outcome EXCEPT ![s] = "refused"]
             /\ phase' = [phase EXCEPT ![s] = "settled"]
    BY <1>0, <2>0, <2>2 DEF CallTypes
  <2> QED BY <1>3, <2>1, <2>2 DEF OpenStream
<1>4. ASSUME NEW s \in Streams, Pull(s) \/ Reiterate(s)
      PROVE  Goal
  <2>1. /\ s \in Call /\ phase[s] # "idle" /\ phase' = [phase EXCEPT ![s] = "waiting"]
        /\ outcome[s] # "refused" /\ UNCHANGED outcome
    BY <1>0, <1>4 DEF Pull, Reiterate, Call, InTurn
  <2> QED BY <1>0, <2>1 DEF CallTypes
<1>5. ASSUME NEW r \in Call, NEW how, phase[r] = "waiting", Settle(r, how),
             phase'[r] \in {"settling", "settled"},
             \A y \in Call \ {r} : phase'[y] = phase[y],
             how # "refused",
             how = "answered" => \E e \in Elements(QueueOf(r)) : Answers(e)
      PROVE  Goal
  <2>1. outcome' = [outcome EXCEPT ![r] = IF @ = "none" THEN how ELSE @]
    BY <1>5 DEF Settle
  <2> QED BY <1>0, <1>5, <2>1 DEF CallTypes
<1>6. ASSUME NEW r \in Singles, ResumeSingle(r)
      PROVE  Goal
  <2> DEFINE e == Head(resQueues[r])
             how == IF e.done THEN e.error ELSE "answered"
  <2>1. /\ r \in Call /\ phase[r] = "waiting" /\ Settle(r, how) /\ resQueues[r] # <<>>
        /\ phase' = [phase EXCEPT
                       ![r] = IF r \in Commits THEN "settling" ELSE "settled"]
    BY <1>6 DEF ResumeSingle, Res!Take, Call
  <2>2. /\ e \in Elements(QueueOf(r)) /\ (~e.done => Answers(e))
        /\ e.done => e.error \in Cause
    BY <2>1, TakenBySingle
  <2> HIDE DEF e
  <2>3. how # "refused" /\ (how = "answered" => ~e.done)
    BY <2>2 DEF Cause
  <2>4. /\ phase'[r] \in {"settling", "settled"}
        /\ \A y \in Call \ {r} : phase'[y] = phase[y]
    BY <1>0, <2>1 DEF CallTypes
  <2> HIDE DEF how, Goal
  <2> QED BY <1>5, <2>1, <2>2, <2>3, <2>4
<1>7. ASSUME NEW r \in Commits, CommitCloses(r)
      PROVE  Goal
  <2>1. /\ phase[r] = "settling" /\ r \in Call /\ UNCHANGED outcome
        /\ phase' = [phase EXCEPT ![r] = "settled"]
    BY <1>7 DEF CommitCloses, Call, Singles
  <2> QED BY <1>0, <2>1 DEF CallTypes
<1>8. ASSUME NEW s \in Streams, ResumeStream(s)
      PROVE  Goal
  <2> DEFINE e == Head(partQueues[s])
             how == IF e.done THEN e.error ELSE "answered"
  <2>1. /\ s \in Call /\ s \notin Singles /\ phase[s] = "waiting" /\ Advance(s, e)
        /\ partQueues[s] # <<>>
    BY <1>8, CallsAreDistinct DEF ResumeStream, Part!Take, Call, Singles
  <2>2. /\ e \in Elements(QueueOf(s))
        /\ e.done => e.error \in Cause
        /\ ~e.done /\ KindOf(e) \in {"done", "closing"} => Answers(e)
    BY <2>1, TakenByStream
  <2> HIDE DEF e
  <2>3. CASE phase' = [phase EXCEPT ![s] = "ready"] /\ UNCHANGED outcome
    BY <1>0, <2>1, <2>3 DEF CallTypes
  <2>4. CASE /\ KindOf(e) \in {"done", "closing"}
             /\ Settle(s, how)
             /\ phase' = [phase EXCEPT ![s] = "settled"]
    <3>1. how # "refused" /\ (how = "answered" => ~e.done)
      BY <2>2 DEF Cause
    <3>2. phase'[s] = "settled" /\ \A y \in Call \ {s} : phase'[y] = phase[y]
      BY <1>0, <2>1, <2>4 DEF CallTypes
    <3> HIDE DEF how, Goal
    <3> QED BY <1>5, <2>1, <2>2, <2>4, <3>1, <3>2
  <2> QED BY <1>1, <2>1, <2>3, <2>4 DEF Advance
<1> HIDE DEF Goal
<1>9. UserStep => Goal
  <2>1. UserClose \/ TransmitterClose => UNCHANGED <<phase, outcome>>
    BY DEF UserClose, TransmitterClose, callVars
  <2> QED BY <1>1, <1>2, <1>3, <1>4, <2>1 DEF UserStep
<1>10. ClientStep => Goal
  <2>1. TimerFires \/ DataEvent \/ WriteErrorEvent \/ DoneEvent
           => UNCHANGED <<phase, outcome>>
    BY DEF TimerFires, DataEvent, WriteErrorEvent, DoneEvent, callVars
  <2> QED BY <1>1, <1>6, <1>7, <1>8, <2>1 DEF ClientStep
<1>11. ServerStep \/ ErrorEvent \/ ServerEnds => UNCHANGED <<phase, outcome>>
  BY DEF ServerStep, ServerReceives, ServerAnswers, ServerStreams, ErrorEvent,
         ServerEnds, clientVars, callVars
<1> QED BY <1>1, <1>9, <1>10, <1>11 DEF Next, Goal

LEMMA ReceivedSteps ==
  ASSUME TypeOK, Requested, Next
  PROVE  received' \in Nat /\ received' <= Len(written)
<1>0. received \in Nat /\ received <= Len(written) /\ Len(written) \in Nat
  BY TypeParts, LenProperties DEF ServerTypes, Requested, Dispatcher!TypeOK
<1>1. \/ received' = received
      \/ received < Len(written) /\ received' = received + 1
  BY DEF Next, UserStep, Execute, OpenStream, Pull, Reiterate, UserClose,
         TransmitterClose, ClientStep, ResumeSingle, CommitCloses, ResumeStream,
         TimerFires, DataEvent, WriteErrorEvent, DoneEvent, ServerStep, ServerReceives,
         ServerAnswers, ServerStreams, ErrorEvent, ServerEnds, serverVars
<1> QED BY <1>0, <1>1

(***************************************************************************)
(* What the server has replied in full it does not reply to again: it      *)
(* takes the request of a call once, and one for more only while it waits  *)
(* for it.  So what it knows of a call and what it has done stay.          *)
(***************************************************************************)
LEMMA ServerSteps ==
  ASSUME TypeOK, Dispatcher!IInv, Requested, Next, NEW x \in Call
  PROVE  /\ server[x] # "none" => server'[x] # "none"
         /\ server[x] = "done" => server'[x] = "done"
         /\ server'[x] # "none" => \/ server[x] # "none" /\ received' >= received
                                   \/ /\ received' = received + 1
                                      /\ received' <= Len(written)
                                      /\ written[received'] = Req(x)
<1>0. /\ received \in Nat /\ received <= Len(written)
      /\ server \in [Call -> {"none", "working", "paused", "done"}]
      /\ Len(written) \in Nat /\ written \in Seq(Request)
  BY TypeParts, LenProperties DEF ServerTypes, Requested, Dispatcher!TypeOK
<1>1. CASE UNCHANGED serverVars
  BY <1>0, <1>1 DEF serverVars
<1>2. CASE ServerReceives
  <2> DEFINE m == written[received + 1]
  <2>1. /\ received' = received + 1 /\ received' <= Len(written)
        /\ m \in Request /\ UNCHANGED written
    BY <1>0, <1>2 DEF ServerReceives, clientVars, dispatcherVars
  <2>2. \/ /\ ~m.more \/ server[m.id] = "paused"
           /\ server' = [server EXCEPT ![m.id] = "working"]
        \/ UNCHANGED server
    BY <1>2, <2>1 DEF ServerReceives
  <2> HIDE DEF m
  <2>3. m.id \in Call /\ (~m.more => m = Req(m.id))
    BY <2>1 DEF Request, Req
  <2>4. ASSUME ~m.more
        PROVE  server[m.id] = "none"
    <3>1. SUFFICES ASSUME server[m.id] # "none"
                   PROVE  FALSE
      OBVIOUS
    <3>2. PICK i \in 1 .. received : written[i] = Req(m.id)
      BY <2>3, <3>1 DEF Requested
    <3>3. /\ i \in DOMAIN submitted /\ received + 1 \in DOMAIN submitted
          /\ submitted[i] = m /\ submitted[received + 1] = m
      BY <1>0, <2>1, <2>3, <2>4, <3>2, WrittenIsPrefix DEF m
    <3>4. i = received + 1
      BY <2>4, <3>3 DEF Requested
    <3> QED BY <1>0, <3>4
  <2>5. CASE ~m.more /\ server' = [server EXCEPT ![m.id] = "working"]
    BY <1>0, <2>1, <2>3, <2>4, <2>5 DEF m
  <2>6. CASE server[m.id] = "paused" /\ server' = [server EXCEPT ![m.id] = "working"]
    BY <1>0, <2>1, <2>3, <2>6
  <2>7. CASE UNCHANGED server
    BY <1>0, <2>1, <2>7
  <2> QED BY <2>2, <2>5, <2>6, <2>7
<1>3. ASSUME NEW r \in Call, server[r] = "working", UNCHANGED received,
             \/ UNCHANGED server
             \/ server' = [server EXCEPT ![r] = "paused"]
             \/ server' = [server EXCEPT ![r] = "done"]
      PROVE  /\ server[x] # "none" => server'[x] # "none"
             /\ server[x] = "done" => server'[x] = "done"
             /\ server'[x] # "none" => server[x] # "none"
  BY <1>0, <1>3
<1>4. CASE \E r \in Singles : ServerAnswers(r)
  BY <1>0, <1>3, <1>4 DEF ServerAnswers, ServerSends, Call
<1>5. CASE \E s \in Streams : ServerStreams(s)
  BY <1>0, <1>3, <1>5 DEF ServerStreams, ServerSends, Call
<1>6. UserStep => UNCHANGED serverVars
  BY DEF UserStep, Execute, OpenStream, Pull, Reiterate, UserClose, TransmitterClose
<1>7. ClientStep => UNCHANGED serverVars
  BY DEF ClientStep, ResumeSingle, CommitCloses, ResumeStream, TimerFires, DataEvent,
         WriteErrorEvent, DoneEvent
<1>8. ErrorEvent \/ ServerEnds => UNCHANGED serverVars
  BY DEF ErrorEvent, ServerEnds
<1> QED BY <1>1, <1>2, <1>4, <1>5, <1>6, <1>7, <1>8 DEF Next, ServerStep

(***************************************************************************)
(* What the server sends it means: a final reply is its last.              *)
(***************************************************************************)
LEMMA InboxSteps ==
  ASSUME TypeOK, Next, NEW m \in Elements(inbox')
  PROVE  m \in Elements(inbox) \/ Meant(m)'
<1>0. inbox \in Seq(Message) /\ server \in [Call -> {"none", "working", "paused", "done"}]
  BY TypeParts DEF ServerTypes
<1>1. CASE inbox' = inbox
  BY <1>1
<1>2. CASE DataEvent
  BY <1>0, <1>2, ElementsOf DEF DataEvent
<1>3. CASE ErrorEvent
  BY <1>3 DEF ErrorEvent, Elements
<1>4. ASSUME NEW r \in Call, NEW reply \in ResReplies \cup PartReplies,
             ServerSends(r, reply),
             Meant([id |-> r, reply |-> reply])'
      PROVE  m \in Elements(inbox) \/ Meant(m)'
  <2>1. [id |-> r, reply |-> reply] \in Message
    BY DEF Message
  <2>2. Elements(inbox') = Elements(inbox) \cup {[id |-> r, reply |-> reply]}
    BY <1>0, <1>4, <2>1, ElementsOf DEF ServerSends
  <2> QED BY <1>4, <2>2
<1>5. ASSUME NEW r \in Singles, ServerAnswers(r)
      PROVE  m \in Elements(inbox) \/ Meant(m)'
  <2>1. r \in Call /\ ServerSends(r, Control("res")) /\ server'[r] = "done"
    BY <1>0, <1>5 DEF ServerAnswers, Call
  <2>2. Meant([id |-> r, reply |-> Control("res")])'
    BY <2>1 DEF Meant, Control
  <2> QED BY <1>4, <2>1, <2>2, RepliesAreTyped
<1>6. ASSUME NEW s \in Streams, ServerStreams(s)
      PROVE  m \in Elements(inbox) \/ Meant(m)'
  <2>0. s \in Call /\ s \notin Singles
    BY CallsAreDistinct DEF Call, Singles
  <2>1. CASE /\ produced[s] < MaxParts /\ ServerSends(s, PartReply(produced[s] + 1))
             /\ UNCHANGED server
    <3>1. PICK n \in 1 .. MaxParts : n = produced[s] + 1
      BY <2>1, PortionIsPositive, TypeParts DEF ServerTypes
    <3>2. ServerSends(s, PartReply(n)) /\ PartReply(n) \in PartReplies
      BY <2>1, <3>1, RepliesAreTyped
    <3>3. Meant([id |-> s, reply |-> PartReply(n)])'
      BY <2>0, <2>1, <3>2 DEF Meant, PartReply, ServerSends, Final
    <3> QED BY <1>4, <2>0, <3>2, <3>3
  <2>2. CASE /\ ServerSends(s, Control("continue"))
             /\ server' = [server EXCEPT ![s] = "paused"]
    <3>1. Meant([id |-> s, reply |-> Control("continue")])'
      BY <1>0, <2>0, <2>2 DEF Meant, Control, Final
    <3> QED BY <1>4, <2>0, <2>2, <3>1, RepliesAreTyped
  <2>3. CASE /\ ServerSends(s, Control("done"))
             /\ server' = [server EXCEPT ![s] = "done"]
    <3>1. Meant([id |-> s, reply |-> Control("done")])'
      BY <1>0, <2>0, <2>3 DEF Meant, Control
    <3> QED BY <1>4, <2>0, <2>3, <3>1, RepliesAreTyped
  <2> QED BY <1>6, <2>1, <2>2, <2>3 DEF ServerStreams
<1>7. UserStep => inbox' = inbox
  BY DEF UserStep, Execute, OpenStream, Pull, Reiterate, UserClose, TransmitterClose,
         networkVars
<1>8. ClientStep => inbox' = inbox \/ DataEvent
  BY DEF ClientStep, ResumeSingle, CommitCloses, ResumeStream, TimerFires,
         WriteErrorEvent, DoneEvent, networkVars
<1>9. ServerReceives \/ ServerEnds => inbox' = inbox
  BY DEF ServerReceives, ServerEnds
<1> QED BY <1>1, <1>2, <1>3, <1>5, <1>6, <1>7, <1>8, <1>9 DEF Next, ServerStep

(***************************************************************************)
(* A closed transaction stays closed and its stream ended; a commit()      *)
(* returns by closing it.                                                  *)
(***************************************************************************)
LEMMA ClosingSteps ==
  ASSUME TypeOK, Next
  PROVE  /\ isOpen' => isOpen
         /\ ended => ended'
         /\ isOpen' = isOpen \/ ended'
         /\ \A r \in Commits : phase'[r] = "settled" => phase[r] = "settled" \/ ~isOpen'
<1>0. CallTypes /\ ControlTypes /\ Commits \subseteq Call /\ Commits \cap Streams = {}
  BY TypeParts, CallsAreDistinct DEF Call, Singles
<1> DEFINE Goal == /\ isOpen' => isOpen
                   /\ ended => ended'
                   /\ isOpen' = isOpen \/ ended'
                   /\ \A r \in Commits :
                         phase'[r] = "settled" => phase[r] = "settled" \/ ~isOpen'
<1>1. ASSUME isOpen' = FALSE, Dispatcher!Close
      PROVE  Goal
  BY <1>1 DEF Dispatcher!Close
<1>2. ASSUME UNCHANGED isOpen, ended => ended',
             \A r \in Commits : phase'[r] = "settled" => phase[r] = "settled" \/ ~isOpen'
      PROVE  Goal
  BY <1>2
<1>3. ASSUME NEW r \in Singles, Execute(r)
      PROVE  Goal
  <2>1. UNCHANGED isOpen /\ UNCHANGED ended
    BY <1>3 DEF Execute, Dispatcher!Dispatch, Dispatcher!DispatchNow, dispatcherVars
  <2>2. r \in Call
    BY DEF Call
  <2>3. \A c \in Commits : phase'[c] = "settled" => phase[c] = "settled" \/ ~isOpen'
    BY <1>0, <1>3, <2>2 DEF Execute, CallTypes
  <2> QED BY <1>2, <2>1, <2>3
<1>4. ASSUME NEW s \in Streams, OpenStream(s) \/ Pull(s) \/ Reiterate(s) \/ ResumeStream(s)
      PROVE  Goal
  <2>1. UNCHANGED isOpen /\ UNCHANGED ended
    BY <1>4 DEF OpenStream, Pull, Reiterate, ResumeStream, Advance, Dispatcher!Dispatch,
                dispatcherVars
  <2>2. \A c \in Commits : phase'[c] = phase[c]
    BY <1>0, <1>4 DEF OpenStream, Pull, Reiterate, ResumeStream, Advance, CallTypes
  <2> QED BY <1>2, <2>1, <2>2
<1>5. ASSUME NEW r \in Singles, ResumeSingle(r)
      PROVE  Goal
  <2>1. UNCHANGED isOpen /\ UNCHANGED ended
    BY <1>5 DEF ResumeSingle, dispatcherVars
  <2>2. \A c \in Commits : phase'[c] = "settled" => phase[c] = "settled"
    BY <1>0, <1>5 DEF ResumeSingle, CallTypes
  <2> QED BY <1>2, <2>1, <2>2
<1>6. UserClose \/ WriteErrorEvent \/ DoneEvent \/ ErrorEvent \/ (\E r \in Commits : CommitCloses(r))
         => isOpen' = FALSE /\ Dispatcher!Close
  BY DEF UserClose, WriteErrorEvent, DoneEvent, ErrorEvent, CommitCloses, CloseStream
<1>7. ASSUME TransmitterClose \/ TimerFires \/ DataEvent \/ ServerStep \/ ServerEnds
      PROVE  Goal
  <2>1. UNCHANGED <<isOpen, phase>>
    BY <1>7 DEF TransmitterClose, TimerFires, DataEvent, ServerStep, ServerReceives,
                ServerAnswers, ServerStreams, ServerEnds, clientVars, callVars
  <2>2. ended => ended'
    BY <1>7 DEF TransmitterClose, TimerFires, DataEvent, ServerStep, ServerReceives,
                ServerAnswers, ServerStreams, ServerEnds, clientVars, dispatcherVars,
                Dispatcher!TimerFires, Dispatcher!Close
  <2> QED BY <1>2, <2>1, <2>2
<1> HIDE DEF Goal
<1> QED BY <1>1, <1>3, <1>4, <1>5, <1>6, <1>7 DEF Next, UserStep, ClientStep, Goal

-----------------------------------------------------------------------------
(* The invariant is inductive *)

LEMMA RequestedNext ==
  ASSUME TypeOK, Dispatcher!IInv, Requested, InTurn, Next
  PROVE  Requested'
<1>0. /\ submitted \in Seq(Request) /\ submitted' \in Seq(Request)
      /\ DOMAIN submitted = 1 .. Len(submitted) /\ Len(submitted) \in Nat
      /\ \A i \in DOMAIN submitted : submitted[i].id \in Call
  <2>1. submitted \in Seq(Request) /\ submitted' \in Seq(Request)
    BY WireSteps DEF Dispatcher!IInv, Dispatcher!TypeOK
  <2>2. DOMAIN submitted = 1 .. Len(submitted) /\ Len(submitted) \in Nat
    BY <2>1, LenProperties
  <2>3. ASSUME NEW i \in DOMAIN submitted
        PROVE  submitted[i].id \in Call
    <3>1. submitted[i] \in Request
      BY <2>1, <2>2
    <3> QED BY <3>1 DEF Request
  <2> QED BY <2>1, <2>2, <2>3
<1>1. received' <= Len(written')
  <2>1. Len(written) \in Nat /\ Len(written') \in Nat
    BY WireSteps, LenProperties DEF Dispatcher!IInv, Dispatcher!TypeOK
  <2> QED BY <2>1, ReceivedSteps, WireSteps DEF Grows
<1>2. ASSUME UNCHANGED submitted
      PROVE  /\ \A i \in DOMAIN submitted' : /\ phase'[submitted'[i].id] # "idle"
                                              /\ outcome'[submitted'[i].id] # "refused"
             /\ \A i, j \in DOMAIN submitted' :
                   submitted'[i] = submitted'[j] /\ ~submitted'[i].more => i = j
  BY <1>0, <1>2, CallSteps DEF Requested
<1>3. ASSUME NEW q \in Request, Submits(q)
      PROVE  /\ \A i \in DOMAIN submitted' : /\ phase'[submitted'[i].id] # "idle"
                                              /\ outcome'[submitted'[i].id] # "refused"
             /\ \A i, j \in DOMAIN submitted' :
                   submitted'[i] = submitted'[j] /\ ~submitted'[i].more => i = j
  <2>1. PICK r \in Call :
           \/ q = Req(r) /\ phase[r] = "idle" /\ phase'[r] # "idle" /\ outcome'[r] = outcome[r]
           \/ q = StreamReq(r) /\ phase[r] = "waiting" /\ UNCHANGED <<phase, outcome>>
    BY <1>3, Zenon DEF Submits
  <2>2. /\ q.id = r /\ phase'[r] # "idle" /\ outcome'[r] # "refused"
        /\ ~q.more => phase[r] = "idle"
    BY <2>1 DEF InTurn, Req, StreamReq
  <2>3. /\ DOMAIN submitted' = 1 .. Len(submitted) + 1
        /\ \A i \in DOMAIN submitted : submitted'[i] = submitted[i]
        /\ submitted'[Len(submitted) + 1] = q
    BY <1>0, <1>3, AppendProperties, LenProperties DEF Submits
  <2> DEFINE last == Len(submitted) + 1
  <2>4. \A i \in DOMAIN submitted' : i \in DOMAIN submitted \/ i = last
    BY <1>0, <2>3
  <2>5. ASSUME NEW i \in DOMAIN submitted
        PROVE  /\ phase'[submitted[i].id] # "idle" /\ outcome'[submitted[i].id] # "refused"
               /\ submitted[i] = q => q.more
    BY <1>0, <2>2, CallSteps DEF Requested
  <2>6. \A i \in DOMAIN submitted' : /\ phase'[submitted'[i].id] # "idle"
                                     /\ outcome'[submitted'[i].id] # "refused"
    BY <2>2, <2>3, <2>4, <2>5
  <2>7. ASSUME NEW i \in DOMAIN submitted', NEW j \in DOMAIN submitted',
               submitted'[i] = submitted'[j], ~submitted'[i].more
        PROVE  i = j
    <3> HIDE DEF last
    <3>1. i = last => j = last
      BY <2>3, <2>4, <2>5, <2>7 DEF last
    <3>2. j = last => i = last
      BY <2>3, <2>4, <2>5, <2>7 DEF last
    <3>3. i \in DOMAIN submitted /\ j \in DOMAIN submitted => i = j
      BY <2>3, <2>7 DEF Requested
    <3> QED BY <2>4, <3>1, <3>2, <3>3
  <2> QED BY <2>6, <2>7
<1>4. ASSUME NEW r \in Call, server'[r] # "none"
      PROVE  \E i \in 1 .. received' : written'[i] = Req(r)
  <2>1. /\ received \in Nat /\ received' \in Nat /\ Len(written) \in Nat
        /\ received <= Len(written) /\ received' <= Len(written)
        /\ \A i \in 1 .. Len(written) : written'[i] = written[i]
    BY ReceivedSteps, WireSteps, TypeParts, LenProperties
       DEF Requested, Grows, ServerTypes, Dispatcher!TypeOK
  <2>2. CASE server[r] # "none" /\ received' >= received
    BY <2>1, <2>2 DEF Requested
  <2>3. CASE received' = received + 1 /\ written[received'] = Req(r)
    BY <2>1, <2>3
  <2> QED BY <1>4, <2>2, <2>3, ServerSteps
<1>5. /\ \A i \in DOMAIN submitted' : /\ phase'[submitted'[i].id] # "idle"
                                     /\ outcome'[submitted'[i].id] # "refused"
      /\ \A i, j \in DOMAIN submitted' :
            submitted'[i] = submitted'[j] /\ ~submitted'[i].more => i = j
  BY <1>2, <1>3, WireSteps
<1> QED BY <1>1, <1>4, <1>5 DEF Requested

LEMMA RepliedNext ==
  ASSUME TypeOK, Dispatcher!IInv, Requested, Replied, InTurn, Next
  PROVE  Replied'
<1>0. inbox \in Seq(Message) /\ Elements(inbox) \subseteq Message
  <2>1. inbox \in Seq(Message)
    BY TypeParts DEF ServerTypes
  <2> QED BY <2>1, ElementsOf
<1>1. ASSUME NEW m \in Elements(inbox)'
      PROVE  Meant(m)'
  <2>1. CASE m \in Elements(inbox)
    <3>1. Meant(m) /\ m.id \in Call
      BY <1>0, <2>1, ElementsOf DEF Replied, Message
    <3> QED BY <3>1, ServerSteps DEF Meant
  <2> QED BY <1>1, <2>1, InboxSteps DEF Elements
<1>2. ASSUME NEW x \in Call, NEW e \in Elements(QueueOf(x))', Answers(e)
      PROVE  server'[x] = "done"
  <2>1. CASE e \in Elements(QueueOf(x))
    BY <1>2, <2>1, ServerSteps DEF Replied
  <2>2. CASE Arrived(x, e)
    <3>1. Head(inbox) \in Elements(inbox)
      BY <1>0, <2>2, ElementsOf DEF Arrived
    <3>2. Meant(Head(inbox)) /\ Head(inbox).reply.kind \in Final
      BY <1>2, <2>2, <3>1 DEF Replied, Arrived, Answers
    <3>3. server[x] = "done"
      BY <2>2, <3>2 DEF Meant, Arrived
    <3> QED BY <3>3, ServerSteps
  <2> QED BY <1>2, <2>1, <2>2, QueueSteps DEF Answers, Elements
<1>3. ASSUME NEW x \in Call, outcome'[x] = "answered"
      PROVE  server'[x] = "done"
  BY <1>3, CallSteps, ServerSteps DEF Replied
<1> QED BY <1>1, <1>2, <1>3 DEF Replied

LEMMA InTurnNext ==
  ASSUME TypeOK, InTurn, Next
  PROVE  InTurn'
<1>1. \A r \in Call : /\ phase'[r] = "idle" => outcome'[r] = "none"
                      /\ outcome'[r] = "refused" => phase'[r] \in {"settling", "settled"}
  BY CallSteps DEF InTurn
<1>2. ~isOpen' => ended'
  BY ClosingSteps DEF InTurn
<1>3. \A r \in Commits : phase'[r] = "settled" => ~isOpen'
  BY ClosingSteps DEF InTurn
<1> QED BY <1>1, <1>2, <1>3 DEF InTurn

(***************************************************************************)
(* The response that arrives is one the server meant for a call it knows;  *)
(* the call was made; so it is registered while the transaction is open.   *)
(***************************************************************************)
LEMMA UncaughtNext ==
  ASSUME ReplyInv, Next
  PROVE  NoUncaught'
<1>0. /\ TypeOK /\ Registered /\ Requested /\ Replied /\ NoUncaught
      /\ inbox \in Seq(Message) /\ Dispatcher!IInv
  BY TypeParts DEF ReplyInv, CloseInv, ServerTypes
<1>1. CASE UNCHANGED uncaught
  BY <1>0, <1>1 DEF NoUncaught
<1>2. ASSUME isOpen, inbox # <<>>, Collect(Head(inbox))
      PROVE  NoUncaught'
  <2> DEFINE m == Head(inbox)
  <2>1. m \in Elements(inbox) /\ m \in Message
    BY <1>0, <1>2, ElementsOf
  <2>2. Meant(m) /\ m.id \in Call
    BY <1>0, <2>1 DEF Replied, Message
  <2>3. PICK i \in 1 .. received : written[i] = Req(m.id)
    BY <1>0, <2>2 DEF Requested, Meant
  <2>4. i \in DOMAIN submitted /\ submitted[i] = Req(m.id)
    BY <1>0, <2>3, WrittenIsPrefix, TypeParts DEF Requested, ServerTypes
  <2>5. phase[m.id] # "idle"
    BY <1>0, <2>4 DEF Requested, Req
  <2>6. m.id \in resCollectors \cup partCollectors
    BY <1>0, <1>2, <2>2, <2>5 DEF Registered
  <2>7. resCollectors \subseteq Singles /\ partCollectors \subseteq Streams
        /\ Singles \cap Streams = {}
    BY <1>0, TypeParts, CallsAreDistinct DEF Res!TypeOK, Part!TypeOK, Singles
  <2>8. m.id \in IF m.reply.kind = "res" THEN resCollectors ELSE partCollectors
    BY <2>2, <2>6, <2>7 DEF Meant
  <2> HIDE DEF m
  <2>9. Collect(m)
    BY <1>2 DEF m
  <2> QED BY <1>1, <2>8, <2>9 DEF Collect
<1>3. CASE DataEvent
  BY <1>1, <1>2, <1>3 DEF DataEvent
<1>4. UserStep => UNCHANGED uncaught
  BY DEF UserStep, Execute, OpenStream, Pull, Reiterate, UserClose, TransmitterClose
<1>5. ClientStep => UNCHANGED uncaught \/ DataEvent
  BY DEF ClientStep, ResumeSingle, CommitCloses, ResumeStream, TimerFires,
         WriteErrorEvent, DoneEvent
<1>6. ServerStep \/ ErrorEvent \/ ServerEnds => UNCHANGED uncaught
  BY DEF ServerStep, ServerReceives, ServerAnswers, ServerStreams, ErrorEvent,
         ServerEnds, clientVars
<1> QED BY <1>1, <1>3, <1>4, <1>5, <1>6 DEF Next

LEMMA InitReply == Init => ReplyInv
<1> SUFFICES ASSUME Init PROVE ReplyInv
  OBVIOUS
<1>1. CloseInv
  BY InitClose
<1>2. Dispatcher!IInv
  <2>1. Batch!Init
    BY Zenon DEF Init, Dispatcher!Init, Batch!Init
  <2> QED BY <2>1, SameInvariant, Batch!InitIInv
<1>3. Requested
  BY DEF Init, Dispatcher!Init, Requested
<1>4. Replied
  <2>1. inbox = <<>> /\ \A r \in Call : QueueOf(r) = <<>> /\ outcome[r] = "none"
    BY DEF Init, Res!Init, Part!Init, QueueOf, Call
  <2> QED BY <2>1 DEF Replied, Elements
<1>5. InTurn /\ NoUncaught
  BY DEF Init, InTurn, NoUncaught, Call, Singles
<1> QED BY <1>1, <1>2, <1>3, <1>4, <1>5 DEF ReplyInv

LEMMA StutterReply == ReplyInv /\ UNCHANGED vars => ReplyInv'
<1> SUFFICES ASSUME ReplyInv, UNCHANGED vars PROVE ReplyInv'
  OBVIOUS
<1>1. CloseInv'
  <2>1. TypeOK'
    BY StutterTypes DEF ReplyInv, CloseInv
  <2> QED BY <2>1, QuietStep DEF ReplyInv, vars, callVars
<1>2. Dispatcher!IInv'
  BY DispatcherKeeps DEF ReplyInv, vars
<1>3. Requested'
  BY DEF ReplyInv, vars, dispatcherVars, callVars, serverVars, Requested
<1>4. Replied'
  BY DEF ReplyInv, vars, collectorVars, callVars, serverVars, networkVars, Replied, Meant,
         Elements, QueueOf
<1>5. InTurn' /\ NoUncaught'
  BY DEF ReplyInv, vars, dispatcherVars, callVars, InTurn, NoUncaught
<1> QED BY <1>1, <1>2, <1>3, <1>4, <1>5 DEF ReplyInv

(***************************************************************************)
(* What was asked, what was answered and what is closed agree in every     *)
(* state of every transaction.                                             *)
(***************************************************************************)
THEOREM ReplyInvariance == Spec => []ReplyInv
<1>1. ReplyInv /\ [Next]_vars => ReplyInv'
  <2> SUFFICES ASSUME ReplyInv, Next PROVE ReplyInv'
    BY StutterReply
  <2>0. CloseInv /\ TypeOK /\ Dispatcher!IInv /\ Requested /\ Replied /\ InTurn
    BY DEF ReplyInv, CloseInv
  <2>1. CloseInv'
    <3>1. TypeOK'
      BY <2>0, UserTypes, ClientTypes, OutsideTypes, Zenon DEF Next
    <3> QED BY <2>0, <3>1, UserClosing, ClientClosing, OutsideClosing DEF Next
  <2>2. Dispatcher!IInv' /\ Requested' /\ Replied' /\ InTurn'
    BY <2>0, WireSteps, RequestedNext, RepliedNext, InTurnNext
  <2>3. NoUncaught'
    BY UncaughtNext
  <2> QED BY <2>1, <2>2, <2>3 DEF ReplyInv
<1> QED BY <1>1, InitReply, PTL DEF Spec

(***************************************************************************)
(* No response ends in an UNKNOWN_REQUEST_ID exception in the "data"       *)
(* handler: while the transaction is open its call is registered           *)
(* (BidirectionalStream.collectRes, collectResPart).                       *)
(***************************************************************************)
THEOREM EveryReplyHasAnAddressee == Spec => []NoUncaught
<1>1. ReplyInv => NoUncaught
  BY DEF ReplyInv
<1> QED BY <1>1, ReplyInvariance, PTL

(***************************************************************************)
(* commit() is answered only after everything asked for before it has been *)
(* taken by the server, and returns with the transaction closed            *)
(* (TypeDBTransactionImpl.commit).                                         *)
(***************************************************************************)
THEOREM CommitComesLast == Spec => []CommitIsLast
<1>1. ReplyInv => CommitIsLast
  <2> SUFFICES ASSUME ReplyInv, NEW r \in Commits
               PROVE  /\ outcome[r] = "answered" =>
                            \E i \in 1 .. received :
                               /\ written[i] = Req(r)
                               /\ SubSeq(written, 1, i) = SubSeq(submitted, 1, i)
                      /\ phase[r] = "settled" => ~isOpen /\ ended
    BY DEF CommitIsLast
  <2>0. /\ TypeOK /\ Dispatcher!IInv /\ Requested /\ Replied /\ InTurn
        /\ r \in Call
    BY DEF ReplyInv, CloseInv, Call, Singles
  <2>1. phase[r] = "settled" => ~isOpen /\ ended
    BY <2>0 DEF InTurn
  <2>2. ASSUME outcome[r] = "answered"
        PROVE  \E i \in 1 .. received :
                  /\ written[i] = Req(r)
                  /\ SubSeq(written, 1, i) = SubSeq(submitted, 1, i)
    <3>1. server[r] # "none"
      BY <2>0, <2>2 DEF Replied
    <3>2. PICK i \in 1 .. received : written[i] = Req(r)
      BY <2>0, <3>1 DEF Requested
    <3>3. i \in 1 .. Len(written)
      BY <2>0, <3>2, WrittenIsPrefix, TypeParts DEF Requested, ServerTypes
    <3> QED BY <2>0, <3>2, <3>3, WrittenIsPrefix
  <2> QED BY <2>1, <2>2
<1> QED BY <1>1, ReplyInvariance, PTL

-----------------------------------------------------------------------------
(* The transaction implements TransactionCalls *)

States == [r \in Call |-> CallState(r)]
HasReplied == {r \in Call : server[r] = "done"}

LEMMA CallStates ==
  ASSUME TypeOK, NEW r \in Call
  PROVE  /\ outcome[r] = "none" /\ phase[r] = "idle" => CallState(r) = "new"
         /\ outcome[r] = "none" /\ phase[r] # "idle" => CallState(r) = "pending"
         /\ outcome[r] \in {"answered", "refused"} => CallState(r) = outcome[r]
         /\ outcome[r] \in Cause => CallState(r) = "failed"
<1>1. outcome[r] \in {"none", "answered", "refused"} \cup Cause
  BY TypeParts DEF CallTypes
<1> QED BY <1>1 DEF CallState, Cause

LEMMA CallStatesNext ==
  ASSUME TypeOK', NEW r \in Call
  PROVE  /\ outcome'[r] = "none" /\ phase'[r] = "idle" => CallState(r)' = "new"
         /\ outcome'[r] = "none" /\ phase'[r] # "idle" => CallState(r)' = "pending"
         /\ outcome'[r] \in {"answered", "refused"} => CallState(r)' = outcome'[r]
         /\ outcome'[r] \in Cause => CallState(r)' = "failed"
<1>1. outcome'[r] \in {"none", "answered", "refused"} \cup Cause
  BY DEF TypeOK
<1> QED BY <1>1 DEF CallState, Cause

(***************************************************************************)
(* A step after which every call stands as before is a Close or nothing.   *)
(***************************************************************************)
LEMMA StandsAsBefore ==
  ASSUME TypeOK, TypeOK', isOpen' = isOpen \/ isOpen' = FALSE,
         \A r \in Call : /\ phase'[r] = "idle" <=> phase[r] = "idle"
                         /\ outcome'[r] = outcome[r]
                         /\ server'[r] = "done" <=> server[r] = "done"
  PROVE  [Calls!Next]_(Calls!vars)
<1>1. \A r \in Call : CallState(r)' = CallState(r)
  <2> SUFFICES ASSUME NEW r \in Call PROVE CallState(r)' = CallState(r)
    OBVIOUS
  <2>1. outcome[r] \in {"none", "answered", "refused"} \cup Cause
    BY TypeParts DEF CallTypes
  <2> QED BY <2>1, CallStates, CallStatesNext
<1>2. States' = States /\ HasReplied' = HasReplied
  BY <1>1, Zenon DEF States, HasReplied
<1>3. isOpen' = FALSE => Calls!Close
  BY <1>2 DEF Calls!Close, States, HasReplied
<1>4. isOpen' = isOpen => UNCHANGED Calls!vars
  BY <1>2 DEF Calls!vars, States, HasReplied
<1> QED BY <1>3, <1>4 DEF Calls!Next

(***************************************************************************)
(* A step that changes how one call stands.                                *)
(***************************************************************************)
Moves(r, to) ==
    /\ r \in Call
    /\ States' = [States EXCEPT ![r] = to]
    /\ isOpen' = isOpen /\ HasReplied' = HasReplied

LEMMA MovesOne ==
  ASSUME TypeOK, TypeOK', NEW r \in Call, NEW to,
         CallState(r)' = to,
         \A x \in Call \ {r} : phase'[x] = phase[x] /\ outcome'[x] = outcome[x],
         isOpen' = isOpen, server' = server
  PROVE  Moves(r, to)
<1>1. \A x \in Call \ {r} : CallState(x)' = CallState(x)
  <2> SUFFICES ASSUME NEW x \in Call \ {r} PROVE CallState(x)' = CallState(x)
    OBVIOUS
  <2>1. outcome[x] \in {"none", "answered", "refused"} \cup Cause
    BY TypeParts DEF CallTypes
  <2> QED BY <2>1, CallStates, CallStatesNext
<1>2. States' = [States EXCEPT ![r] = to]
  <2>1. States' = [x \in Call |-> CallState(x)']
    BY Zenon DEF States
  <2>2. DOMAIN States = Call /\ \A x \in Call : States[x] = CallState(x)
    BY DEF States
  <2> QED BY <1>1, <2>1, <2>2
<1> QED BY <1>2, Zenon DEF Moves, HasReplied

LEMMA MovesAreSteps ==
  ASSUME NEW r \in Call, NEW to, Moves(r, to)
  PROVE  /\ CallState(r) = "new" /\ to = (IF isOpen THEN "pending" ELSE "refused")
               => Calls!Next
         /\ CallState(r) = "pending" /\ to = "answered" /\ server[r] = "done" => Calls!Next
         /\ CallState(r) = "pending" /\ to = "failed" /\ ~isOpen => Calls!Next
<1>1. States[r] = CallState(r)
  BY DEF States
<1>2. CallState(r) = "new" /\ to = (IF isOpen THEN "pending" ELSE "refused")
         => Calls!Start(r)
  BY <1>1 DEF Calls!Start, Calls!Become, Moves, States, HasReplied
<1>3. CallState(r) = "pending" /\ to = "answered" /\ server[r] = "done" => Calls!Answer(r)
  BY <1>1 DEF Calls!Answer, Calls!Become, Moves, States, HasReplied
<1>4. CallState(r) = "pending" /\ to = "failed" /\ ~isOpen => Calls!Fail(r)
  BY <1>1 DEF Calls!Fail, Calls!Become, Moves, States, HasReplied
<1> QED BY <1>2, <1>3, <1>4 DEF Calls!Next

(***************************************************************************)
(* A call that takes a closing element, or the final reply, fails or is    *)
(* answered; one that has settled already stands as before.                *)
(***************************************************************************)
LEMMA SettlesAsPromised ==
  ASSUME ReplyInv, TypeOK', NEW r \in Call, NEW e \in Elements(QueueOf(r)),
         e.done => e.error \in Cause, ~e.done => Answers(e),
         phase[r] = "waiting", Settle(r, IF e.done THEN e.error ELSE "answered"),
         phase'[r] # "idle", \A x \in Call \ {r} : phase'[x] = phase[x],
         isOpen' = isOpen, server' = server
  PROVE  [Calls!Next]_(Calls!vars)
<1>0. /\ TypeOK /\ Registered /\ ClosedOnce /\ Replied /\ CallTypes
      /\ \A x \in Call \ {r} : outcome'[x] = outcome[x]
  BY TypeParts DEF ReplyInv, CloseInv, Settle, CallTypes
<1>1. CASE outcome[r] # "none"
  <2>1. outcome'[r] = outcome[r]
    BY <1>0, <1>1 DEF Settle, CallTypes
  <2> QED BY <1>0, <2>1, StandsAsBefore
<1>2. CASE outcome[r] = "none" /\ e.done
  <2>1. outcome'[r] = e.error
    BY <1>0, <1>2 DEF Settle, CallTypes
  <2>2. CallState(r) = "pending" /\ CallState(r)' = "failed"
    BY <1>0, <1>2, <2>1, CallStates, CallStatesNext
  <2>3. PICK i \in DOMAIN QueueOf(r) : e = QueueOf(r)[i]
    BY DEF Elements
  <2>4. cause = e.error
    BY <1>0, <1>2, <2>3 DEF ClosedOnce, IsClosing
  <2>5. ~isOpen
    BY <1>0, <1>2, <2>4 DEF Registered, Cause
  <2>6. Moves(r, "failed")
    BY <1>0, <2>2, MovesOne
  <2> QED BY <2>2, <2>5, <2>6, MovesAreSteps
<1>3. CASE outcome[r] = "none" /\ ~e.done
  <2>1. outcome'[r] = "answered"
    BY <1>0, <1>3 DEF Settle, CallTypes
  <2>2. CallState(r) = "pending" /\ CallState(r)' = "answered"
    BY <1>0, <1>3, <2>1, CallStates, CallStatesNext
  <2>3. server[r] = "done"
    BY <1>0, <1>3 DEF Replied
  <2>4. Moves(r, "answered")
    BY <1>0, <2>2, MovesOne
  <2> QED BY <2>2, <2>3, <2>4, MovesAreSteps
<1> QED BY <1>1, <1>2, <1>3

LEMMA StartsAsPromised ==
  ASSUME ReplyInv, TypeOK', NEW r \in Call, phase[r] = "idle", phase'[r] # "idle",
         \/ isOpen /\ UNCHANGED outcome
         \/ ~isOpen /\ outcome' = [outcome EXCEPT ![r] = "refused"],
         \A x \in Call \ {r} : phase'[x] = phase[x],
         isOpen' = isOpen, server' = server
  PROVE  [Calls!Next]_(Calls!vars)
<1>0. /\ TypeOK /\ CallTypes /\ outcome[r] = "none"
      /\ \A x \in Call \ {r} : outcome'[x] = outcome[x]
  BY TypeParts DEF ReplyInv, CloseInv, InTurn, CallTypes
<1>1. outcome'[r] = IF isOpen THEN "none" ELSE "refused"
  BY <1>0 DEF CallTypes
<1>2. CallState(r) = "new" /\ CallState(r)' = IF isOpen THEN "pending" ELSE "refused"
  BY <1>0, <1>1, CallStates, CallStatesNext
<1>3. Moves(r, IF isOpen THEN "pending" ELSE "refused")
  BY <1>0, <1>2, MovesOne
<1> QED BY <1>2, <1>3, MovesAreSteps

(***************************************************************************)
(* The server replies in full only to a call that is pending or has failed.*)
(***************************************************************************)
LEMMA RepliesAsPromised ==
  ASSUME ReplyInv, TypeOK', NEW r \in Call, server[r] = "working",
         server' = [server EXCEPT ![r] = "done"],
         UNCHANGED <<isOpen, phase, outcome>>
  PROVE  [Calls!Next]_(Calls!vars)
<1>0. /\ TypeOK /\ CallTypes /\ Replied /\ Requested /\ Dispatcher!IInv
      /\ server \in [Call -> {"none", "working", "paused", "done"}]
      /\ received \in Nat
  BY TypeParts DEF ReplyInv, CloseInv, ServerTypes
<1>1. phase[r] # "idle" /\ outcome[r] # "refused"
  <2>1. PICK i \in 1 .. received : written[i] = Req(r)
    BY <1>0 DEF Requested
  <2>2. i \in DOMAIN submitted /\ submitted[i] = Req(r)
    BY <1>0, <2>1, WrittenIsPrefix DEF Requested
  <2> QED BY <1>0, <2>2 DEF Requested, Req
<1>2. outcome[r] # "answered"
  BY <1>0 DEF Replied
<1>3. CallState(r) \in {"pending", "failed"}
  BY <1>0, <1>1, <1>2, CallStates DEF CallTypes
<1>4. States' = States
  <2>1. phase' = phase /\ outcome' = outcome
    OBVIOUS
  <2>2. \A x \in Call : CallState(x)' = CallState(x)
    BY <2>1 DEF CallState
  <2> QED BY <2>2, Zenon DEF States
<1>5. HasReplied' = HasReplied \cup {r}
  BY <1>0 DEF HasReplied
<1>6. States[r] = CallState(r)
  BY DEF States
<1>7. Calls!Reply(r)
  BY <1>3, <1>4, <1>5, <1>6 DEF Calls!Reply, States, HasReplied
<1> QED BY <1>7 DEF Calls!Next

LEMMA UserRefines == ReplyInv /\ TypeOK' /\ UserStep => [Calls!Next]_(Calls!vars)
<1> SUFFICES ASSUME ReplyInv, TypeOK', UserStep PROVE [Calls!Next]_(Calls!vars)
  OBVIOUS
<1>0. TypeOK /\ CallTypes /\ InTurn
  BY TypeParts DEF ReplyInv, CloseInv
<1>1. ASSUME NEW r \in Singles, Execute(r)
      PROVE  [Calls!Next]_(Calls!vars)
  <2>1. /\ r \in Call /\ phase[r] = "idle"
        /\ isOpen' = isOpen /\ server' = server
    BY <1>1 DEF Execute, Call, serverVars
  <2>2. /\ \/ isOpen /\ UNCHANGED outcome
           \/ ~isOpen /\ outcome' = [outcome EXCEPT ![r] = "refused"]
        /\ phase'[r] # "idle" /\ \A x \in Call \ {r} : phase'[x] = phase[x]
    BY <1>0, <1>1, <2>1 DEF Execute, CallTypes
  <2> QED BY <2>1, <2>2, StartsAsPromised
<1>2. ASSUME NEW s \in Streams, OpenStream(s)
      PROVE  [Calls!Next]_(Calls!vars)
  <2>1. /\ s \in Call /\ phase[s] = "idle"
        /\ isOpen' = isOpen /\ server' = server
    BY <1>2 DEF OpenStream, Call, serverVars
  <2>2. /\ \/ isOpen /\ UNCHANGED outcome
           \/ ~isOpen /\ outcome' = [outcome EXCEPT ![s] = "refused"]
        /\ phase'[s] # "idle" /\ \A x \in Call \ {s} : phase'[x] = phase[x]
    BY <1>0, <1>2, <2>1 DEF OpenStream, CallTypes
  <2> QED BY <2>1, <2>2, StartsAsPromised
<1>3. ASSUME NEW s \in Streams, Pull(s) \/ Reiterate(s)
      PROVE  [Calls!Next]_(Calls!vars)
  <2>1. \A r \in Call : phase'[r] = "idle" <=> phase[r] = "idle"
    BY <1>0, <1>3 DEF Pull, Reiterate, CallTypes, Call
  <2>2. UNCHANGED <<isOpen, outcome, server>>
    BY <1>3 DEF Pull, Reiterate, serverVars
  <2> QED BY <1>0, <2>1, <2>2, StandsAsBefore
<1>4. ASSUME UserClose \/ TransmitterClose
      PROVE  [Calls!Next]_(Calls!vars)
  <2>1. /\ isOpen' = isOpen \/ isOpen' = FALSE
        /\ UNCHANGED <<phase, outcome, server>>
    BY <1>4 DEF UserClose, CloseStream, TransmitterClose, callVars, serverVars
  <2> QED BY <1>0, <2>1, StandsAsBefore
<1> QED BY <1>1, <1>2, <1>3, <1>4 DEF UserStep

LEMMA ClientRefines == ReplyInv /\ TypeOK' /\ ClientStep => [Calls!Next]_(Calls!vars)
<1> SUFFICES ASSUME ReplyInv, TypeOK', ClientStep PROVE [Calls!Next]_(Calls!vars)
  OBVIOUS
<1>0. TypeOK /\ CallTypes /\ Res!TypeOK /\ Part!TypeOK
  BY TypeParts DEF ReplyInv, CloseInv
<1>1. ASSUME NEW r \in Singles, ResumeSingle(r)
      PROVE  [Calls!Next]_(Calls!vars)
  <2> DEFINE e == Head(resQueues[r])
  <2>1. /\ r \in Call /\ phase[r] = "waiting" /\ resQueues[r] # <<>>
        /\ Settle(r, IF e.done THEN e.error ELSE "answered")
        /\ phase' = [phase EXCEPT
                       ![r] = IF r \in Commits THEN "settling" ELSE "settled"]
        /\ isOpen' = isOpen /\ server' = server
    BY <1>1 DEF ResumeSingle, Res!Take, Call, serverVars
  <2>2. /\ e \in Elements(QueueOf(r)) /\ (~e.done => Answers(e))
        /\ e.done => e.error \in Cause
    BY <1>0, <2>1, TakenBySingle
  <2> HIDE DEF e
  <2>3. phase'[r] # "idle" /\ \A x \in Call \ {r} : phase'[x] = phase[x]
    BY <1>0, <2>1 DEF CallTypes
  <2> QED BY <2>1, <2>2, <2>3, SettlesAsPromised
<1>2. ASSUME NEW r \in Commits, CommitCloses(r)
      PROVE  [Calls!Next]_(Calls!vars)
  <2>1. isOpen' = FALSE /\ UNCHANGED <<outcome, server>>
    BY <1>2 DEF CommitCloses, CloseStream, serverVars
  <2>2. \A x \in Call : phase'[x] = "idle" <=> phase[x] = "idle"
    BY <1>0, <1>2 DEF CommitCloses, CallTypes, Call, Singles
  <2> QED BY <1>0, <2>1, <2>2, StandsAsBefore
<1>3. ASSUME NEW s \in Streams, ResumeStream(s)
      PROVE  [Calls!Next]_(Calls!vars)
  <2> DEFINE e == Head(partQueues[s])
  <2>1. /\ s \in Call /\ s \notin Singles /\ phase[s] = "waiting" /\ Advance(s, e)
        /\ partQueues[s] # <<>>
        /\ isOpen' = isOpen /\ server' = server
    BY <1>3, CallsAreDistinct DEF ResumeStream, Part!Take, Call, Singles, serverVars
  <2>2. /\ e \in Elements(QueueOf(s))
        /\ e.done => e.error \in Cause
        /\ ~e.done /\ KindOf(e) \in {"done", "closing"} => Answers(e)
    BY <1>0, <2>1, TakenByStream
  <2> HIDE DEF e
  <2>3. CASE UNCHANGED outcome /\ (phase' = [phase EXCEPT ![s] = "ready"] \/ UNCHANGED phase)
    <3>1. \A x \in Call : phase'[x] = "idle" <=> phase[x] = "idle"
      BY <1>0, <2>1, <2>3 DEF CallTypes
    <3> QED BY <1>0, <2>1, <2>3, <3>1, StandsAsBefore
  <2>4. CASE /\ KindOf(e) \in {"done", "closing"}
             /\ Settle(s, IF e.done THEN e.error ELSE "answered")
             /\ phase' = [phase EXCEPT ![s] = "settled"]
    <3>1. phase'[s] # "idle" /\ \A x \in Call \ {s} : phase'[x] = phase[x]
      BY <1>0, <2>1, <2>4 DEF CallTypes
    <3> QED BY <2>1, <2>2, <2>4, <3>1, SettlesAsPromised
  <2> QED BY <2>1, <2>3, <2>4 DEF Advance
<1>4. ASSUME TimerFires \/ DataEvent \/ WriteErrorEvent \/ DoneEvent
      PROVE  [Calls!Next]_(Calls!vars)
  <2>1. /\ isOpen' = isOpen \/ isOpen' = FALSE
        /\ UNCHANGED <<phase, outcome, server>>
    BY <1>4 DEF TimerFires, DataEvent, WriteErrorEvent, DoneEvent, CloseStream, callVars,
                serverVars
  <2> QED BY <1>0, <2>1, StandsAsBefore
<1> QED BY <1>1, <1>2, <1>3, <1>4 DEF ClientStep
LEMMA OutsideRefines ==
  ReplyInv /\ TypeOK' /\ (ServerStep \/ ErrorEvent \/ ServerEnds)
     => [Calls!Next]_(Calls!vars)
<1> SUFFICES ASSUME ReplyInv, TypeOK', ServerStep \/ ErrorEvent \/ ServerEnds
             PROVE  [Calls!Next]_(Calls!vars)
  OBVIOUS
<1>0. /\ TypeOK /\ server \in [Call -> {"none", "working", "paused", "done"}]
      /\ Dispatcher!IInv /\ Requested
  BY TypeParts DEF ReplyInv, CloseInv, ServerTypes
<1>1. ServerStep => UNCHANGED <<isOpen, phase, outcome>>
  BY DEF ServerStep, ServerReceives, ServerAnswers, ServerStreams, clientVars, callVars
<1>2. CASE ServerReceives
  <2>1. UNCHANGED <<isOpen, phase, outcome>>
    BY <1>1, <1>2 DEF ServerStep
  <2>2. Next
    BY <1>2 DEF Next, ServerStep
  <2>3. server' = server \/ \E r : server' = [server EXCEPT ![r] = "working"]
    BY <1>2 DEF ServerReceives
  <2>4. \A r \in Call : server'[r] = "done" <=> server[r] = "done"
    BY <1>0, <2>2, <2>3, ServerSteps
  <2> QED BY <1>0, <2>1, <2>4, StandsAsBefore
<1>3. ASSUME NEW r \in Singles, ServerAnswers(r)
      PROVE  [Calls!Next]_(Calls!vars)
  <2>1. r \in Call /\ server[r] = "working" /\ server' = [server EXCEPT ![r] = "done"]
    BY <1>3 DEF ServerAnswers, ServerSends, Call
  <2> QED BY <1>1, <1>3, <2>1, RepliesAsPromised DEF ServerStep
<1>4. ASSUME NEW s \in Streams, ServerStreams(s)
      PROVE  [Calls!Next]_(Calls!vars)
  <2>1. s \in Call /\ server[s] = "working" /\ UNCHANGED <<isOpen, phase, outcome>>
    BY <1>1, <1>4 DEF ServerStreams, ServerSends, Call, ServerStep
  <2>2. CASE server' = [server EXCEPT ![s] = "done"]
    BY <2>1, <2>2, RepliesAsPromised
  <2>3. CASE server' = server \/ server' = [server EXCEPT ![s] = "paused"]
    <3>1. \A r \in Call : server'[r] = "done" <=> server[r] = "done"
      BY <1>0, <2>1, <2>3
    <3> QED BY <1>0, <2>1, <3>1, StandsAsBefore
  <2> QED BY <1>4, <2>2, <2>3 DEF ServerStreams
<1>5. CASE ErrorEvent \/ ServerEnds
  <2>1. /\ isOpen' = isOpen \/ isOpen' = FALSE
        /\ UNCHANGED <<phase, outcome, server>>
    BY <1>5 DEF ErrorEvent, ServerEnds, CloseStream, clientVars, callVars, serverVars
  <2> QED BY <1>0, <2>1, StandsAsBefore
<1> QED BY <1>2, <1>3, <1>4, <1>5 DEF ServerStep

(***************************************************************************)
(* The transaction keeps what TransactionCalls promises its user: a call   *)
(* on an open transaction is answered only after the server's full reply,  *)
(* fails only once the transaction is closed, and settles once             *)
(* (TypeDBTransactionImpl.rpcExecute, rpcStream).                          *)
(***************************************************************************)
THEOREM TransactionKeepsItsPromise == Spec => ImplementsTransactionCalls
<1>1. Init => Calls!Init
  <2> SUFFICES ASSUME Init PROVE Calls!Init
    OBVIOUS
  <2>1. \A r \in Call : CallState(r) = "new" /\ server[r] # "done"
    <3>1. TypeOK
      BY InitTypes
    <3> QED BY <3>1, CallStates DEF Init
  <2> QED BY <2>1 DEF Init, Calls!Init
<1>2. ReplyInv /\ ReplyInv' /\ [Next]_vars => [Calls!Next]_(Calls!vars)
  <2> SUFFICES ASSUME ReplyInv, ReplyInv', [Next]_vars
               PROVE  [Calls!Next]_(Calls!vars)
    OBVIOUS
  <2>1. TypeOK /\ TypeOK'
    BY DEF ReplyInv, CloseInv
  <2>2. CASE UNCHANGED vars
    BY <2>1, <2>2, StandsAsBefore DEF vars, callVars, serverVars
  <2>3. CASE Next
    BY <2>1, <2>3, UserRefines, ClientRefines, OutsideRefines DEF Next
  <2> QED BY <2>2, <2>3
<1> QED BY <1>1, <1>2, ReplyInvariance, PTL DEF Spec, Calls!Spec, ImplementsTransactionCalls

-----------------------------------------------------------------------------
(* The parts of a stream call on their way to its user *)

(***************************************************************************)
(* What an element of a queue is worth to an iteration: a part its number, *)
(* the end of the stream the number after the last of p parts.             *)
(***************************************************************************)
Worth(e, p) == IF KindOf(e) = "part" THEN e.value.number
               ELSE IF KindOf(e) = "done" THEN p + 1 ELSE 0

\* The same of the responses on their way, for stream call s.
WorthTo(s, m, p) == IF m.id = s THEN Worth(Part!Response(m.reply), p) ELSE 0

QueueTrack(q, p) == [i \in 1 .. Len(q) |-> Worth(q[i], p)]
InboxTrack(s, q, p) == [i \in 1 .. Len(q) |-> WorthTo(s, q[i], p)]

(***************************************************************************)
(* The n entries of f hold, besides zeros, the numbers from a + 1 to b,    *)
(* each once and in order.                                                 *)
(***************************************************************************)
Holds(f, n, a, b) ==
    /\ \A i \in 1 .. n : f[i] = 0 \/ f[i] \in a + 1 .. b
    /\ \A i, j \in 1 .. n : i < j /\ f[i] # 0 /\ f[j] # 0 => f[i] < f[j]
    /\ \A k \in a + 1 .. b : \E i \in 1 .. n : f[i] = k

\* What the server has sent, and what the user has been given: parts and end.
Sent(s) == produced[s] + (IF server[s] = "done" THEN 1 ELSE 0)
Given(s) == Len(delivered[s]) + (IF outcome[s] = "answered" THEN 1 ELSE 0)

(***************************************************************************)
(* From the server to the user nothing is lost and nothing overtakes: the  *)
(* queue goes on where the user is, and while the transaction is open the  *)
(* responses on their way go on where the queue ends.                      *)
(***************************************************************************)
PartsFlow(s) ==
    \E b \in Given(s) .. Sent(s) :
       /\ Holds(QueueTrack(partQueues[s], produced[s]), Len(partQueues[s]), Given(s), b)
       /\ isOpen => Holds(InboxTrack(s, inbox, produced[s]), Len(inbox), b, Sent(s))

(***************************************************************************)
(* What the user has are the parts from the first one, all of them when    *)
(* the call is answered; nothing is left behind a closing element, and     *)
(* nothing is there before the request.                                    *)
(***************************************************************************)
Delivered(s) ==
    /\ \A i \in 1 .. Len(delivered[s]) : delivered[s][i] = i
    /\ Len(delivered[s]) <= produced[s]
    /\ outcome[s] = "answered" => Len(delivered[s]) = produced[s]
    /\ outcome[s] \in Cause => partQueues[s] = <<>> /\ ~isOpen
    /\ server[s] = "none" => produced[s] = 0

LEMMA HoldsNothing == \A f : \A a \in Nat : Holds(f, 0, a, a)
BY DEF Holds

LEMMA HoldsAppend ==
  ASSUME NEW f, NEW g, NEW n \in Nat, NEW a \in Nat, NEW b \in Nat, a <= b,
         \A i \in 1 .. n : g[i] = f[i] /\ f[i] \in Nat, Holds(f, n, a, b)
  PROVE  /\ g[n + 1] = 0 => Holds(g, n + 1, a, b)
         /\ g[n + 1] = b + 1 => Holds(g, n + 1, a, b + 1)
<1>1. /\ \A i \in 1 .. n : g[i] = 0 \/ g[i] \in a + 1 .. b
      /\ \A i, j \in 1 .. n : i < j /\ g[i] # 0 /\ g[j] # 0 => g[i] < g[j]
      /\ \A k \in a + 1 .. b : \E i \in 1 .. n : g[i] = k
  BY DEF Holds
<1>2. ASSUME g[n + 1] = 0
      PROVE  Holds(g, n + 1, a, b)
  BY <1>1, <1>2 DEF Holds
<1>3. ASSUME g[n + 1] = b + 1
      PROVE  Holds(g, n + 1, a, b + 1)
  <2>1. \A i \in 1 .. n + 1 : g[i] = 0 \/ g[i] \in a + 1 .. b + 1
    BY <1>1, <1>3
  <2>2. \A i, j \in 1 .. n + 1 : i < j /\ g[i] # 0 /\ g[j] # 0 => g[i] < g[j]
    BY <1>1, <1>3
  <2>3. \A k \in a + 1 .. b + 1 : \E i \in 1 .. n + 1 : g[i] = k
    BY <1>1, <1>3
  <2> QED BY <2>1, <2>2, <2>3 DEF Holds
<1> QED BY <1>2, <1>3

LEMMA HoldsTail ==
  ASSUME NEW f, NEW g, NEW n \in Nat, NEW a \in Nat, NEW b \in Nat,
         \A i \in 1 .. n : g[i] = f[i + 1],
         \A i \in 1 .. n + 1 : f[i] \in Nat, Holds(f, n + 1, a, b)
  PROVE  /\ f[1] = 0 => Holds(g, n, a, b)
         /\ f[1] # 0 => f[1] = a + 1 /\ a + 1 <= b /\ Holds(g, n, a + 1, b)
<1>1. /\ \A i \in 1 .. n + 1 : f[i] = 0 \/ f[i] \in a + 1 .. b
      /\ \A i, j \in 1 .. n + 1 : i < j /\ f[i] # 0 /\ f[j] # 0 => f[i] < f[j]
      /\ \A k \in a + 1 .. b : \E i \in 1 .. n + 1 : f[i] = k
  BY DEF Holds
<1>2. /\ \A i \in 1 .. n : g[i] = 0 \/ g[i] \in a + 1 .. b
      /\ \A i, j \in 1 .. n : i < j /\ g[i] # 0 /\ g[j] # 0 => g[i] < g[j]
  BY <1>1
<1>3. \A k \in a + 1 .. b : f[1] # k => \E i \in 1 .. n : g[i] = k
  <2> TAKE k \in a + 1 .. b
  <2>1. PICK i \in 1 .. n + 1 : f[i] = k
    BY <1>1
  <2>2. f[1] # k => i - 1 \in 1 .. n /\ g[i - 1] = f[i]
    BY <2>1
  <2> QED BY <2>1, <2>2
<1>4. ASSUME f[1] = 0
      PROVE  Holds(g, n, a, b)
  BY <1>2, <1>3, <1>4 DEF Holds
<1>5. ASSUME f[1] # 0
      PROVE  f[1] = a + 1 /\ a + 1 <= b /\ Holds(g, n, a + 1, b)
  <2>1. f[1] \in a + 1 .. b
    BY <1>1, <1>5
  <2>2. PICK first \in 1 .. n + 1 : f[first] = a + 1
    BY <1>1, <2>1
  <2>3. f[1] = a + 1
    BY <1>1, <1>5, <2>1, <2>2
  <2>4. \A i \in 1 .. n : g[i] = 0 \/ g[i] \in a + 1 + 1 .. b
    <3> TAKE i \in 1 .. n
    <3>1. i + 1 \in 1 .. n + 1 /\ 1 \in 1 .. n + 1 /\ 1 < i + 1 /\ g[i] = f[i + 1]
      OBVIOUS
    <3>2. f[i + 1] # 0 => f[1] < f[i + 1]
      BY <1>1, <1>5, <3>1
    <3> QED BY <1>2, <2>3, <3>1, <3>2
  <2>5. \A k \in a + 1 + 1 .. b : \E i \in 1 .. n : g[i] = k
    BY <1>3, <2>3
  <2>6. Holds(g, n, a + 1, b)
    BY <1>2, <2>4, <2>5 DEF Holds
  <2> QED BY <2>1, <2>3, <2>6
<1> QED BY <1>4, <1>5

(***************************************************************************)
(* What is worth something: numbers, and no number before the response.    *)
(***************************************************************************)
LEMMA WorthTypes ==
  ASSUME NEW p \in Nat, NEW e \in Part!Element
  PROVE  /\ Worth(e, p) \in Nat
         /\ e.done => Worth(e, p) = 0
         /\ KindOf(e) \in {"closing", "part", "continue", "done"}
         /\ KindOf(e) = "closing" <=> e.done
         /\ KindOf(e) = "part" => /\ Worth(e, p) = e.value.number /\ Worth(e, p) # 0
                                  /\ e.value.number \in 1 .. MaxParts
         /\ KindOf(e) = "done" => Worth(e, p) = p + 1
         /\ KindOf(e) = "continue" => Worth(e, p) = 0
<1>1. CASE e.done
  BY <1>1 DEF Worth, KindOf
<1>2. CASE ~e.done
  <2>1. e.value \in PartReplies
    BY <1>2, ElementsAreTyped
  <2>2. /\ e.value.kind \in {"part", "continue", "done"}
        /\ e.value.kind = "part" => e.value.number \in 1 .. MaxParts
    BY <2>1, KindsOfParts, RepliesAreTyped
  <2>3. MaxParts \in Nat
    BY PortionIsPositive
  <2> QED BY <1>2, <2>2, <2>3 DEF Worth, KindOf
<1> QED BY <1>1, <1>2

LEMMA PartElements ==
  \A v \in PartReplies : /\ Part!Response(v) \in Part!Element
                         /\ KindOf(Part!Response(v)) = v.kind
                         /\ Part!Response(v).value = v
BY DEF Part!Response, Part!Element, KindOf

LEMMA MessageTypes ==
  ASSUME NEW p \in Nat, NEW s, NEW m \in Message
  PROVE  WorthTo(s, m, p) \in Nat
<1>1. CASE m.reply \in PartReplies
  BY <1>1, PartElements, WorthTypes DEF WorthTo
<1>2. CASE m.reply \in ResReplies
  <2>1. m.reply.kind = "res"
    BY <1>2, RepliesAreTyped
  <2>2. KindOf(Part!Response(m.reply)) = "res"
    BY <2>1 DEF KindOf, Part!Response
  <2> QED BY <2>2 DEF WorthTo, Worth
<1> QED BY <1>1, <1>2 DEF Message

(***************************************************************************)
(* The track of a queue, and that of the inbox, when one comes or goes.    *)
(***************************************************************************)
LEMMA QueueGrows ==
  ASSUME NEW p \in Nat, NEW a \in Nat, NEW b \in Nat, a <= b,
         NEW q \in Seq(Part!Element), NEW e \in Part!Element,
         Holds(QueueTrack(q, p), Len(q), a, b)
  PROVE  LET longer == Append(q, e)
         IN  /\ Worth(e, p) = 0 => Holds(QueueTrack(longer, p), Len(longer), a, b)
             /\ Worth(e, p) = b + 1 => Holds(QueueTrack(longer, p), Len(longer), a, b + 1)
<1> DEFINE n == Len(q)
           longer == Append(q, e)
           f == QueueTrack(q, p)
           g == QueueTrack(longer, p)
<1>1. /\ n \in Nat /\ Len(longer) = n + 1 /\ longer[n + 1] = e
      /\ \A i \in 1 .. n : longer[i] = q[i] /\ q[i] \in Part!Element
  BY AppendProperties, LenProperties, ElementOfSeq
<1>2. \A i \in 1 .. n : g[i] = f[i] /\ f[i] \in Nat
  <2>1. \A i \in 1 .. n : g[i] = Worth(q[i], p) /\ f[i] = Worth(q[i], p)
    BY <1>1 DEF QueueTrack
  <2>2. \A i \in 1 .. n : Worth(q[i], p) \in Nat
    BY <1>1, WorthTypes
  <2> QED BY <2>1, <2>2
<1>3. g[n + 1] = Worth(e, p)
  BY <1>1 DEF QueueTrack
<1>4. Holds(f, n, a, b)
  OBVIOUS
<1> HIDE DEF n, longer, f, g
<1>5. /\ g[n + 1] = 0 => Holds(g, n + 1, a, b)
      /\ g[n + 1] = b + 1 => Holds(g, n + 1, a, b + 1)
  BY <1>1, <1>2, <1>4, HoldsAppend
<1> QED BY <1>1, <1>3, <1>5 DEF n, longer, f, g

LEMMA QueueShrinks ==
  ASSUME NEW p \in Nat, NEW a \in Nat, NEW b \in Nat,
         NEW q \in Seq(Part!Element), q # <<>>,
         Holds(QueueTrack(q, p), Len(q), a, b)
  PROVE  LET first == Worth(Head(q), p)
             rest  == Tail(q)
         IN  /\ first = 0 => Holds(QueueTrack(rest, p), Len(rest), a, b)
             /\ first # 0 => /\ first = a + 1 /\ a + 1 <= b
                             /\ Holds(QueueTrack(rest, p), Len(rest), a + 1, b)
<1> DEFINE rest == Tail(q)
           n == Len(rest)
           f == QueueTrack(q, p)
           g == QueueTrack(rest, p)
<1>1. /\ n \in Nat /\ Len(q) = n + 1 /\ Head(q) = q[1]
      /\ \A i \in 1 .. n : rest[i] = q[i + 1]
      /\ \A i \in 1 .. n + 1 : q[i] \in Part!Element
  BY HeadTailProperties, LenProperties, ElementOfSeq, EmptySeq
<1>2. \A i \in 1 .. n : g[i] = f[i + 1]
  BY <1>1 DEF QueueTrack
<1>3. \A i \in 1 .. n + 1 : f[i] \in Nat
  BY <1>1, WorthTypes DEF QueueTrack
<1>4. f[1] = Worth(Head(q), p) /\ Holds(f, n + 1, a, b)
  BY <1>1 DEF QueueTrack
<1> HIDE DEF rest, n, f, g
<1>5. /\ f[1] = 0 => Holds(g, n, a, b)
      /\ f[1] # 0 => f[1] = a + 1 /\ a + 1 <= b /\ Holds(g, n, a + 1, b)
  BY <1>1, <1>2, <1>3, <1>4, HoldsTail
<1> QED BY <1>4, <1>5 DEF rest, n, g

LEMMA InboxGrows ==
  ASSUME NEW p \in Nat, NEW a \in Nat, NEW b \in Nat, a <= b, NEW s,
         NEW q \in Seq(Message), NEW m \in Message,
         Holds(InboxTrack(s, q, p), Len(q), a, b)
  PROVE  LET longer == Append(q, m)
         IN  /\ WorthTo(s, m, p) = 0 => Holds(InboxTrack(s, longer, p), Len(longer), a, b)
             /\ WorthTo(s, m, p) = b + 1 =>
                   Holds(InboxTrack(s, longer, p), Len(longer), a, b + 1)
<1> DEFINE n == Len(q)
           longer == Append(q, m)
           f == InboxTrack(s, q, p)
           g == InboxTrack(s, longer, p)
<1>1. /\ n \in Nat /\ Len(longer) = n + 1 /\ longer[n + 1] = m
      /\ \A i \in 1 .. n : longer[i] = q[i] /\ q[i] \in Message
  BY AppendProperties, LenProperties, ElementOfSeq
<1>2. \A i \in 1 .. n : g[i] = f[i] /\ f[i] \in Nat
  BY <1>1, MessageTypes DEF InboxTrack
<1>3. g[n + 1] = WorthTo(s, m, p)
  BY <1>1 DEF InboxTrack
<1>4. Holds(f, n, a, b)
  OBVIOUS
<1> HIDE DEF n, longer, f, g
<1>5. /\ g[n + 1] = 0 => Holds(g, n + 1, a, b)
      /\ g[n + 1] = b + 1 => Holds(g, n + 1, a, b + 1)
  BY <1>1, <1>2, <1>4, HoldsAppend
<1> QED BY <1>1, <1>3, <1>5 DEF n, longer, f, g

LEMMA InboxShrinks ==
  ASSUME NEW p \in Nat, NEW a \in Nat, NEW b \in Nat, NEW s,
         NEW q \in Seq(Message), q # <<>>,
         Holds(InboxTrack(s, q, p), Len(q), a, b)
  PROVE  LET first == WorthTo(s, Head(q), p)
             rest  == Tail(q)
         IN  /\ first = 0 => Holds(InboxTrack(s, rest, p), Len(rest), a, b)
             /\ first # 0 => /\ first = a + 1 /\ a + 1 <= b
                             /\ Holds(InboxTrack(s, rest, p), Len(rest), a + 1, b)
<1> DEFINE rest == Tail(q)
           n == Len(rest)
           f == InboxTrack(s, q, p)
           g == InboxTrack(s, rest, p)
<1>1. /\ n \in Nat /\ Len(q) = n + 1 /\ Head(q) = q[1]
      /\ \A i \in 1 .. n : rest[i] = q[i + 1]
      /\ \A i \in 1 .. n + 1 : q[i] \in Message
  BY HeadTailProperties, LenProperties, ElementOfSeq, EmptySeq
<1>2. \A i \in 1 .. n : g[i] = f[i + 1]
  BY <1>1 DEF InboxTrack
<1>3. \A i \in 1 .. n + 1 : f[i] \in Nat
  BY <1>1, MessageTypes DEF InboxTrack
<1>4. f[1] = WorthTo(s, Head(q), p) /\ Holds(f, n + 1, a, b)
  BY <1>1 DEF InboxTrack
<1> HIDE DEF rest, n, f, g
<1>5. /\ f[1] = 0 => Holds(g, n, a, b)
      /\ f[1] # 0 => f[1] = a + 1 /\ a + 1 <= b /\ Holds(g, n, a + 1, b)
  BY <1>1, <1>2, <1>3, <1>4, HoldsTail
<1> QED BY <1>4, <1>5 DEF rest, n, g

Flowing(s) == PartsFlow(s) /\ Delivered(s)

(***************************************************************************)
(* The parts under way are parts the server has produced.                  *)
(***************************************************************************)
Produced(s) ==
    /\ \A e \in Elements(partQueues[s]) :
          KindOf(e) = "part" => e.value.number <= produced[s]
    /\ \A m \in Elements(inbox) :
          m.id = s /\ m.reply.kind = "part" => m.reply.number <= produced[s]

LEMMA FlowTypes ==
  ASSUME TypeOK, NEW s \in Streams
  PROVE  /\ partQueues[s] \in Seq(Part!Element) /\ inbox \in Seq(Message)
         /\ produced[s] \in Nat /\ delivered[s] \in Seq(1 .. MaxParts)
         /\ Len(delivered[s]) \in Nat /\ Given(s) \in Nat /\ Sent(s) \in Nat
         /\ s \in Call /\ s \notin Singles
         /\ outcome[s] \in {"none", "answered", "refused"} \cup Cause
         /\ server[s] \in {"none", "working", "paused", "done"}
<1>1. /\ Part!TypeOK /\ CallTypes /\ ServerTypes
  BY TypeParts
<1>2. MaxParts \in Nat /\ s \in Call /\ s \notin Singles
  BY PortionIsPositive, CallsAreDistinct DEF Call, Singles
<1>3. /\ produced[s] \in Nat /\ delivered[s] \in Seq(1 .. MaxParts)
  BY <1>1, <1>2 DEF CallTypes, ServerTypes
<1>4. Len(delivered[s]) \in Nat
  BY <1>3, LenProperties
<1>5. Given(s) \in Nat /\ Sent(s) \in Nat
  <2>1. \A n \in Nat : n + 0 \in Nat /\ n + 1 \in Nat
    OBVIOUS
  <2>2. Given(s) \in {Len(delivered[s]) + 0, Len(delivered[s]) + 1}
    BY DEF Given
  <2>3. Sent(s) \in {produced[s] + 0, produced[s] + 1}
    BY DEF Sent
  <2> QED BY <1>3, <1>4, <2>1, <2>2, <2>3
<1> QED BY <1>1, <1>2, <1>3, <1>4, <1>5 DEF Part!TypeOK, CallTypes, ServerTypes

(***************************************************************************)
(* Steps that have nothing to do with stream call s but may refuse it.     *)
(***************************************************************************)
FlowSame(s) ==
    /\ partQueues'[s] = partQueues[s] /\ inbox' = inbox /\ isOpen' = isOpen
    /\ delivered'[s] = delivered[s] /\ produced'[s] = produced[s]
    /\ server'[s] = "done" <=> server[s] = "done"
    /\ server'[s] = "none" => server[s] = "none"
    /\ outcome'[s] = outcome[s] \/ (outcome[s] = "none" /\ outcome'[s] = "refused")

LEMMA SameFlows ==
  ASSUME NEW s \in Streams, Flowing(s), FlowSame(s)
  PROVE  Flowing(s)'
<1>1. Given(s)' = Given(s) /\ Sent(s)' = Sent(s)
  BY DEF Given, Sent, FlowSame
<1>2. PartsFlow(s)'
  BY <1>1 DEF Flowing, PartsFlow, FlowSame
<1>3. Delivered(s)'
  BY DEF Flowing, Delivered, FlowSame, Cause
<1> QED BY <1>2, <1>3 DEF Flowing

(***************************************************************************)
(* A close puts a closing element behind what is queued, and whatever is   *)
(* on its way does not matter any more.                                    *)
(***************************************************************************)
LEMMA CloseFlows ==
  ASSUME ReplyInv, NEW s \in Streams, Flowing(s), NEW error \in Cause, CloseStream(error),
         delivered' = delivered, outcome' = outcome, produced' = produced, server' = server
  PROVE  Flowing(s)'
<1>0. TypeOK /\ Registered
  BY DEF ReplyInv, CloseInv
<1>1. PICK b \in Given(s) .. Sent(s) :
         Holds(QueueTrack(partQueues[s], produced[s]), Len(partQueues[s]), Given(s), b)
  BY DEF Flowing, PartsFlow
<1>2. Given(s)' = Given(s) /\ Sent(s)' = Sent(s) /\ ~isOpen'
  BY DEF Given, Sent, CloseStream
<1>3. \/ partQueues'[s] = partQueues[s]
      \/ /\ partQueues'[s] = Append(partQueues[s], Part!Done(error))
         /\ s \in partCollectors
  BY DEF CloseStream, Part!Close
<1>4. Part!Done(error) \in Part!Element /\ Part!Done(error).done
  BY DEF Part!Done, Part!Element
<1>5. Holds(QueueTrack(partQueues'[s], produced[s]), Len(partQueues'[s]), Given(s), b)
  <2>1. Worth(Part!Done(error), produced[s]) = 0
    BY <1>0, <1>4, FlowTypes, WorthTypes
  <2>2. CASE partQueues'[s] = Append(partQueues[s], Part!Done(error))
    <3>1. b \in Nat /\ Given(s) <= b
      BY <1>0, FlowTypes
    <3> QED BY <1>0, <1>1, <1>4, <2>1, <2>2, <3>1, FlowTypes, QueueGrows
  <2> QED BY <1>1, <1>3, <2>2
<1>6. PartsFlow(s)'
  BY <1>2, <1>5 DEF PartsFlow
<1>7. Delivered(s)'
  <2>1. outcome[s] \in Cause => s \notin partCollectors /\ partQueues[s] = <<>>
    BY <1>0 DEF Flowing, Delivered, Registered
  <2> QED BY <1>2, <1>3, <2>1 DEF Flowing, Delivered
<1> QED BY <1>6, <1>7 DEF Flowing

(***************************************************************************)
(* A data event moves a response to the end of the queue of its call, if   *)
(* the transaction is open.                                                *)
(***************************************************************************)
LEMMA AddresseeOfParts ==
  ASSUME ReplyInv, NEW s \in Streams, DataEvent, isOpen, NoUncaught'
  PROVE  \/ /\ Head(inbox).id = s /\ Head(inbox).reply \in PartReplies
            /\ partQueues'[s] = Append(partQueues[s], Part!Response(Head(inbox).reply))
         \/ Head(inbox).id # s /\ partQueues'[s] = partQueues[s]
<1>0. TypeOK /\ Replied
  BY DEF ReplyInv, CloseInv
<1>1. /\ s \in Call /\ s \notin Singles /\ inbox \in Seq(Message)
      /\ Part!TypeOK
  BY <1>0, FlowTypes, TypeParts
<1> DEFINE m == Head(inbox)
<1>2. inbox # <<>> /\ Collect(m)
  BY DEF DataEvent
<1>3. m \in Message /\ Meant(m)
  BY <1>0, <1>1, <1>2, ElementsOf DEF Replied
<1>4. m.reply.kind = "res" <=> m.id \in Singles
  BY <1>3 DEF Meant
<1>5. m.reply.kind # "res" => m.reply \in PartReplies
  BY <1>3, RepliesAreTyped DEF Message
<1> HIDE DEF m
<1>6. \/ /\ m.reply.kind = "res" /\ UNCHANGED partQueues
      \/ m.reply.kind # "res" /\ Part!Put(m.id, m.reply)
  BY <1>2, Zenon DEF Collect, NoUncaught
<1>7. CASE m.id = s
  <2>1. m.reply.kind # "res" /\ m.reply \in PartReplies /\ Part!Put(s, m.reply)
    BY <1>1, <1>4, <1>5, <1>6, <1>7
  <2>2. partQueues'[s] = Append(partQueues[s], Part!Response(m.reply))
    BY <1>1, <2>1 DEF Part!Put, Part!TypeOK
  <2> QED BY <1>7, <2>1, <2>2 DEF m
<1>8. CASE m.id # s
  BY <1>1, <1>6, <1>8 DEF Part!Put, Part!TypeOK, m
<1> QED BY <1>7, <1>8

LEMMA DataFlows ==
  ASSUME ReplyInv, NEW s \in Streams, Flowing(s), DataEvent, NoUncaught'
  PROVE  Flowing(s)'
<1>0. TypeOK
  BY DEF ReplyInv, CloseInv
<1>1. /\ delivered' = delivered /\ outcome' = outcome /\ produced' = produced
      /\ server' = server /\ isOpen' = isOpen
      /\ inbox # <<>> /\ inbox' = Tail(inbox)
  BY DEF DataEvent, callVars, serverVars
<1>2. Given(s)' = Given(s) /\ Sent(s)' = Sent(s)
  BY <1>1 DEF Given, Sent
<1>3. CASE ~isOpen
  <2>1. partQueues' = partQueues
    BY <1>3 DEF DataEvent, collectorVars
  <2>2. PartsFlow(s)'
    BY <1>1, <1>2, <1>3, <2>1 DEF Flowing, PartsFlow
  <2> QED BY <1>1, <2>1, <2>2 DEF Flowing, Delivered
<1>4. CASE isOpen
  <2> DEFINE m == Head(inbox)
             q == partQueues[s]
             p == produced[s]
             a == Given(s)
             sent == Sent(s)
  <2>1. PICK b \in a .. sent :
           /\ Holds(QueueTrack(q, p), Len(q), a, b)
           /\ Holds(InboxTrack(s, inbox, p), Len(inbox), b, sent)
    BY <1>4 DEF Flowing, PartsFlow
  <2>2. /\ q \in Seq(Part!Element) /\ inbox \in Seq(Message) /\ p \in Nat
        /\ a \in Nat /\ sent \in Nat /\ b \in Nat /\ a <= b /\ b <= sent
    BY <1>0, FlowTypes
  <2> DEFINE first == WorthTo(s, m, p)
             rest == Tail(inbox)
  <2>3. /\ first = 0 => Holds(InboxTrack(s, rest, p), Len(rest), b, sent)
        /\ first # 0 => /\ first = b + 1 /\ b + 1 <= sent
                        /\ Holds(InboxTrack(s, rest, p), Len(rest), b + 1, sent)
    <3> HIDE DEF q, p, a, sent
    <3> QED BY <1>1, <2>1, <2>2, InboxShrinks
  <2>4. CASE m.id # s
    <3>1. partQueues'[s] = q /\ first = 0
      BY <1>4, <2>4, AddresseeOfParts DEF WorthTo
    <3>2. PartsFlow(s)'
      BY <1>1, <1>2, <2>1, <2>2, <2>3, <3>1 DEF PartsFlow
    <3> QED BY <1>1, <1>4, <3>1, <3>2 DEF Flowing, Delivered
  <2>5. CASE m.id = s
    <3> DEFINE e == Part!Response(m.reply)
               longer == Append(q, e)
    <3>1. m.reply \in PartReplies /\ partQueues'[s] = longer
      BY <1>4, <2>5, AddresseeOfParts
    <3>2. e \in Part!Element /\ first = Worth(e, p)
      BY <2>5, <3>1, PartElements DEF WorthTo
    <3>3. /\ first = 0 => Holds(QueueTrack(longer, p), Len(longer), a, b)
          /\ first = b + 1 => Holds(QueueTrack(longer, p), Len(longer), a, b + 1)
      <4> HIDE DEF q, p, a, e, first
      <4> QED BY <2>1, <2>2, <3>2, QueueGrows
    <3>4. \E c \in a .. sent : /\ Holds(QueueTrack(longer, p), Len(longer), a, c)
                               /\ Holds(InboxTrack(s, rest, p), Len(rest), c, sent)
      <4> HIDE DEF q, p, a, e, first, longer, rest, sent
      <4>1. CASE first = 0
        BY <2>1, <2>3, <3>3, <4>1
      <4>2. CASE first # 0
        <5>1. b + 1 \in a .. sent
          BY <2>2, <2>3, <4>2
        <5> QED BY <2>3, <3>3, <4>2, <5>1
      <4> QED BY <4>1, <4>2
    <3>5. PartsFlow(s)'
      BY <1>1, <1>2, <3>1, <3>4 DEF PartsFlow
    <3>6. Delivered(s)'
      BY <1>1, <1>4 DEF Flowing, Delivered
    <3> QED BY <3>5, <3>6 DEF Flowing
  <2> QED BY <2>4, <2>5
<1> QED BY <1>3, <1>4

(***************************************************************************)
(* The iteration takes the first element of its queue: the next part, or   *)
(* the end after the last one.                                             *)
(***************************************************************************)
LEMMA ResumeFlows ==
  ASSUME ReplyInv, NEW s \in Streams, Flowing(s), Produced(s), ResumeStream(s)
  PROVE  Flowing(s)'
<1>0. TypeOK /\ Registered /\ ClosedOnce /\ Replied /\ InTurn
  BY DEF ReplyInv, CloseInv
<1> DEFINE q == partQueues[s]
           e == Head(q)
           p == produced[s]
           a == Given(s)
           sent == Sent(s)
<1>1. /\ inbox' = inbox /\ produced' = produced /\ server' = server /\ isOpen' = isOpen
      /\ phase[s] = "waiting" /\ Advance(s, e)
  BY DEF ResumeStream, serverVars, networkVars
<1>2. /\ q \in Seq(Part!Element) /\ p \in Nat /\ a \in Nat /\ sent \in Nat
      /\ delivered[s] \in Seq(1 .. MaxParts) /\ Len(delivered[s]) \in Nat
      /\ s \in Call /\ s \notin Singles
      /\ outcome[s] \in {"none", "answered", "refused"} \cup Cause
  BY <1>0, FlowTypes
<1>3. q # <<>> /\ partQueues'[s] = Tail(q)
  BY <1>0, <1>2, TypeParts DEF ResumeStream, Part!Take, Part!TypeOK
<1>4. e \in Part!Element /\ e = q[1] /\ Len(q) \in Nat \ {0} /\ Len(Tail(q)) = Len(q) - 1
      /\ Tail(q) \in Seq(Part!Element)
  BY <1>2, <1>3, HeadTailProperties, EmptySeq, LenProperties
<1>5. Sent(s)' = sent
  BY <1>1 DEF Sent
<1>6. PICK b \in a .. sent :
         /\ Holds(QueueTrack(q, p), Len(q), a, b)
         /\ isOpen => Holds(InboxTrack(s, inbox, p), Len(inbox), b, sent)
  BY DEF Flowing, PartsFlow
<1> DEFINE first == Worth(e, p)
           rest == Tail(q)
<1>7. /\ first = 0 => Holds(QueueTrack(rest, p), Len(rest), a, b)
      /\ first # 0 => /\ first = a + 1 /\ a + 1 <= b
                      /\ Holds(QueueTrack(rest, p), Len(rest), a + 1, b)
  <2> HIDE DEF q, p, a, sent
  <2>1. b \in Nat
    BY <1>2
  <2> QED BY <1>2, <1>3, <1>6, <2>1, QueueShrinks
<1>8. first # 0 => outcome[s] = "none"
  <2> SUFFICES ASSUME first # 0
               PROVE  outcome[s] = "none"
    OBVIOUS
  <2>1. outcome[s] # "answered"
    <3> SUFFICES ASSUME outcome[s] = "answered"
                 PROVE  FALSE
      OBVIOUS
    <3>1. a = Len(delivered[s]) + 1 /\ Len(delivered[s]) = p
      BY DEF Given, Flowing, Delivered
    <3>2. server[s] = "done"
      BY <1>0, <1>2 DEF Replied
    <3>3. sent = p + 1
      BY <3>2 DEF Sent
    <3>4. b <= sent /\ a + 1 <= b /\ b \in Nat
      BY <1>2, <1>6, <1>7
    <3> HIDE DEF a, sent, p
    <3> QED BY <1>2, <3>1, <3>3, <3>4
  <2>2. outcome[s] \notin Cause
    BY <1>3 DEF Flowing, Delivered
  <2>3. outcome[s] # "refused"
    BY <1>0, <1>1, <1>2 DEF InTurn
  <2> QED BY <1>2, <2>1, <2>2, <2>3
<1>9. /\ KindOf(e) \in {"closing", "part", "continue", "done"}
      /\ KindOf(e) = "closing" <=> e.done
      /\ KindOf(e) \in {"closing", "continue"} => first = 0
      /\ KindOf(e) = "part" => /\ first = e.value.number /\ first # 0
                               /\ e.value.number \in 1 .. MaxParts
      /\ KindOf(e) = "done" => first = p + 1
  <2> HIDE DEF e, p
  <2> QED BY <1>2, <1>4, WorthTypes DEF KindOf
<1>10. CallTypes
  BY <1>0, TypeParts
<1>11. CASE KindOf(e) = "part"
  <2>1. delivered' = [delivered EXCEPT ![s] = Append(@, e.value.number)] /\ outcome' = outcome
    BY <1>1, <1>11 DEF Advance
  <2>2. first = a + 1 /\ outcome[s] = "none" /\ a = Len(delivered[s])
    <3>1. first # 0 /\ outcome[s] = "none"
      BY <1>8, <1>9, <1>11
    <3>2. first = a + 1
      BY <1>7, <3>1
    <3>3. a = Len(delivered[s])
      BY <1>2, <3>1 DEF Given
    <3> QED BY <3>1, <3>2, <3>3
  <2>3. delivered'[s] = Append(delivered[s], Len(delivered[s]) + 1)
    BY <1>9, <1>10, <1>11, <2>1, <2>2 DEF CallTypes
  <2>4. /\ Len(delivered'[s]) = Len(delivered[s]) + 1
        /\ \A i \in 1 .. Len(delivered[s]) : delivered'[s][i] = delivered[s][i]
        /\ delivered'[s][Len(delivered[s]) + 1] = Len(delivered[s]) + 1
    <3>1. Len(delivered[s]) + 1 \in 1 .. MaxParts
      <4>1. e.value.number = Len(delivered[s]) + 1
        BY <1>9, <1>11, <2>2
      <4> QED BY <1>9, <1>11, <4>1
    <3> QED BY <1>2, <2>3, <3>1, AppendProperties, LenProperties
  <2>5. Given(s)' = a + 1
    BY <2>1, <2>2, <2>4 DEF Given
  <2>6. PartsFlow(s)'
    <3>1. b \in a + 1 .. sent /\ Holds(QueueTrack(rest, p), Len(rest), a + 1, b)
      BY <1>2, <1>6, <1>7, <1>9, <1>11
    <3> QED BY <1>1, <1>3, <1>5, <1>6, <2>5, <3>1 DEF PartsFlow
  <2>7. Delivered(s)'
    <3>1. \A i \in 1 .. Len(delivered'[s]) : delivered'[s][i] = i
      BY <1>2, <2>4 DEF Flowing, Delivered
    <3>2. outcome'[s] = "none" /\ (server'[s] = "none" => produced'[s] = 0)
      BY <1>1, <2>1, <2>2 DEF Flowing, Delivered
    <3>3. e \in Elements(partQueues[s])
      BY <1>2, <1>3, ElementsOf
    <3>4. Len(delivered'[s]) <= produced'[s]
      <4>1. e.value.number <= p
        BY <1>11, <3>3 DEF Produced
      <4>2. e.value.number = Len(delivered[s]) + 1
        BY <1>9, <1>11, <2>2
      <4> QED BY <1>1, <2>4, <4>1, <4>2
    <3> QED BY <3>1, <3>2, <3>4 DEF Delivered, Cause
  <2> QED BY <2>6, <2>7 DEF Flowing
<1>12. CASE KindOf(e) = "continue"
  <2>1. UNCHANGED <<outcome, delivered>>
    BY <1>1, <1>12 DEF Advance
  <2>2. Given(s)' = a
    BY <2>1 DEF Given
  <2>3. PartsFlow(s)'
    BY <1>1, <1>3, <1>5, <1>6, <1>7, <1>9, <1>12, <2>2 DEF PartsFlow
  <2>4. outcome[s] \notin Cause
    BY <1>3 DEF Flowing, Delivered
  <2>5. Delivered(s)'
    BY <1>1, <2>1, <2>4 DEF Flowing, Delivered
  <2> QED BY <2>3, <2>5 DEF Flowing
<1>13. CASE KindOf(e) = "done"
  <2>1. UNCHANGED delivered /\ Settle(s, "answered")
    BY <1>1, <1>9, <1>13 DEF Advance
  <2>2. first # 0 /\ outcome[s] = "none" /\ first = a + 1
    BY <1>2, <1>7, <1>8, <1>9, <1>13
  <2>3. outcome'[s] = "answered"
    BY <1>2, <1>10, <2>1, <2>2 DEF Settle, CallTypes
  <2>4. a = Len(delivered[s]) /\ Given(s)' = a + 1
    BY <1>2, <2>1, <2>2, <2>3 DEF Given
  <2>5. Len(delivered[s]) = p
    BY <1>2, <1>9, <1>13, <2>2, <2>4
  <2>6. PartsFlow(s)'
    <3>1. b \in a + 1 .. sent /\ Holds(QueueTrack(rest, p), Len(rest), a + 1, b)
      BY <1>2, <1>6, <1>7, <2>2
    <3> QED BY <1>1, <1>3, <1>5, <1>6, <2>4, <3>1 DEF PartsFlow
  <2>7. Delivered(s)'
    BY <1>1, <2>1, <2>3, <2>5 DEF Flowing, Delivered, Cause
  <2> QED BY <2>6, <2>7 DEF Flowing
<1>14. CASE KindOf(e) = "closing"
  <2>1. UNCHANGED delivered /\ Settle(s, e.error) /\ e.done
    BY <1>1, <1>9, <1>14 DEF Advance
  <2>2. e.error \in Cause
    BY <1>4, <2>1, ElementsAreTyped
  <2>3. outcome[s] \notin Cause /\ outcome[s] # "refused"
    BY <1>0, <1>1, <1>2, <1>3 DEF Flowing, Delivered, InTurn
  <2>4. outcome'[s] = IF outcome[s] = "none" THEN e.error ELSE "answered"
    BY <1>2, <1>10, <2>1, <2>3 DEF Settle, CallTypes
  <2>5. Given(s)' = a
    BY <2>1, <2>2, <2>3, <2>4, <1>2 DEF Given, Cause
  <2>6. PartsFlow(s)'
    BY <1>1, <1>3, <1>5, <1>6, <1>7, <1>9, <1>14, <2>5 DEF PartsFlow
  <2>7. rest = <<>> /\ ~isOpen
    <3>1. QueueOf(s) = q /\ 1 \in DOMAIN q /\ IsClosing(q[1])
      BY <1>2, <1>4, <2>1, LenProperties DEF QueueOf, IsClosing
    <3>2. 1 = Len(q) /\ q[1].error = cause
      BY <1>0, <1>2, <3>1 DEF ClosedOnce
    <3>3. Len(rest) = 0
      BY <1>4, <3>2
    <3>4. rest = <<>>
      BY <1>4, <3>3, EmptySeq
    <3>5. ~isOpen
      BY <1>0, <1>4, <2>2, <3>2 DEF Registered, Cause
    <3> QED BY <3>4, <3>5
  <2>8. Delivered(s)'
    <3>1. outcome'[s] = "answered" => outcome[s] = "answered"
      BY <1>2, <2>2, <2>3, <2>4 DEF Cause
    <3> QED BY <1>1, <1>3, <2>1, <2>7, <3>1 DEF Flowing, Delivered
  <2> QED BY <2>6, <2>8 DEF Flowing
<1> QED BY <1>9, <1>11, <1>12, <1>13, <1>14

(***************************************************************************)
(* The server does not know of a call before it is made, and has not ended *)
(* a call it works on.                                                     *)
(***************************************************************************)
LEMMA IdleIsUnknown ==
  ASSUME ReplyInv, NEW r \in Call, phase[r] = "idle"
  PROVE  server[r] = "none"
<1>0. /\ TypeOK /\ Requested /\ Dispatcher!IInv
  BY DEF ReplyInv, CloseInv
<1>1. SUFFICES ASSUME server[r] # "none"
               PROVE  FALSE
  OBVIOUS
<1>2. PICK i \in 1 .. received : written[i] = Req(r)
  BY <1>0, <1>1 DEF Requested
<1>3. received \in Nat /\ received <= Len(written)
  BY <1>0, TypeParts DEF Requested, ServerTypes
<1>4. i \in 1 .. Len(written) /\ i \in DOMAIN submitted /\ submitted[i] = Req(r)
  BY <1>0, <1>2, <1>3, WrittenIsPrefix
<1>5. phase[Req(r).id] # "idle"
  BY <1>0, <1>4 DEF Requested
<1> QED BY <1>5 DEF Req

LEMMA OpenFlows ==
  ASSUME ReplyInv, NEW s \in Streams, Flowing(s), OpenStream(s)
  PROVE  Flowing(s)'
<1>0. TypeOK /\ InTurn
  BY DEF ReplyInv, CloseInv
<1>1. /\ inbox' = inbox /\ produced' = produced /\ server' = server /\ isOpen' = isOpen
      /\ delivered' = delivered /\ phase[s] = "idle"
  BY DEF OpenStream, serverVars, networkVars
<1>2. CallTypes /\ Part!TypeOK /\ s \in Call
  BY <1>0, TypeParts, FlowTypes
<1>3. outcome[s] = "none" /\ server[s] = "none"
  BY <1>0, <1>1, <1>2, IdleIsUnknown DEF InTurn
<1>4. CASE ~isOpen
  <2>1. partQueues' = partQueues /\ outcome'[s] = "refused"
    BY <1>2, <1>4 DEF OpenStream, CallTypes
  <2>2. FlowSame(s)
    BY <1>1, <1>3, <2>1 DEF FlowSame
  <2> QED BY <2>2, SameFlows
<1>5. CASE isOpen
  <2>1. partQueues'[s] = <<>> /\ outcome' = outcome
    BY <1>2, <1>5 DEF OpenStream, Part!Queue, Part!TypeOK
  <2>2. Given(s)' = Given(s) /\ Sent(s)' = Sent(s)
    BY <1>1, <2>1 DEF Given, Sent
  <2>3. produced[s] = 0 /\ Sent(s) = 0
    BY <1>3 DEF Flowing, Delivered, Sent
  <2>4. PICK b \in Given(s) .. Sent(s) :
           isOpen => Holds(InboxTrack(s, inbox, produced[s]), Len(inbox), b, Sent(s))
    BY DEF Flowing, PartsFlow
  <2>5. Given(s) = 0 /\ b = 0
    BY <1>0, <2>3, FlowTypes
  <2>6. Holds(QueueTrack(<<>>, produced[s]), Len(<<>>), 0, 0)
    BY HoldsNothing
  <2>7. PartsFlow(s)'
    BY <1>1, <2>1, <2>2, <2>3, <2>4, <2>5, <2>6 DEF PartsFlow
  <2>8. Delivered(s)'
    BY <1>1, <1>3, <2>1 DEF Flowing, Delivered, Cause
  <2> QED BY <2>7, <2>8 DEF Flowing
<1> QED BY <1>4, <1>5

LEMMA NothingEnded ==
  ASSUME ReplyInv, NEW s \in Streams, server[s] # "done", NEW p
  PROVE  /\ QueueTrack(partQueues[s], p) = QueueTrack(partQueues[s], produced[s])
         /\ InboxTrack(s, inbox, p) = InboxTrack(s, inbox, produced[s])
         /\ outcome[s] # "answered"
<1>0. TypeOK /\ Replied
  BY DEF ReplyInv, CloseInv
<1>1. /\ partQueues[s] \in Seq(Part!Element) /\ inbox \in Seq(Message)
      /\ s \in Call /\ QueueOf(s) = partQueues[s]
  BY <1>0, FlowTypes DEF QueueOf
<1>2. ASSUME NEW i \in 1 .. Len(partQueues[s])
      PROVE  Worth(partQueues[s][i], p) = Worth(partQueues[s][i], produced[s])
  <2>1. partQueues[s][i] \in Elements(QueueOf(s))
    BY <1>1, LenProperties DEF Elements
  <2>2. ~Answers(partQueues[s][i])
    BY <1>0, <1>1, <2>1 DEF Replied
  <2>3. KindOf(partQueues[s][i]) # "done"
    BY <2>2 DEF KindOf, Answers, Final
  <2> QED BY <2>3 DEF Worth
<1>3. ASSUME NEW i \in 1 .. Len(inbox)
      PROVE  WorthTo(s, inbox[i], p) = WorthTo(s, inbox[i], produced[s])
  <2>1. inbox[i] \in Elements(inbox)
    BY <1>1, LenProperties DEF Elements
  <2>2. inbox[i].id = s => inbox[i].reply.kind # "done"
    BY <1>0, <2>1 DEF Replied, Meant, Final
  <2> QED BY <2>2 DEF WorthTo, Worth, KindOf, Part!Response
<1>4. outcome[s] # "answered"
  BY <1>0, <1>1 DEF Replied
<1> QED BY <1>2, <1>3, <1>4 DEF QueueTrack, InboxTrack

(***************************************************************************)
(* What the server sends for a stream call is the next part, the end after *)
(* all of its parts, or of no consequence.                                 *)
(***************************************************************************)
LEMMA SendFlows ==
  ASSUME ReplyInv, NEW s \in Streams, Flowing(s), NEW m \in Message,
         inbox' = Append(inbox, m), UNCHANGED <<isOpen, partQueues, delivered, outcome>>,
         m.id = s => server[s] = "working" /\ server'[s] # "none",
         m.id # s => produced'[s] = produced[s] /\ server'[s] = server[s],
         LET worth == WorthTo(s, m, produced'[s])
         IN  \/ Sent(s)' = Sent(s) /\ worth = 0
             \/ Sent(s)' = Sent(s) + 1 /\ worth = Sent(s) + 1,
         produced[s] <= produced'[s], TypeOK'
  PROVE  Flowing(s)'
<1>0. TypeOK
  BY DEF ReplyInv, CloseInv
<1> DEFINE p == produced'[s]
           q == partQueues[s]
           a == Given(s)
           sent == Sent(s)
           worth == WorthTo(s, m, p)
           longer == Append(inbox, m)
<1>1. /\ QueueTrack(q, p) = QueueTrack(q, produced[s])
      /\ InboxTrack(s, inbox, p) = InboxTrack(s, inbox, produced[s])
      /\ m.id = s => outcome[s] # "answered"
  BY NothingEnded
<1>2. PICK b \in a .. sent :
         /\ Holds(QueueTrack(q, p), Len(q), a, b)
         /\ isOpen => Holds(InboxTrack(s, inbox, p), Len(inbox), b, sent)
  BY <1>1 DEF Flowing, PartsFlow
<1>3. /\ inbox \in Seq(Message) /\ a \in Nat /\ sent \in Nat /\ b \in Nat /\ p \in Nat
      /\ b <= sent /\ a <= b
  <2>1. ServerTypes'
    BY TypeParts, PTL
  <2>2. produced' \in [Streams -> 0 .. MaxParts] /\ MaxParts \in Nat
    BY <2>1, PortionIsPositive DEF ServerTypes
  <2> QED BY <1>0, <2>2, FlowTypes
<1>4. isOpen => /\ worth = 0 => Holds(InboxTrack(s, longer, p), Len(longer), b, sent)
                /\ worth = sent + 1 =>
                      Holds(InboxTrack(s, longer, p), Len(longer), b, sent + 1)
  <2> HIDE DEF p, a, sent
  <2> QED BY <1>2, <1>3, InboxGrows
<1>5. /\ Sent(s)' \in {sent, sent + 1}
      /\ isOpen => Holds(InboxTrack(s, longer, p), Len(longer), b, Sent(s)')
  <2> HIDE DEF p, a, sent, longer
  <2> QED BY <1>4 DEF sent, p
<1>6. b \in a .. Sent(s)'
  <2> HIDE DEF a, sent
  <2> QED BY <1>3, <1>5
<1>7. Given(s)' = a
  BY DEF Given
<1>8. PartsFlow(s)'
  <2> HIDE DEF a, sent
  <2> QED BY <1>2, <1>5, <1>6, <1>7 DEF PartsFlow
<1>9. Delivered(s)'
  <2>1. outcome'[s] = "answered" => produced'[s] = produced[s]
    BY <1>1
  <2>2. server'[s] = "none" => server[s] = "none" /\ produced'[s] = produced[s]
    OBVIOUS
  <2>3. Len(delivered'[s]) <= produced'[s]
    <3>1. Len(delivered[s]) \in Nat /\ produced[s] \in Nat
      BY <1>0, FlowTypes
    <3> QED BY <1>3, <3>1 DEF Flowing, Delivered
  <2> QED BY <2>1, <2>2, <2>3 DEF Flowing, Delivered
<1> QED BY <1>8, <1>9 DEF Flowing

LEMMA StreamsFlow ==
  ASSUME ReplyInv, TypeOK', NEW s \in Streams, Flowing(s), NEW u \in Streams, ServerStreams(u)
  PROVE  Flowing(s)'
<1>0. TypeOK
  BY DEF ReplyInv, CloseInv
<1>1. /\ UNCHANGED <<isOpen, partQueues, delivered, outcome>>
      /\ u \in Call /\ ServerTypes /\ server[u] = "working"
      /\ s \in Call /\ produced[s] \in Nat /\ produced[u] \in Nat
  BY <1>0, FlowTypes, TypeParts
     DEF ServerStreams, ServerSends, clientVars, collectorVars, callVars
<1>2. Sent(u) = produced[u]
  BY <1>0, <1>1 DEF Sent
<1>3. \A v \in PartReplies : [id |-> u, reply |-> v] \in Message
  BY <1>1 DEF Message
<1>4. ASSUME NEW v \in PartReplies,
             inbox' = Append(inbox, [id |-> u, reply |-> v]),
             s = u => server'[s] # "none",
             s # u => produced'[s] = produced[s] /\ server'[s] = server[s],
             s = u => produced'[s] >= produced[s],
             s = u => \/ Sent(s)' = Sent(s) /\ v.kind = "continue"
                      \/ /\ Sent(s)' = Sent(s) + 1
                         /\ Worth(Part!Response(v), produced'[s]) = Sent(s) + 1
      PROVE  Flowing(s)'
  <2> DEFINE m == [id |-> u, reply |-> v]
             worth == WorthTo(s, m, produced'[s])
  <2>1. m \in Message /\ m.id = u /\ m.reply = v
    BY <1>3
  <2>2. \/ Sent(s)' = Sent(s) /\ worth = 0
        \/ Sent(s)' = Sent(s) + 1 /\ worth = Sent(s) + 1
    <3>1. CASE s = u
      BY <1>4, <2>1, <3>1, PartElements DEF WorthTo, Worth
    <3>2. CASE s # u
      BY <1>4, <2>1, <3>2 DEF WorthTo, Sent
    <3> QED BY <3>1, <3>2
  <2>3. /\ m.id = s => server[s] = "working" /\ server'[s] # "none"
        /\ m.id # s => produced'[s] = produced[s] /\ server'[s] = server[s]
        /\ inbox' = Append(inbox, m) /\ produced[s] <= produced'[s]
    BY <1>1, <1>4, <2>1
  <2> HIDE DEF m
  <2> QED BY <1>1, <2>1, <2>2, <2>3, SendFlows
<1>5. CASE /\ ServerSends(u, PartReply(produced[u] + 1)) /\ produced[u] < MaxParts
           /\ produced' = [produced EXCEPT ![u] = @ + 1] /\ UNCHANGED server
  <2> DEFINE v == PartReply(produced[u] + 1)
  <2>1. v \in PartReplies
    <3>1. produced[u] + 1 \in 1 .. MaxParts
      BY <1>1, <1>5, PortionIsPositive
    <3> QED BY <3>1, RepliesAreTyped
  <2>2. Worth(Part!Response(v), produced'[s]) = produced[u] + 1
    <3>1. KindOf(Part!Response(v)) = "part" /\ Part!Response(v).value = v
      BY <2>1, PartElements DEF PartReply
    <3> QED BY <3>1 DEF Worth, PartReply
  <2>3. s = u => Sent(s)' = Sent(s) + 1
    BY <1>1, <1>2, <1>5 DEF Sent, ServerTypes
  <2>4. s # u => produced'[s] = produced[s] /\ server'[s] = server[s]
    BY <1>1, <1>5 DEF ServerTypes
  <2>5. inbox' = Append(inbox, [id |-> u, reply |-> v])
    BY <1>5 DEF ServerSends
  <2>6. s = u => server'[s] # "none" /\ produced'[s] >= produced[s]
    BY <1>1, <1>5 DEF ServerTypes
  <2> HIDE DEF v
  <2> QED BY <1>2, <1>4, <2>1, <2>2, <2>3, <2>4, <2>5, <2>6
<1>6. CASE /\ ServerSends(u, Control("continue"))
           /\ server' = [server EXCEPT ![u] = "paused"] /\ UNCHANGED produced
  <2> DEFINE v == Control("continue")
  <2>1. v \in PartReplies /\ v.kind = "continue"
    BY RepliesAreTyped DEF Control
  <2>2. s = u => /\ server'[s] = "paused" /\ Sent(s)' = Sent(s)
                 /\ produced'[s] >= produced[s]
    BY <1>1, <1>2, <1>6 DEF Sent, ServerTypes
  <2>3. s # u => produced'[s] = produced[s] /\ server'[s] = server[s]
    BY <1>1, <1>6 DEF ServerTypes
  <2>4. inbox' = Append(inbox, [id |-> u, reply |-> v])
    BY <1>6 DEF ServerSends
  <2> HIDE DEF v
  <2> QED BY <1>4, <2>1, <2>2, <2>3, <2>4
<1>7. CASE /\ ServerSends(u, Control("done"))
           /\ server' = [server EXCEPT ![u] = "done"] /\ UNCHANGED produced
  <2> DEFINE v == Control("done")
  <2>1. v \in PartReplies
    BY RepliesAreTyped
  <2>2. Worth(Part!Response(v), produced'[s]) = produced'[s] + 1
    <3>1. KindOf(Part!Response(v)) = "done"
      BY <2>1, PartElements DEF Control
    <3> QED BY <3>1 DEF Worth
  <2>3. s = u => server'[s] = "done" /\ Sent(s)' = Sent(s) + 1
    BY <1>1, <1>2, <1>7 DEF Sent, ServerTypes
  <2>4. s # u => produced'[s] = produced[s] /\ server'[s] = server[s]
    BY <1>1, <1>7 DEF ServerTypes
  <2>5. inbox' = Append(inbox, [id |-> u, reply |-> v])
    BY <1>7 DEF ServerSends
  <2>6. produced' = produced /\ produced'[s] >= produced[s]
    BY <1>1, <1>7
  <2> HIDE DEF v
  <2> QED BY <1>2, <1>4, <2>1, <2>2, <2>3, <2>4, <2>5, <2>6
<1> QED BY <1>5, <1>6, <1>7 DEF ServerStreams

LEMMA AnswersFlow ==
  ASSUME ReplyInv, TypeOK', NEW s \in Streams, Flowing(s), NEW r \in Singles, ServerAnswers(r)
  PROVE  Flowing(s)'
<1>0. TypeOK
  BY DEF ReplyInv, CloseInv
<1> DEFINE m == [id |-> r, reply |-> Control("res")]
<1>1. /\ UNCHANGED <<isOpen, partQueues, delivered, outcome, produced>>
      /\ inbox' = Append(inbox, m) /\ server' = [server EXCEPT ![r] = "done"]
  BY DEF ServerAnswers, ServerSends, clientVars, collectorVars, callVars
<1>2. m \in Message /\ m.id = r /\ r # s
  BY <1>0, FlowTypes, RepliesAreTyped DEF Message, Call
<1>3. server'[s] = server[s]
  BY <1>0, <1>1, <1>2, TypeParts DEF ServerTypes
<1>4. /\ Sent(s)' = Sent(s) /\ WorthTo(s, m, produced'[s]) = 0
      /\ produced[s] <= produced'[s]
  BY <1>0, <1>1, <1>2, <1>3, FlowTypes DEF Sent, WorthTo
<1> HIDE DEF m
<1> QED BY <1>1, <1>2, <1>3, <1>4, SendFlows

LEMMA FlowingNext ==
  ASSUME ReplyInv, ReplyInv', Next, NEW s \in Streams, Flowing(s), Produced(s)
  PROVE  Flowing(s)'
<1>0. /\ TypeOK /\ TypeOK' /\ Dispatcher!IInv /\ Requested /\ NoUncaught'
  BY DEF ReplyInv, CloseInv
<1>1. /\ s \in Call /\ s \notin Singles /\ CallTypes /\ ServerTypes /\ Part!TypeOK
  BY <1>0, FlowTypes, TypeParts
<1> USE DEF collectorVars, callVars, serverVars, networkVars
<1>2. ASSUME NEW r \in Singles, Execute(r) \/ ResumeSingle(r)
      PROVE  Flowing(s)'
  <2>1. outcome'[s] = outcome[s]
    BY <1>1, <1>2 DEF Execute, ResumeSingle, Settle, CallTypes
  <2>2. FlowSame(s)
    BY <1>2, <2>1 DEF Execute, ResumeSingle, FlowSame
  <2> QED BY <2>2, SameFlows
<1>3. ASSUME NEW u \in Streams, OpenStream(u)
      PROVE  Flowing(s)'
  <2>1. CASE u = s
    BY <1>3, <2>1, OpenFlows
  <2>2. CASE u # s
    <3>1. outcome'[s] = outcome[s] /\ partQueues'[s] = partQueues[s]
      BY <1>1, <1>3, <2>2 DEF OpenStream, Part!Queue, Part!TypeOK, CallTypes
    <3>2. FlowSame(s)
      BY <1>3, <3>1 DEF OpenStream, FlowSame
    <3> QED BY <3>2, SameFlows
  <2> QED BY <2>1, <2>2
<1>4. ASSUME NEW u \in Streams, Pull(u) \/ Reiterate(u)
      PROVE  Flowing(s)'
  <2>1. FlowSame(s)
    BY <1>4 DEF Pull, Reiterate, FlowSame
  <2> QED BY <2>1, SameFlows
<1>5. ASSUME NEW u \in Streams, ResumeStream(u)
      PROVE  Flowing(s)'
  <2>1. CASE u = s
    BY <1>5, <2>1, ResumeFlows
  <2>2. CASE u # s
    <3>1. partQueues'[s] = partQueues[s]
      BY <1>1, <1>5, <2>2 DEF ResumeStream, Part!Take, Part!TypeOK
    <3>2. outcome'[s] = outcome[s] /\ delivered'[s] = delivered[s]
      BY <1>1, <1>5, <2>2 DEF ResumeStream, Advance, Settle, CallTypes
    <3>3. FlowSame(s)
      BY <1>5, <3>1, <3>2 DEF ResumeStream, FlowSame
    <3> QED BY <3>3, SameFlows
  <2> QED BY <2>1, <2>2
<1>6. CASE UserClose \/ WriteErrorEvent \/ DoneEvent \/ ErrorEvent
            \/ \E r \in Commits : CommitCloses(r)
  <2>1. PICK error \in Cause : CloseStream(error)
    BY <1>6 DEF UserClose, WriteErrorEvent, DoneEvent, ErrorEvent, CommitCloses, Cause
  <2>2. UNCHANGED <<delivered, outcome, produced, server>>
    BY <1>6 DEF UserClose, WriteErrorEvent, DoneEvent, ErrorEvent, CommitCloses
  <2> QED BY <2>1, <2>2, CloseFlows
<1>7. CASE TransmitterClose \/ TimerFires \/ ServerEnds
  <2>1. FlowSame(s)
    BY <1>7 DEF TransmitterClose, TimerFires, ServerEnds, clientVars, FlowSame
  <2> QED BY <2>1, SameFlows
<1>8. CASE DataEvent
  BY <1>0, <1>8, DataFlows
<1>9. CASE ServerReceives
  <2>1. /\ server[s] # "none" => server'[s] # "none"
        /\ server[s] = "done" => server'[s] = "done"
    BY <1>0, <1>1, ServerSteps
  <2>2. server'[s] = "done" => server[s] = "done"
    BY <1>1, <1>9 DEF ServerReceives, ServerTypes
  <2>3. UNCHANGED <<partQueues, inbox, isOpen, delivered, produced, outcome>>
    BY <1>9 DEF ServerReceives, clientVars
  <2>4. FlowSame(s)
    BY <2>1, <2>2, <2>3 DEF FlowSame
  <2> QED BY <2>4, SameFlows
<1>10. ASSUME NEW r \in Singles, ServerAnswers(r)
       PROVE  Flowing(s)'
  BY <1>0, <1>10, AnswersFlow
<1>11. ASSUME NEW u \in Streams, ServerStreams(u)
       PROVE  Flowing(s)'
  BY <1>0, <1>11, StreamsFlow
<1> QED BY <1>2, <1>3, <1>4, <1>5, <1>6, <1>7, <1>8, <1>9, <1>10, <1>11
        DEF Next, UserStep, ClientStep, ServerStep

LEMMA ProducedNext ==
  ASSUME ReplyInv, Next, NEW s \in Streams, Produced(s)
  PROVE  Produced(s)'
<1>0. TypeOK /\ Replied
  BY DEF ReplyInv, CloseInv
<1>1. /\ s \in Call /\ s \notin Singles /\ ServerTypes /\ inbox \in Seq(Message)
      /\ partQueues[s] \in Seq(Part!Element) /\ produced[s] \in Nat
  BY <1>0, FlowTypes, TypeParts
<1>2. \/ UNCHANGED produced /\ (inbox' = inbox \/ inbox' = <<>>)
      \/ UNCHANGED produced /\ inbox # <<>> /\ inbox' = Tail(inbox)
      \/ \E r \in Singles : ServerAnswers(r)
      \/ \E u \in Streams : ServerStreams(u)
  <2> USE DEF serverVars, networkVars
  <2>1. CASE \/ \E r \in Singles : Execute(r) \/ ResumeSingle(r)
             \/ \E u \in Streams : OpenStream(u) \/ Pull(u) \/ Reiterate(u) \/ ResumeStream(u)
             \/ TransmitterClose \/ TimerFires \/ ServerEnds \/ ServerReceives
    BY <2>1 DEF Execute, ResumeSingle, OpenStream, Pull, Reiterate, ResumeStream,
                TransmitterClose, TimerFires, ServerEnds, ServerReceives
  <2>2. CASE UserClose \/ WriteErrorEvent \/ DoneEvent \/ ErrorEvent
              \/ \E r \in Commits : CommitCloses(r)
    BY <2>2 DEF UserClose, WriteErrorEvent, DoneEvent, ErrorEvent, CommitCloses
  <2>3. CASE DataEvent
    BY <2>3 DEF DataEvent
  <2> QED BY <2>1, <2>2, <2>3 DEF Next, UserStep, ClientStep, ServerStep
<1>3. produced'[s] \in Nat /\ produced[s] <= produced'[s]
  <2>1. CASE UNCHANGED produced
    BY <1>1, <2>1
  <2>2. ASSUME NEW r \in Singles, ServerAnswers(r)
        PROVE  UNCHANGED produced
    BY <2>2 DEF ServerAnswers
  <2>3. ASSUME NEW u \in Streams, ServerStreams(u)
        PROVE  UNCHANGED produced \/ produced' = [produced EXCEPT ![u] = @ + 1]
    BY <2>3 DEF ServerStreams
  <2> QED BY <1>1, <1>2, <2>1, <2>2, <2>3 DEF ServerTypes
<1>4. ASSUME NEW m \in Elements(inbox'), m.id = s, m.reply.kind = "part"
      PROVE  m \in Elements(inbox) \/ m.reply.number <= produced'[s]
  <2>1. CASE inbox' = inbox \/ inbox' = <<>>
    BY <1>4, <2>1 DEF Elements
  <2>2. CASE inbox # <<>> /\ inbox' = Tail(inbox)
    BY <1>1, <1>4, <2>2, ElementsOf
  <2>3. ASSUME NEW r \in Call, NEW v \in ResReplies \cup PartReplies, ServerSends(r, v)
        PROVE  m \in Elements(inbox) \/ m = [id |-> r, reply |-> v]
    <3>1. [id |-> r, reply |-> v] \in Message
      BY DEF Message
    <3> QED BY <1>1, <1>4, <2>3, <3>1, ElementsOf DEF ServerSends
  <2>4. ASSUME NEW r \in Singles, ServerAnswers(r)
        PROVE  m \in Elements(inbox)
    <3>1. r \in Call /\ Control("res") \in ResReplies
      BY RepliesAreTyped DEF Call
    <3> QED BY <1>1, <1>4, <2>3, <2>4, <3>1 DEF ServerAnswers
  <2>5. ASSUME NEW u \in Streams, ServerStreams(u)
        PROVE  m \in Elements(inbox) \/ m.reply.number <= produced'[s]
    <3>1. u \in Call
      BY DEF Call
    <3>2. CASE ServerSends(u, Control("continue")) \/ ServerSends(u, Control("done"))
      <4>1. /\ Control("continue") \in PartReplies /\ Control("done") \in PartReplies
            /\ Control("continue").kind # "part" /\ Control("done").kind # "part"
        BY RepliesAreTyped DEF Control
      <4> QED BY <1>4, <2>3, <3>1, <3>2, <4>1
    <3>3. CASE /\ ServerSends(u, PartReply(produced[u] + 1)) /\ produced[u] < MaxParts
               /\ produced' = [produced EXCEPT ![u] = @ + 1]
      <4>1. produced[u] \in Nat /\ produced'[u] = produced[u] + 1
        BY <1>0, <1>1, <3>3, FlowTypes DEF ServerTypes
      <4>2. PartReply(produced[u] + 1) \in PartReplies
        BY <3>3, <4>1, RepliesAreTyped, PortionIsPositive
      <4>3. PartReply(produced[u] + 1).number = produced'[u]
        BY <4>1 DEF PartReply
      <4> QED BY <1>3, <1>4, <2>3, <3>1, <3>3, <4>2, <4>3
    <3> QED BY <2>5, <3>2, <3>3 DEF ServerStreams
  <2> QED BY <1>2, <2>1, <2>2, <2>4, <2>5
<1>5. \A m \in Elements(inbox') :
         m.id = s /\ m.reply.kind = "part" => m.reply.number <= produced'[s]
  <2> SUFFICES ASSUME NEW m \in Elements(inbox), m.id = s, m.reply.kind = "part"
               PROVE  m.reply.number <= produced'[s]
    BY <1>4
  <2>1. m.reply.number <= produced[s]
    BY DEF Produced
  <2>2. m.reply.number \in Nat
    <3>1. m \in Message
      BY <1>1, ElementsOf
    <3>2. m.reply \in PartReplies
      BY <3>1, RepliesAreTyped DEF Message
    <3>3. m.reply.number \in 1 .. MaxParts
      BY <3>2, RepliesAreTyped
    <3> QED BY <3>3, PortionIsPositive
  <2> QED BY <1>1, <1>3, <2>1, <2>2
<1>6. ASSUME NEW e \in Elements(partQueues'[s]), KindOf(e) = "part"
      PROVE  e.value.number <= produced'[s]
  <2>1. QueueOf(s) = partQueues[s] /\ QueueOf(s)' = partQueues'[s]
    BY <1>1, QueueNext DEF QueueOf
  <2>2. e \in Elements(QueueOf(s)')
    BY <1>6, <2>1, Zenon
  <2>3. ~e.done
    BY <1>6 DEF KindOf
  <2>4. e \in Elements(partQueues[s]) \/ Arrived(s, e)
    BY <1>0, <1>1, <2>1, <2>2, <2>3, QueueSteps
  <2>5. CASE e \in Elements(partQueues[s])
    <3>1. e \in Part!Element
      BY <1>1, <2>5, ElementsOf
    <3>2. e.value.number \in 1 .. MaxParts /\ MaxParts \in Nat
      BY <1>1, <1>6, <3>1, WorthTypes, PortionIsPositive
    <3>3. e.value.number <= produced[s]
      BY <1>6, <2>5 DEF Produced
    <3> QED BY <1>1, <1>3, <3>2, <3>3
  <2>6. CASE Arrived(s, e)
    <3> DEFINE m == Head(inbox)
    <3>1. m \in Elements(inbox) /\ m \in Message /\ m.id = s
      BY <1>1, <2>6, ElementsOf DEF Arrived
    <3>2. e.value = m.reply /\ m.reply.kind = "part"
      BY <1>6, <2>6 DEF Arrived, KindOf
    <3>3. m.reply.number <= produced[s]
      BY <3>1, <3>2 DEF Produced
    <3>4. m.reply.number \in Nat
      BY <3>1, <3>2, RepliesAreTyped, PortionIsPositive DEF Message
    <3> QED BY <1>1, <1>3, <3>2, <3>3, <3>4
  <2> QED BY <2>4, <2>5, <2>6
<1> QED BY <1>5, <1>6 DEF Produced

LEMMA InitFlowing ==
  ASSUME Init, NEW s \in Streams
  PROVE  Flowing(s) /\ Produced(s)
<1>1. /\ partQueues[s] = <<>> /\ inbox = <<>> /\ produced[s] = 0 /\ delivered[s] = <<>>
      /\ outcome[s] = "none" /\ server[s] = "none"
  BY DEF Init, Part!Init, Call
<1>2. Given(s) = 0 /\ Sent(s) = 0
  BY <1>1 DEF Given, Sent
<1>3. /\ Holds(QueueTrack(<<>>, 0), Len(<<>>), 0, 0)
      /\ Holds(InboxTrack(s, <<>>, 0), Len(<<>>), 0, 0)
  BY HoldsNothing
<1>4. PartsFlow(s)
  BY <1>1, <1>2, <1>3 DEF PartsFlow
<1>5. Delivered(s)
  BY <1>1 DEF Delivered, Cause
<1>6. Produced(s)
  BY <1>1 DEF Produced, Elements
<1> QED BY <1>4, <1>5, <1>6 DEF Flowing

LEMMA StutterFlowing ==
  ASSUME UNCHANGED vars, NEW s \in Streams, Flowing(s), Produced(s)
  PROVE  Flowing(s)' /\ Produced(s)'
<1>1. FlowSame(s)
  BY DEF vars, collectorVars, callVars, serverVars, networkVars, FlowSame
<1>2. Produced(s)'
  BY <1>1 DEF FlowSame, Produced
<1> QED BY <1>1, <1>2, SameFlows

PartsInv == \A s \in Streams : Flowing(s) /\ Produced(s)

(***************************************************************************)
(* A stream call gives its user the parts of the server in order and       *)
(* without gaps, whatever their number and whatever is closed when, and    *)
(* ends normally only when it has given all of them                        *)
(* (ResponsePartIterator.next, ResponseCollector).                         *)
(***************************************************************************)
THEOREM PartsComeInOrder == Spec => []PartsInOrder
<1>1. Init => PartsInv
  BY InitFlowing DEF PartsInv
<1>2. ReplyInv /\ ReplyInv' /\ PartsInv /\ [Next]_vars => PartsInv'
  BY FlowingNext, ProducedNext, StutterFlowing DEF PartsInv
<1>3. ReplyInv /\ PartsInv => PartsInOrder
  <2> SUFFICES ASSUME ReplyInv, PartsInv, NEW s \in Streams
               PROVE  /\ \A i \in DOMAIN delivered[s] : delivered[s][i] = i
                      /\ Len(delivered[s]) <= produced[s]
                      /\ outcome[s] = "answered" => /\ server[s] = "done"
                                                    /\ Len(delivered[s]) = produced[s]
    BY DEF PartsInOrder
  <2>1. TypeOK /\ Replied /\ Flowing(s)
    BY DEF ReplyInv, CloseInv, PartsInv
  <2>2. /\ s \in Call /\ delivered[s] \in Seq(1 .. MaxParts)
        /\ Len(delivered[s]) \in Nat /\ produced[s] \in Nat
    BY <2>1, FlowTypes
  <2>3. outcome[s] = "answered" => server[s] = "done" /\ Len(delivered[s]) = produced[s]
    BY <2>1, <2>2 DEF Replied, Flowing, Delivered
  <2>4. Len(delivered[s]) <= produced[s]
    BY <2>1 DEF Flowing, Delivered
  <2>5. \A i \in DOMAIN delivered[s] : delivered[s][i] = i
    BY <2>1, <2>2, LenProperties DEF Flowing, Delivered
  <2> QED BY <2>3, <2>4, <2>5
<1> QED BY <1>1, <1>2, <1>3, ReplyInvariance, PTL DEF Spec

-----------------------------------------------------------------------------
(* The requests for more *)

SpotsOf(q, T) == {i \in 1 .. Len(q) : q[i] \in T}

Lone(S) == \A i, j \in S : i = j

\* S has an element only if T has, and at most one if T has at most one.
Less(S, T) == (T = {} => S = {}) /\ (Lone(T) => Lone(S))

(***************************************************************************)
(* Where the ends of portions of s are, and the requests for more they     *)
(* give rise to.                                                           *)
(***************************************************************************)
InInbox(s) == SpotsOf(inbox, {m \in Message : m.id = s /\ m.reply.kind = "continue"})
InQueue(s) == SpotsOf(partQueues[s], {e \in Part!Element : KindOf(e) = "continue"})
InBuffer(s) == SpotsOf(buffered, {StreamReq(s)})
OnWire(s) == {i \in SpotsOf(written, {StreamReq(s)}) : i > received}

NotAsked(s) == InBuffer(s) = {} /\ OnWire(s) = {}
AskedOnce(s) == Lone(InBuffer(s)) /\ Lone(OnWire(s)) /\ (InBuffer(s) = {} \/ OnWire(s) = {})

(***************************************************************************)
(* There is one token per pause of the server: the end of the portion on   *)
(* its way, then in the queue, then the request for more in the buffer,    *)
(* then on the wire.                                                       *)
(***************************************************************************)
OneToken(s) ==
    /\ Lone(InInbox(s)) /\ Lone(InQueue(s)) /\ AskedOnce(s)
    /\ InInbox(s) = {} \/ (InQueue(s) = {} /\ NotAsked(s))
    /\ InQueue(s) = {} \/ NotAsked(s)
    /\ server[s] # "paused" => InInbox(s) = {} /\ InQueue(s) = {} /\ NotAsked(s)

LEMMA SpotsAppend ==
  ASSUME NEW S, NEW q \in Seq(S), NEW e \in S, NEW T
  PROVE  /\ e \notin T => SpotsOf(Append(q, e), T) = SpotsOf(q, T)
         /\ SpotsOf(q, T) = {} => Lone(SpotsOf(Append(q, e), T))
<1>1. /\ Len(q) \in Nat /\ Len(Append(q, e)) = Len(q) + 1
      /\ \A i \in 1 .. Len(q) : Append(q, e)[i] = q[i]
      /\ Append(q, e)[Len(q) + 1] = e
  BY AppendProperties, LenProperties
<1>2. \A i \in 1 .. Len(q) + 1 : i \in 1 .. Len(q) \/ i = Len(q) + 1
  BY <1>1
<1>3. \A i \in SpotsOf(Append(q, e), T) : i \in SpotsOf(q, T) \/ (i = Len(q) + 1 /\ e \in T)
  BY <1>1, <1>2 DEF SpotsOf
<1>4. SpotsOf(q, T) \subseteq SpotsOf(Append(q, e), T)
  BY <1>1 DEF SpotsOf
<1>5. ASSUME e \notin T
      PROVE  SpotsOf(Append(q, e), T) = SpotsOf(q, T)
  BY <1>3, <1>4, <1>5
<1>6. ASSUME SpotsOf(q, T) = {}
      PROVE  Lone(SpotsOf(Append(q, e), T))
  BY <1>3, <1>6 DEF Lone
<1> QED BY <1>5, <1>6

LEMMA SpotsTail ==
  ASSUME NEW S, NEW q \in Seq(S), q # <<>>, NEW T
  PROVE  /\ Less(SpotsOf(Tail(q), T), SpotsOf(q, T))
         /\ Head(q) \in T /\ Lone(SpotsOf(q, T)) => SpotsOf(Tail(q), T) = {}
         /\ Head(q) \in T => SpotsOf(q, T) # {}
<1>1. /\ Len(q) \in Nat \ {0} /\ Len(Tail(q)) = Len(q) - 1 /\ Head(q) = q[1]
      /\ \A i \in 1 .. Len(q) - 1 : Tail(q)[i] = q[i + 1]
  BY HeadTailProperties, EmptySeq, LenProperties
<1>2. \A i \in SpotsOf(Tail(q), T) : i \in Nat \ {0} /\ i + 1 \in SpotsOf(q, T)
  BY <1>1 DEF SpotsOf
<1>3. Less(SpotsOf(Tail(q), T), SpotsOf(q, T))
  <2>1. SpotsOf(q, T) = {} => SpotsOf(Tail(q), T) = {}
    BY <1>2
  <2>2. Lone(SpotsOf(q, T)) => Lone(SpotsOf(Tail(q), T))
    <3> SUFFICES ASSUME Lone(SpotsOf(q, T)),
                        NEW i \in SpotsOf(Tail(q), T), NEW j \in SpotsOf(Tail(q), T)
                 PROVE  i = j
      BY DEF Lone
    <3>1. i + 1 = j + 1 /\ i \in Nat /\ j \in Nat
      BY <1>2 DEF Lone
    <3> QED BY <3>1
  <2> QED BY <2>1, <2>2 DEF Less
<1>4. Head(q) \in T => 1 \in SpotsOf(q, T)
  BY <1>1 DEF SpotsOf
<1>5. ASSUME Head(q) \in T, Lone(SpotsOf(q, T)), NEW i \in SpotsOf(Tail(q), T)
      PROVE  FALSE
  <2>1. i + 1 = 1 /\ i \in Nat \ {0}
    BY <1>2, <1>4, <1>5 DEF Lone
  <2> QED BY <2>1
<1> QED BY <1>3, <1>4, <1>5

LEMMA SpotsConcat ==
  ASSUME NEW S, NEW p \in Seq(S), NEW q \in Seq(S), NEW T
  PROVE  \A i \in SpotsOf(p \o q, T) :
            \/ i \in SpotsOf(p, T)
            \/ i - Len(p) \in SpotsOf(q, T) /\ i \in Nat /\ i > Len(p)
<1>1. /\ Len(p) \in Nat /\ Len(q) \in Nat /\ Len(p \o q) = Len(p) + Len(q)
      /\ \A i \in 1 .. Len(p) : (p \o q)[i] = p[i]
      /\ \A i \in Len(p) + 1 .. Len(p) + Len(q) : (p \o q)[i] = q[i - Len(p)]
  BY ConcatProperties, LenProperties
<1> TAKE i \in SpotsOf(p \o q, T)
<1>2. i \in 1 .. Len(p) + Len(q) /\ (p \o q)[i] \in T
  BY <1>1 DEF SpotsOf
<1>3. CASE i <= Len(p)
  BY <1>1, <1>2, <1>3 DEF SpotsOf
<1>4. CASE i > Len(p)
  <2>1. i - Len(p) \in 1 .. Len(q) /\ (p \o q)[i] = q[i - Len(p)]
    BY <1>1, <1>2, <1>4
  <2> QED BY <1>1, <1>2, <1>4, <2>1 DEF SpotsOf
<1> QED BY <1>1, <1>2, <1>3, <1>4

(***************************************************************************)
(* The dispatcher moves requests from the buffer to the wire; it is asked  *)
(* for more where the code asks it.                                        *)
(***************************************************************************)
LEMMA FlushMoves ==
  ASSUME Dispatcher!TypeOK, NEW s \in Streams, NEW b \in Seq(Request),
         SpotsOf(b, {StreamReq(s)}) = InBuffer(s),
         Dispatcher!SendNow(b), received' = received
  PROVE  (NotAsked(s) => NotAsked(s)') /\ (AskedOnce(s) => AskedOnce(s)')
<1> DEFINE T == {StreamReq(s)}
<1>1. written \in Seq(Request) /\ Len(written) \in Nat /\ buffered' = <<>>
  BY LenProperties DEF Dispatcher!TypeOK, Dispatcher!SendNow
<1>2. InBuffer(s)' = {}
  BY <1>1 DEF InBuffer, SpotsOf
<1>3. CASE written' = written
  <2>1. OnWire(s)' = OnWire(s)
    BY <1>3 DEF OnWire
  <2> QED BY <1>2, <2>1 DEF NotAsked, AskedOnce, Lone
<1>4. CASE written' = written \o b
  <2>1. \A i \in OnWire(s)' : \/ i \in OnWire(s)
                              \/ i - Len(written) \in InBuffer(s) /\ i \in Nat
    BY <1>1, <1>4, SpotsConcat DEF OnWire
  <2>2. NotAsked(s) => OnWire(s)' = {}
    BY <2>1 DEF NotAsked
  <2>3. ASSUME AskedOnce(s)
        PROVE  Lone(OnWire(s)')
    <3>1. CASE InBuffer(s) = {}
      <4>1. \A i \in OnWire(s)' : i \in OnWire(s)
        BY <2>1, <3>1
      <4> QED BY <2>3, <4>1 DEF AskedOnce, Lone
    <3>2. CASE OnWire(s) = {}
      <4>1. \A i, j \in OnWire(s)' : i - Len(written) = j - Len(written) /\ i \in Nat /\ j \in Nat
        BY <2>1, <2>3, <3>2 DEF AskedOnce, Lone
      <4>2. \A i, j \in OnWire(s)' : i = j
        BY <1>1, <4>1
      <4> QED BY <4>2 DEF Lone
    <3> QED BY <2>3, <3>1, <3>2 DEF AskedOnce
  <2> QED BY <1>2, <2>2, <2>3 DEF NotAsked, AskedOnce, Lone
<1> QED BY <1>3, <1>4 DEF Dispatcher!SendNow, Dispatcher!Write

LEMMA WireQuiet ==
  ASSUME Dispatcher!TypeOK, NEW s \in Streams, received' = received,
         \/ \E q \in Request : /\ q # StreamReq(s)
                               /\ Dispatcher!Dispatch(q) \/ Dispatcher!DispatchNow(q)
         \/ Dispatcher!TimerFires
         \/ UNCHANGED <<buffered, written>>
  PROVE  (NotAsked(s) => NotAsked(s)') /\ (AskedOnce(s) => AskedOnce(s)')
<1>1. buffered \in Seq(Request)
  BY DEF Dispatcher!TypeOK
<1>2. ASSUME UNCHANGED written, InBuffer(s)' = InBuffer(s)
      PROVE  (NotAsked(s) => NotAsked(s)') /\ (AskedOnce(s) => AskedOnce(s)')
  <2>1. OnWire(s)' = OnWire(s)
    BY <1>2 DEF OnWire
  <2> QED BY <1>2, <2>1 DEF NotAsked, AskedOnce
<1>3. CASE UNCHANGED <<buffered, written>>
  <2>1. InBuffer(s)' = InBuffer(s)
    BY <1>3 DEF InBuffer
  <2> QED BY <1>2, <1>3, <2>1
<1>4. CASE Dispatcher!TimerFires
  <2>1. CASE Dispatcher!SendNow(buffered)
    BY <1>1, <2>1, FlushMoves DEF InBuffer
  <2> QED BY <1>3, <1>4, <2>1 DEF Dispatcher!TimerFires
<1>5. ASSUME NEW q \in Request, q # StreamReq(s),
             Dispatcher!Dispatch(q) \/ Dispatcher!DispatchNow(q)
      PROVE  (NotAsked(s) => NotAsked(s)') /\ (AskedOnce(s) => AskedOnce(s)')
  <2>1. /\ SpotsOf(Append(buffered, q), {StreamReq(s)}) = InBuffer(s)
        /\ Append(buffered, q) \in Seq(Request)
    BY <1>1, <1>5, SpotsAppend, AppendProperties DEF InBuffer
  <2>2. CASE Dispatcher!Dispatch(q)
    <3>1. UNCHANGED written /\ InBuffer(s)' = InBuffer(s)
      BY <2>1, <2>2 DEF Dispatcher!Dispatch, InBuffer
    <3> QED BY <1>2, <3>1
  <2>3. CASE Dispatcher!DispatchNow(q)
    BY <2>1, <2>3, FlushMoves DEF Dispatcher!DispatchNow
  <2> QED BY <1>5, <2>2, <2>3
<1> QED BY <1>3, <1>4, <1>5

LEMMA WireAsks ==
  ASSUME Dispatcher!TypeOK, NEW s \in Streams, received' = received,
         Dispatcher!Dispatch(StreamReq(s)), NotAsked(s)
  PROVE  AskedOnce(s)'
<1>1. buffered \in Seq(Request) /\ StreamReq(s) \in Request
  BY DEF Dispatcher!TypeOK, Request, StreamReq, Call
<1>2. OnWire(s)' = {}
  BY DEF Dispatcher!Dispatch, OnWire, NotAsked
<1>3. Lone(InBuffer(s)')
  BY <1>1, SpotsAppend DEF Dispatcher!Dispatch, InBuffer, NotAsked
<1> QED BY <1>2, <1>3 DEF AskedOnce, Lone

(***************************************************************************)
(* A step that adds no token.                                              *)
(***************************************************************************)
LEMMA NothingAdded ==
  ASSUME NEW s \in Streams, OneToken(s), server'[s] = server[s],
         Less(InInbox(s)', InInbox(s)), Less(InQueue(s)', InQueue(s)),
         NotAsked(s) => NotAsked(s)', AskedOnce(s) => AskedOnce(s)'
  PROVE  OneToken(s)'
BY DEF OneToken, Less

LEMMA SameIsLess == \A S : Less(S, S) /\ Less({}, S)
BY DEF Less, Lone

LEMMA NoSpots == \A T : SpotsOf(<<>>, T) = {}
BY DEF SpotsOf

LEMMA CloseTokens ==
  ASSUME TypeOK, NEW s \in Streams, OneToken(s), NEW error \in Cause, CloseStream(error),
         server' = server, received' = received, inbox' = inbox \/ inbox' = <<>>
  PROVE  OneToken(s)'
<1>1. /\ Dispatcher!TypeOK /\ partQueues[s] \in Seq(Part!Element)
  BY FlowTypes, TypeParts
<1>2. UNCHANGED <<buffered, written>>
  BY DEF CloseStream, Dispatcher!Close
<1>3. (NotAsked(s) => NotAsked(s)') /\ (AskedOnce(s) => AskedOnce(s)')
  BY <1>1, <1>2, WireQuiet
<1>4. Less(InInbox(s)', InInbox(s))
  <2>1. inbox' = <<>> => InInbox(s)' = {}
    BY NoSpots DEF InInbox
  <2>2. inbox' = inbox => InInbox(s)' = InInbox(s)
    BY DEF InInbox
  <2> QED BY <2>1, <2>2, SameIsLess
<1>5. Less(InQueue(s)', InQueue(s))
  <2>1. \/ partQueues'[s] = partQueues[s]
        \/ partQueues'[s] = Append(partQueues[s], Part!Done(error))
    BY DEF CloseStream, Part!Close
  <2>2. Part!Done(error) \in Part!Element /\ KindOf(Part!Done(error)) # "continue"
    BY DEF Part!Done, Part!Element, KindOf
  <2>3. CASE partQueues'[s] = partQueues[s]
    <3>1. InQueue(s)' = InQueue(s)
      BY <2>3 DEF InQueue
    <3> QED BY <3>1, SameIsLess
  <2>4. CASE partQueues'[s] = Append(partQueues[s], Part!Done(error))
    <3> DEFINE portions == {x \in Part!Element : KindOf(x) = "continue"}
    <3>1. /\ InQueue(s) = SpotsOf(partQueues[s], portions)
          /\ InQueue(s)' = SpotsOf(Append(partQueues[s], Part!Done(error)), portions)
          /\ Part!Done(error) \notin portions
      BY <2>2, <2>4 DEF InQueue
    <3> HIDE DEF portions
    <3>2. InQueue(s)' = InQueue(s)
      BY <1>1, <2>2, <3>1, SpotsAppend
    <3> QED BY <3>2, SameIsLess
  <2> QED BY <2>1, <2>3, <2>4
<1> QED BY <1>3, <1>4, <1>5, NothingAdded

(***************************************************************************)
(* The end of a portion goes from the inbox to the queue, and from there   *)
(* to the buffer as a request for more.                                    *)
(***************************************************************************)
LEMMA DataTokens ==
  ASSUME ReplyInv, NEW s \in Streams, OneToken(s), DataEvent, NoUncaught'
  PROVE  OneToken(s)'
<1>0. TypeOK
  BY DEF ReplyInv, CloseInv
<1>1. /\ Dispatcher!TypeOK /\ partQueues[s] \in Seq(Part!Element) /\ inbox \in Seq(Message)
      /\ inbox # <<>> /\ inbox' = Tail(inbox)
      /\ UNCHANGED <<buffered, written>> /\ server' = server /\ received' = received
  BY <1>0, FlowTypes, TypeParts DEF DataEvent, dispatcherVars, serverVars
<1>2. (NotAsked(s) => NotAsked(s)') /\ (AskedOnce(s) => AskedOnce(s)')
  BY <1>1, WireQuiet
<1> DEFINE m == Head(inbox)
           ends == {x \in Message : x.id = s /\ x.reply.kind = "continue"}
<1>3. m \in Message
  BY <1>1, HeadTailProperties
<1>4. /\ Less(InInbox(s)', InInbox(s))
      /\ m \in ends /\ Lone(InInbox(s)) => InInbox(s)' = {}
      /\ m \in ends => InInbox(s) # {}
  <2>1. InInbox(s) = SpotsOf(inbox, ends) /\ InInbox(s)' = SpotsOf(Tail(inbox), ends)
    BY <1>1 DEF InInbox
  <2> HIDE DEF ends
  <2> QED BY <1>1, <2>1, SpotsTail
<1>5. CASE partQueues'[s] = partQueues[s]
  <2>1. InQueue(s)' = InQueue(s)
    BY <1>5 DEF InQueue
  <2> QED BY <1>1, <1>2, <1>4, <2>1, SameIsLess, NothingAdded
<1>6. CASE /\ isOpen /\ m.id = s /\ m.reply \in PartReplies
           /\ partQueues'[s] = Append(partQueues[s], Part!Response(m.reply))
  <2> DEFINE e == Part!Response(m.reply)
             portions == {x \in Part!Element : KindOf(x) = "continue"}
  <2>1. e \in Part!Element /\ KindOf(e) = m.reply.kind
    BY <1>6, PartElements
  <2>2. /\ e \notin portions => InQueue(s)' = InQueue(s)
        /\ InQueue(s) = {} => Lone(InQueue(s)')
    <3>1. InQueue(s)' = SpotsOf(Append(partQueues[s], e), portions)
          /\ InQueue(s) = SpotsOf(partQueues[s], portions)
      BY <1>6 DEF InQueue
    <3> HIDE DEF e, portions
    <3> QED BY <1>1, <2>1, <3>1, SpotsAppend
  <2>3. CASE m.reply.kind # "continue"
    BY <1>1, <1>2, <1>4, <2>1, <2>2, <2>3, SameIsLess, NothingAdded
  <2>4. CASE m.reply.kind = "continue"
    <3>1. m \in ends
      BY <1>3, <1>6, <2>4
    <3>2. InQueue(s) = {} /\ NotAsked(s) /\ InInbox(s)' = {} /\ server[s] = "paused"
      BY <1>4, <3>1 DEF OneToken
    <3>3. NotAsked(s)' /\ AskedOnce(s)' /\ Lone(InQueue(s)')
      BY <1>2, <2>2, <3>2 DEF OneToken
    <3>4. Lone(InInbox(s)')
      BY <3>2 DEF Lone
    <3> QED BY <1>1, <3>2, <3>3, <3>4 DEF OneToken
  <2> QED BY <2>3, <2>4
<1>7. ~isOpen => partQueues'[s] = partQueues[s]
  BY DEF DataEvent, collectorVars
<1> QED BY <1>5, <1>6, <1>7, AddresseeOfParts

LEMMA ResumeTokens ==
  ASSUME ReplyInv, NEW s \in Streams, OneToken(s), NEW u \in Streams, ResumeStream(u)
  PROVE  OneToken(s)'
<1>0. TypeOK
  BY DEF ReplyInv, CloseInv
<1>1. /\ Dispatcher!TypeOK /\ Part!TypeOK /\ partQueues[s] \in Seq(Part!Element)
      /\ inbox' = inbox /\ server' = server /\ received' = received
  BY <1>0, FlowTypes, TypeParts DEF ResumeStream, serverVars, networkVars
<1>2. Less(InInbox(s)', InInbox(s)) /\ InInbox(s)' = InInbox(s)
  BY <1>1, SameIsLess DEF InInbox
<1>3. \/ UNCHANGED <<buffered, written>>
      \/ Dispatcher!Dispatch(StreamReq(u)) /\ KindOf(Head(partQueues[u])) = "continue"
  BY DEF ResumeStream, Advance, dispatcherVars
<1>4. CASE u # s
  <2>1. partQueues'[s] = partQueues[s]
    BY <1>1, <1>4 DEF ResumeStream, Part!Take, Part!TypeOK
  <2>2. InQueue(s)' = InQueue(s)
    BY <2>1 DEF InQueue
  <2>3. StreamReq(u) \in Request /\ StreamReq(u) # StreamReq(s)
    BY <1>4, RequestsAreTyped DEF Call, StreamReq
  <2>4. (NotAsked(s) => NotAsked(s)') /\ (AskedOnce(s) => AskedOnce(s)')
    BY <1>1, <1>3, <2>3, WireQuiet
  <2> QED BY <1>1, <1>2, <2>2, <2>4, SameIsLess, NothingAdded
<1>5. CASE u = s
  <2> DEFINE e == Head(partQueues[s])
             portions == {x \in Part!Element : KindOf(x) = "continue"}
  <2>1. partQueues[s] # <<>> /\ partQueues'[s] = Tail(partQueues[s])
    BY <1>1, <1>5 DEF ResumeStream, Part!Take, Part!TypeOK
  <2>2. e \in Part!Element
    BY <1>1, <2>1, HeadTailProperties
  <2>3. /\ Less(InQueue(s)', InQueue(s))
        /\ e \in portions /\ Lone(InQueue(s)) => InQueue(s)' = {}
        /\ e \in portions => InQueue(s) # {}
    <3>1. /\ InQueue(s) = SpotsOf(partQueues[s], portions)
          /\ InQueue(s)' = SpotsOf(Tail(partQueues[s]), portions)
      BY <2>1 DEF InQueue
    <3> HIDE DEF portions
    <3> QED BY <1>1, <2>1, <3>1, SpotsTail
  <2>4. CASE UNCHANGED <<buffered, written>>
    <3>1. (NotAsked(s) => NotAsked(s)') /\ (AskedOnce(s) => AskedOnce(s)')
      BY <1>1, <2>4, WireQuiet
    <3> QED BY <1>1, <1>2, <2>3, <3>1, NothingAdded
  <2>5. CASE Dispatcher!Dispatch(StreamReq(s)) /\ KindOf(e) = "continue"
    <3>1. e \in portions
      BY <2>2, <2>5
    <3>2. InQueue(s)' = {} /\ InInbox(s)' = {} /\ NotAsked(s) /\ server[s] = "paused"
      BY <1>2, <2>3, <3>1 DEF OneToken
    <3>3. AskedOnce(s)'
      BY <1>1, <2>5, <3>2, WireAsks
    <3> QED BY <1>1, <3>2, <3>3 DEF OneToken, Lone
  <2> QED BY <1>3, <1>5, <2>4, <2>5
<1> QED BY <1>4, <1>5

(***************************************************************************)
(* A request is passed on for the first time: a new call has an empty      *)
(* queue.                                                                  *)
(***************************************************************************)
LEMMA OpenTokens ==
  ASSUME ReplyInv, NEW s \in Streams, OneToken(s), NEW u \in Streams, OpenStream(u)
  PROVE  OneToken(s)'
<1>0. TypeOK
  BY DEF ReplyInv, CloseInv
<1>1. /\ Dispatcher!TypeOK /\ Part!TypeOK
      /\ inbox' = inbox /\ server' = server /\ received' = received
  BY <1>0, TypeParts DEF OpenStream, serverVars, networkVars
<1>2. InInbox(s)' = InInbox(s)
  BY <1>1 DEF InInbox
<1>3. Less(InQueue(s)', InQueue(s))
  <2>1. partQueues'[s] = partQueues[s] \/ partQueues'[s] = <<>>
    BY <1>1 DEF OpenStream, Part!Queue, Part!TypeOK
  <2>2. InQueue(s)' = InQueue(s) \/ InQueue(s)' = {}
    BY <2>1, NoSpots DEF InQueue
  <2> QED BY <2>2, SameIsLess
<1>4. (NotAsked(s) => NotAsked(s)') /\ (AskedOnce(s) => AskedOnce(s)')
  <2>1. Req(u) \in Request /\ Req(u) # StreamReq(s)
    BY RequestsAreTyped DEF Call, Req, StreamReq
  <2>2. Dispatcher!Dispatch(Req(u)) \/ UNCHANGED <<buffered, written>>
    BY DEF OpenStream, dispatcherVars
  <2> QED BY <1>1, <2>1, <2>2, WireQuiet
<1> QED BY <1>1, <1>2, <1>3, <1>4, SameIsLess, NothingAdded

LEMMA QuietTokens ==
  ASSUME ReplyInv, NEW s \in Streams, OneToken(s),
         \/ \E r \in Singles : Execute(r) \/ ResumeSingle(r)
         \/ \E u \in Streams : Pull(u) \/ Reiterate(u)
         \/ TransmitterClose \/ TimerFires \/ ServerEnds
  PROVE  OneToken(s)'
<1>0. TypeOK
  BY DEF ReplyInv, CloseInv
<1>1. Dispatcher!TypeOK
  BY <1>0, TypeParts
<1>2. /\ inbox' = inbox /\ partQueues' = partQueues
      /\ server' = server /\ received' = received
  BY DEF Execute, ResumeSingle, Pull, Reiterate, TransmitterClose, TimerFires,
         ServerEnds, clientVars, collectorVars, serverVars, networkVars
<1>3. InInbox(s)' = InInbox(s) /\ InQueue(s)' = InQueue(s)
  BY <1>2 DEF InInbox, InQueue
<1>4. (NotAsked(s) => NotAsked(s)') /\ (AskedOnce(s) => AskedOnce(s)')
  <2>1. ASSUME NEW r \in Singles
        PROVE  Req(r) \in Request /\ Req(r) # StreamReq(s)
    BY RequestsAreTyped DEF Call, Req, StreamReq
  <2>2. \/ \E r \in Singles : Dispatcher!Dispatch(Req(r)) \/ Dispatcher!DispatchNow(Req(r))
        \/ Dispatcher!TimerFires
        \/ UNCHANGED <<buffered, written>>
    BY DEF Execute, ResumeSingle, Pull, Reiterate, TransmitterClose, TimerFires,
           ServerEnds, clientVars, dispatcherVars, Dispatcher!Close
  <2> QED BY <1>1, <1>2, <2>1, <2>2, WireQuiet
<1> QED BY <1>2, <1>3, <1>4, SameIsLess, NothingAdded

(***************************************************************************)
(* The server takes a request off the wire.                                *)
(***************************************************************************)
LEMMA ReceiveTokens ==
  ASSUME ReplyInv, NEW s \in Streams, OneToken(s), ServerReceives
  PROVE  OneToken(s)'
<1>0. TypeOK /\ Requested /\ Dispatcher!IInv
  BY DEF ReplyInv, CloseInv
<1> DEFINE m == written[received + 1]
<1>1. /\ received \in Nat /\ received' = received + 1 /\ received + 1 \in 1 .. Len(written)
      /\ UNCHANGED <<inbox, partQueues, buffered, written>>
      /\ written \in Seq(Request) /\ Len(written) \in Nat /\ m \in Request
      /\ server \in [Call -> {"none", "working", "paused", "done"}]
      /\ s \in Call
  <2>1. /\ received \in Nat /\ written \in Seq(Request)
        /\ server \in [Call -> {"none", "working", "paused", "done"}] /\ s \in Call
    BY <1>0, FlowTypes, TypeParts DEF ServerTypes, Dispatcher!TypeOK
  <2>2. /\ received' = received + 1 /\ received < Len(written)
        /\ UNCHANGED <<inbox, partQueues, buffered, written>>
    BY DEF ServerReceives, clientVars, collectorVars, dispatcherVars
  <2> QED BY <2>1, <2>2, LenProperties, ElementOfSeq
<1>2. InInbox(s)' = InInbox(s) /\ InQueue(s)' = InQueue(s) /\ InBuffer(s)' = InBuffer(s)
  BY <1>1 DEF InInbox, InQueue, InBuffer
<1>3. OnWire(s)' \subseteq OnWire(s)
  BY <1>1 DEF OnWire, SpotsOf
<1>4. (NotAsked(s) => NotAsked(s)') /\ (AskedOnce(s) => AskedOnce(s)')
  BY <1>2, <1>3 DEF NotAsked, AskedOnce, Lone
<1>5. \/ server' = [server EXCEPT ![m.id] = "working"] /\ (~m.more \/ server[m.id] = "paused")
      \/ server' = server /\ m.more /\ server[m.id] # "paused"
  BY <1>1 DEF ServerReceives
<1>6. CASE m.id # s
  <2>1. server'[s] = server[s]
    BY <1>1, <1>5, <1>6
  <2> QED BY <1>2, <1>4, <2>1, SameIsLess, NothingAdded
<1>7. CASE m.id = s /\ m.more
  <2>1. m = StreamReq(s)
    BY <1>1, <1>7 DEF Request, StreamReq
  <2>2. received + 1 \in OnWire(s)
    BY <1>1, <2>1 DEF OnWire, SpotsOf
  <2>3. /\ server[s] = "paused" /\ InInbox(s) = {} /\ InQueue(s) = {}
        /\ InBuffer(s) = {} /\ Lone(OnWire(s))
    BY <2>2 DEF OneToken, NotAsked, AskedOnce
  <2>4. OnWire(s)' = {}
    <3> SUFFICES ASSUME NEW i \in OnWire(s)' PROVE FALSE
      OBVIOUS
    <3>1. i = received + 1
      BY <1>3, <2>2, <2>3 DEF Lone
    <3>2. i > received + 1
      BY <1>1 DEF OnWire
    <3> QED BY <1>1, <3>1, <3>2
  <2> QED BY <1>2, <2>3, <2>4 DEF OneToken, NotAsked, AskedOnce, Lone
<1>8. CASE m.id = s /\ ~m.more
  <2>1. m = Req(s)
    BY <1>1, <1>8 DEF Request, Req
  <2>2. server[s] = "none"
    <3> SUFFICES ASSUME server[s] # "none" PROVE FALSE
      OBVIOUS
    <3>1. PICK i \in 1 .. received : written[i] = Req(s)
      BY <1>0, <1>1 DEF Requested
    <3>2. /\ i \in DOMAIN submitted /\ received + 1 \in DOMAIN submitted
          /\ submitted[i] = Req(s) /\ submitted[received + 1] = Req(s)
      BY <1>0, <1>1, <2>1, <3>1, WrittenIsPrefix
    <3>3. i = received + 1
      <4>1. ~Req(s).more
        BY DEF Req
      <4>2. submitted[i] = submitted[received + 1] /\ ~submitted[i].more
        BY <3>2, <4>1
      <4> QED BY <1>0, <3>2, <4>2, Zenon DEF Requested
    <3> QED BY <1>1, <3>1, <3>3
  <2>3. InInbox(s) = {} /\ InQueue(s) = {} /\ NotAsked(s)
    BY <2>2 DEF OneToken
  <2> QED BY <1>2, <1>4, <2>3 DEF OneToken, NotAsked, AskedOnce, Lone
<1> QED BY <1>6, <1>7, <1>8

(***************************************************************************)
(* The server sends the end of a portion, and pauses.                      *)
(***************************************************************************)
LEMMA SendTokens ==
  ASSUME TypeOK, NEW s \in Streams, OneToken(s),
         NEW r \in Call, NEW v \in ResReplies \cup PartReplies, ServerSends(r, v),
         UNCHANGED <<partQueues, buffered, written, received>>,
         \/ (r # s \/ v.kind # "continue") /\ (server'[s] = server[s] \/ server[s] # "paused")
         \/ server'[s] = "paused"
  PROVE  OneToken(s)'
<1> DEFINE m == [id |-> r, reply |-> v]
           ends == {x \in Message : x.id = s /\ x.reply.kind = "continue"}
<1>1. /\ inbox \in Seq(Message) /\ inbox' = Append(inbox, m) /\ m \in Message
      /\ server[r] = "working"
  BY FlowTypes DEF ServerSends, Message
<1>2. InQueue(s)' = InQueue(s) /\ NotAsked(s)' = NotAsked(s) /\ AskedOnce(s)' = AskedOnce(s)
  BY DEF InQueue, NotAsked, AskedOnce, InBuffer, OnWire
<1>3. /\ m \notin ends => InInbox(s)' = InInbox(s)
      /\ InInbox(s) = {} => Lone(InInbox(s)')
  <2>1. InInbox(s) = SpotsOf(inbox, ends) /\ InInbox(s)' = SpotsOf(Append(inbox, m), ends)
    BY <1>1 DEF InInbox
  <2> HIDE DEF m, ends
  <2> QED BY <1>1, <2>1, SpotsAppend
<1>4. CASE m \notin ends
  BY <1>2, <1>3, <1>4 DEF OneToken
<1>5. CASE m \in ends
  <2>1. server[s] = "working" /\ server'[s] = "paused"
    BY <1>1, <1>5
  <2>2. InInbox(s) = {} /\ InQueue(s) = {} /\ NotAsked(s) /\ AskedOnce(s)
    BY <2>1 DEF OneToken
  <2> QED BY <1>2, <1>3, <2>1, <2>2 DEF OneToken
<1> QED BY <1>4, <1>5

LEMMA OneTokenNext ==
  ASSUME ReplyInv, ReplyInv', Next, NEW s \in Streams, OneToken(s)
  PROVE  OneToken(s)'
<1>0. TypeOK /\ NoUncaught'
  BY DEF ReplyInv, CloseInv
<1>1. CASE UserClose \/ WriteErrorEvent \/ DoneEvent \/ ErrorEvent
            \/ \E r \in Commits : CommitCloses(r)
  <2>1. PICK error \in Cause : CloseStream(error)
    BY <1>1 DEF UserClose, WriteErrorEvent, DoneEvent, ErrorEvent, CommitCloses, Cause
  <2>2. server' = server /\ received' = received /\ (inbox' = inbox \/ inbox' = <<>>)
    BY <1>1 DEF UserClose, WriteErrorEvent, DoneEvent, ErrorEvent, CommitCloses,
                serverVars, networkVars
  <2> QED BY <1>0, <2>1, <2>2, CloseTokens
<1>2. ASSUME NEW r \in Singles, ServerAnswers(r)
      PROVE  OneToken(s)'
  <2>1. r \in Call /\ r # s /\ Control("res") \in ResReplies
    BY <1>0, FlowTypes, RepliesAreTyped DEF Call
  <2>2. server' = [server EXCEPT ![r] = "done"] /\ ServerSends(r, Control("res"))
    BY <1>2 DEF ServerAnswers
  <2>3. server'[s] = server[s]
    BY <1>0, <2>1, <2>2, TypeParts DEF ServerTypes
  <2>4. UNCHANGED <<partQueues, buffered, written, received>>
    BY <1>2 DEF ServerAnswers, clientVars, collectorVars, dispatcherVars
  <2> QED BY <1>0, <2>1, <2>2, <2>3, <2>4, SendTokens
<1>3. ASSUME NEW u \in Streams, ServerStreams(u)
      PROVE  OneToken(s)'
  <2>1. u \in Call /\ s \in Call /\ ServerTypes
    BY <1>0, FlowTypes, TypeParts
  <2>2. UNCHANGED <<partQueues, buffered, written, received>>
    BY <1>3 DEF ServerStreams, clientVars, collectorVars, dispatcherVars
  <2>3. server[u] = "working"
    BY <1>3 DEF ServerStreams, ServerSends
  <2>4. CASE ServerSends(u, PartReply(produced[u] + 1)) /\ produced[u] < MaxParts
             /\ UNCHANGED server
    <3>1. PartReply(produced[u] + 1) \in PartReplies
      <4>1. produced[u] \in Nat
        BY <1>0, FlowTypes
      <4>2. produced[u] + 1 \in 1 .. MaxParts
        BY <2>4, <4>1, PortionIsPositive
      <4> QED BY <4>2, RepliesAreTyped
    <3>2. PartReply(produced[u] + 1).kind # "continue"
      BY DEF PartReply
    <3> QED BY <1>0, <2>1, <2>2, <2>4, <3>1, <3>2, SendTokens
  <2>5. CASE ServerSends(u, Control("continue")) /\ server' = [server EXCEPT ![u] = "paused"]
    <3>1. Control("continue") \in PartReplies
      BY RepliesAreTyped
    <3>2. server'[s] = IF u = s THEN "paused" ELSE server[s]
      BY <2>1, <2>5 DEF ServerTypes
    <3> QED BY <1>0, <2>1, <2>2, <2>5, <3>1, <3>2, SendTokens
  <2>6. CASE ServerSends(u, Control("done")) /\ server' = [server EXCEPT ![u] = "done"]
    <3>1. Control("done") \in PartReplies /\ Control("done").kind # "continue"
      BY RepliesAreTyped DEF Control
    <3>2. server'[s] = server[s] \/ server[s] # "paused"
      BY <2>1, <2>3, <2>6 DEF ServerTypes
    <3> QED BY <1>0, <2>1, <2>2, <2>6, <3>1, <3>2, SendTokens
  <2> QED BY <1>3, <2>4, <2>5, <2>6 DEF ServerStreams
<1> QED BY <1>0, <1>1, <1>2, <1>3, QuietTokens, OpenTokens, ResumeTokens, DataTokens,
           ReceiveTokens
        DEF Next, UserStep, ClientStep, ServerStep

TokenInv == \A s \in Streams : OneToken(s)

LEMMA InitToken == Init => TokenInv
<1> SUFFICES ASSUME Init, NEW s \in Streams
             PROVE  OneToken(s)
  BY DEF TokenInv
<1>1. /\ inbox = <<>> /\ partQueues[s] = <<>> /\ buffered = <<>> /\ written = <<>>
  BY DEF Init, Part!Init, Dispatcher!Init
<1> QED BY <1>1, NoSpots
        DEF OneToken, InInbox, InQueue, NotAsked, AskedOnce, InBuffer, OnWire, Lone

LEMMA StutterToken ==
  ASSUME TypeOK, UNCHANGED vars, NEW s \in Streams, OneToken(s)
  PROVE  OneToken(s)'
<1>1. /\ inbox' = inbox /\ partQueues' = partQueues /\ buffered' = buffered
      /\ written' = written /\ received' = received /\ server' = server
  BY DEF vars, collectorVars, dispatcherVars, serverVars, networkVars
<1>2. /\ InInbox(s)' = InInbox(s) /\ InQueue(s)' = InQueue(s)
      /\ NotAsked(s)' = NotAsked(s) /\ AskedOnce(s)' = AskedOnce(s)
  BY <1>1 DEF InInbox, InQueue, NotAsked, AskedOnce, InBuffer, OnWire
<1> QED BY <1>1, <1>2 DEF OneToken

LEMMA LoneCardinality ==
  ASSUME NEW S, Lone(S)
  PROVE  /\ Cardinality(S) \in {0, 1}
         /\ S = {} => Cardinality(S) = 0
<1>1. CASE S = {}
  BY <1>1, FS_EmptySet
<1>2. CASE S # {}
  <2>1. PICK i \in S : TRUE
    BY <1>2
  <2>2. S = {i}
    BY <2>1 DEF Lone
  <2> QED BY <1>2, <2>2, FS_Singleton
<1> QED BY <1>1, <1>2

(***************************************************************************)
(* The client asks the server for another portion only while the server    *)
(* waits to be asked, and once: what the server ends a portion with gives  *)
(* rise to one request for more, however the requests are batched          *)
(* (ResponsePartIterator.next, BatchDispatcher).                           *)
(***************************************************************************)
THEOREM MoreIsAskedOnce == Spec => []MoreOnlyWhenPaused
<1>1. ReplyInv /\ ReplyInv' /\ TokenInv /\ [Next]_vars => TokenInv'
  <2> SUFFICES ASSUME ReplyInv, ReplyInv', TokenInv, [Next]_vars, NEW s \in Streams
               PROVE  OneToken(s)'
    BY DEF TokenInv
  <2>1. TypeOK /\ OneToken(s)
    BY DEF ReplyInv, CloseInv, TokenInv
  <2> QED BY <2>1, OneTokenNext, StutterToken
<1>2. ReplyInv /\ TokenInv => MoreOnlyWhenPaused
  <2> SUFFICES ASSUME ReplyInv, TokenInv, NEW s \in Streams
               PROVE  MoreInFlight(s) <= IF server[s] = "paused" THEN 1 ELSE 0
    BY DEF MoreOnlyWhenPaused
  <2>1. TypeOK /\ OneToken(s)
    BY DEF ReplyInv, CloseInv, TokenInv
  <2>2. /\ received \in Nat /\ Len(written) \in Nat
    BY <2>1, TypeParts, LenProperties DEF ServerTypes, Dispatcher!TypeOK
  <2>3. OnWire(s) = {i \in received + 1 .. Len(written) : written[i] = StreamReq(s)}
    BY <2>2 DEF OnWire, SpotsOf
  <2>4. InBuffer(s) = {i \in 1 .. Len(buffered) : buffered[i] = StreamReq(s)}
    BY DEF InBuffer, SpotsOf
  <2>5. MoreInFlight(s) = Cardinality(OnWire(s)) + Cardinality(InBuffer(s))
    BY <2>3, <2>4 DEF MoreInFlight
  <2>6. /\ Lone(OnWire(s)) /\ Lone(InBuffer(s)) /\ (OnWire(s) = {} \/ InBuffer(s) = {})
        /\ server[s] # "paused" => OnWire(s) = {} /\ InBuffer(s) = {}
    BY <2>1 DEF OneToken, AskedOnce, NotAsked
  <2>7. /\ Cardinality(OnWire(s)) \in {0, 1} /\ Cardinality(InBuffer(s)) \in {0, 1}
        /\ OnWire(s) = {} => Cardinality(OnWire(s)) = 0
        /\ InBuffer(s) = {} => Cardinality(InBuffer(s)) = 0
    BY <2>6, LoneCardinality
  <2> QED BY <2>5, <2>6, <2>7
<1> QED BY <1>1, <1>2, InitToken, ReplyInvariance, PTL DEF Spec
=============================================================================
