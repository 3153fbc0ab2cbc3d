---------------------------- MODULE AnswersProofs -----------------------------
(***************************************************************************)
(* Theorems about the answers of one query (module Answers), for any       *)
(* answers, any number of iterations and any operations: however a Stream  *)
(* is iterated, no answer goes to two iterations, and none is lost but     *)
(* behind an iteration that stopped.                                       *)
(***************************************************************************)
EXTENDS Answers, SequenceTheorems, TLAPS

-----------------------------------------------------------------------------
(* The inductive invariant *)

\* The answers the server has, and what of them a user may be given.
List == Results[Message(query)]
Pairs == {<<n, Values[query][n]>> : n \in {m \in 1 .. Len(List) : ~Throws(Values[query][m])}}

Element == [kind : {"part"}, answers : Seq(Nat)]
              \cup {[kind |-> "done"], [kind |-> "closed"]}
Outcomes == {"none", "all", "null", "value", "true", "false", "closed", "failed"}

TypeOK ==
    /\ query \in DOMAIN Results
    /\ sent \in 0 .. Len(List)
    /\ queue \in Seq(Element)
    /\ waiting \in Seq(Iteration)
    /\ stage \in [Iteration -> {"idle", "taking", "within", "ended"}]
    /\ operation \in [Iteration -> Operations \cup {"none", "await"}]
    /\ rest \in [Iteration -> Seq(Nat)]
    /\ given \in [Iteration -> Seq(Pairs)]
    /\ result \in [Iteration -> Outcomes]
    /\ taken \in [Iteration -> Seq(Seq(Nat))]

Numbers(element) == IF element.kind = "part" THEN ToSet(element.answers) ELSE {}
NumbersOf(q) == UNION {Numbers(q[k]) : k \in 1 .. Len(q)}

Rising(s) == \A k, l \in 1 .. Len(s) : k < l => s[k] < s[l]

\* The parts in a queue come in the order of the server, and so do the
\* answers within each of them.
InOrder(q) ==
    /\ \A k \in 1 .. Len(q) : q[k].kind = "part" => Rising(q[k].answers)
    /\ \A k, l \in 1 .. Len(q) :
          k < l => \A m \in Numbers(q[k]), n \in Numbers(q[l]) : m < n

\* What was sent is in the queue or taken by one iteration; what is in the
\* queue comes after all that was taken.
Shared ==
    /\ NumbersOf(queue) \cup UNION {NumbersIn(taken[i]) : i \in Iteration} = 1 .. sent
    /\ \A i, j \in Iteration : i # j => NumbersIn(taken[i]) \cap NumbersIn(taken[j]) = {}
    /\ \A i \in Iteration : \A m \in NumbersIn(taken[i]), n \in NumbersOf(queue) : m < n

\* An iteration waits in one place at most, and only while it takes.
WaitsOnce ==
    /\ \A k, l \in 1 .. Len(waiting) : waiting[k] = waiting[l] => k = l
    /\ \A k \in 1 .. Len(waiting) : stage[waiting[k]] = "taking"

\* An iteration gives, in order, what the filter keeps of the parts it has
\* taken; what is left of the last part comes after what it gave.
Gives(i) ==
    /\ stage[i] = "within" => taken[i] # <<>> /\ ToSet(rest[i]) \subseteq ToSet(Last(taken[i]))
    /\ stage[i] # "within" => rest[i] = <<>>
    /\ Rising(rest[i])
    /\ \A k, l \in 1 .. Len(given[i]) : k < l => given[i][k][1] < given[i][l][1]
    /\ Given(i) \subseteq NumbersIn(taken[i])
    /\ \A m \in Given(i), n \in ToSet(rest[i]) : m < n
    /\ \A n \in NumbersIn(taken[i]) \cap Kept :
          \/ n \in Given(i) \cup ToSet(rest[i])
          \/ /\ stage[i] = "ended" /\ ~TookTheEnd(i)
             /\ n \in ToSet(Last(taken[i]))
             /\ \A m \in Given(i) : m < n

AnswerInv ==
    TypeOK /\ InOrder(queue) /\ Shared /\ WaitsOnce /\ \A i \in Iteration : Gives(i)

-----------------------------------------------------------------------------
(* Sequences of numbers and of parts *)

LEMMA ToSetOf ==
  ASSUME NEW S, NEW s \in Seq(S)
  PROVE  /\ ToSet(s) \subseteq S
         /\ \A x : x \in ToSet(s) <=> \E k \in 1 .. Len(s) : s[k] = x
         /\ \A x \in S : ToSet(Append(s, x)) = ToSet(s) \cup {x}
         /\ s # <<>> => Head(s) \in ToSet(s) /\ ToSet(s) = {Head(s)} \cup ToSet(Tail(s))
<1>0. Len(s) \in Nat /\ DOMAIN s = 1 .. Len(s) /\ \A k \in 1 .. Len(s) : s[k] \in S
  BY LenProperties, ElementOfSeq
<1>1. /\ ToSet(s) \subseteq S
      /\ \A x : x \in ToSet(s) <=> \E k \in 1 .. Len(s) : s[k] = x
  BY <1>0 DEF ToSet
<1>2. ASSUME NEW x \in S
      PROVE  ToSet(Append(s, x)) = ToSet(s) \cup {x}
  <2>1. /\ DOMAIN Append(s, x) = 1 .. Len(s) + 1
        /\ \A k \in 1 .. Len(s) : Append(s, x)[k] = s[k]
        /\ Append(s, x)[Len(s) + 1] = x
    BY AppendProperties, LenProperties
  <2> QED BY <1>0, <2>1 DEF ToSet
<1>3. ASSUME s # <<>>
      PROVE  Head(s) \in ToSet(s) /\ ToSet(s) = {Head(s)} \cup ToSet(Tail(s))
  <2>1. Len(s) \in Nat \ {0} /\ Head(s) = s[1]
    BY <1>3, EmptySeq
  <2>2. /\ DOMAIN Tail(s) = 1 .. Len(s) - 1
        /\ \A k \in 1 .. Len(s) - 1 : Tail(s)[k] = s[k + 1]
    BY <1>3, HeadTailProperties, LenProperties
  <2>3. ToSet(Tail(s)) \subseteq ToSet(s) /\ Head(s) \in ToSet(s)
    BY <1>0, <2>1, <2>2 DEF ToSet
  <2>4. \A k \in 1 .. Len(s) : k = 1 \/ (k - 1 \in 1 .. Len(s) - 1 /\ Tail(s)[k - 1] = s[k])
    BY <2>1, <2>2
  <2>5. ToSet(s) \subseteq {Head(s)} \cup ToSet(Tail(s))
    <3> SUFFICES ASSUME NEW k \in 1 .. Len(s)
                 PROVE  s[k] \in {Head(s)} \cup ToSet(Tail(s))
      BY <1>0 DEF ToSet
    <3>1. s[k] = Head(s) \/ \E l \in DOMAIN Tail(s) : Tail(s)[l] = s[k]
      BY <2>1, <2>2, <2>4
    <3> QED BY <3>1 DEF ToSet
  <2> QED BY <2>3, <2>5
<1> QED BY <1>1, <1>2, <1>3

LEMMA RisingTail ==
  ASSUME NEW s \in Seq(Nat), s # <<>>, Rising(s)
  PROVE  /\ Tail(s) \in Seq(Nat) /\ Rising(Tail(s)) /\ Head(s) \in Nat
         /\ \A n \in ToSet(Tail(s)) : Head(s) < n
<1>1. /\ Len(s) \in Nat \ {0} /\ Head(s) = s[1] /\ Head(s) \in Nat
      /\ Tail(s) \in Seq(Nat) /\ Len(Tail(s)) = Len(s) - 1
      /\ \A k \in 1 .. Len(s) - 1 : Tail(s)[k] = s[k + 1]
  BY HeadTailProperties, EmptySeq, LenProperties
<1>2. \A k \in 1 .. Len(s) - 1 : s[1] < Tail(s)[k]
  BY <1>1 DEF Rising
<1>3. \A n \in ToSet(Tail(s)) : Head(s) < n
  <2> TAKE n \in ToSet(Tail(s))
  <2>1. PICK k \in 1 .. Len(Tail(s)) : Tail(s)[k] = n
    BY <1>1, ToSetOf
  <2> QED BY <1>1, <1>2, <2>1
<1>4. Rising(Tail(s))
  BY <1>1 DEF Rising
<1> QED BY <1>1, <1>3, <1>4

LEMMA NumbersOfParts ==
  ASSUME NEW p \in Seq(Seq(Nat)), NEW s \in Seq(Nat)
  PROVE  /\ NumbersIn(Append(p, s)) = NumbersIn(p) \cup ToSet(s)
         /\ Append(p, s) # <<>> /\ Last(Append(p, s)) = s
         /\ NumbersIn(p) \subseteq Nat
         /\ p # <<>> => ToSet(Last(p)) \subseteq NumbersIn(p)
<1>0. /\ Len(p) \in Nat /\ DOMAIN p = 1 .. Len(p) /\ \A k \in 1 .. Len(p) : p[k] \in Seq(Nat)
      /\ DOMAIN Append(p, s) = 1 .. Len(p) + 1 /\ Len(Append(p, s)) = Len(p) + 1
      /\ \A k \in 1 .. Len(p) : Append(p, s)[k] = p[k]
      /\ Append(p, s)[Len(p) + 1] = s
  BY AppendProperties, LenProperties, ElementOfSeq
<1>1. NumbersIn(Append(p, s)) = NumbersIn(p) \cup ToSet(s)
  <2>1. \A k \in 1 .. Len(p) + 1 : k \in 1 .. Len(p) \/ k = Len(p) + 1
    BY <1>0
  <2>2. 1 .. Len(p) \subseteq 1 .. Len(p) + 1 /\ Len(p) + 1 \in 1 .. Len(p) + 1
    BY <1>0
  <2> QED BY <1>0, <2>1, <2>2 DEF NumbersIn
<1>2. Append(p, s) # <<>> /\ Last(Append(p, s)) = s
  <2>1. Len(Append(p, s)) # 0 /\ Len(<<>>) = 0
    BY <1>0
  <2> QED BY <1>0, <2>1 DEF Last
<1>3. NumbersIn(p) \subseteq Nat
  BY <1>0, ToSetOf DEF NumbersIn
<1>4. p # <<>> => ToSet(Last(p)) \subseteq NumbersIn(p)
  <2>1. p # <<>> => Len(p) \in 1 .. Len(p)
    BY <1>0, EmptySeq
  <2> QED BY <1>0, <2>1 DEF NumbersIn, Last
<1> QED BY <1>1, <1>2, <1>3, <1>4

LEMMA QueueGrows ==
  ASSUME NEW q \in Seq(Element), NEW e \in Element
  PROVE  /\ NumbersOf(Append(q, e)) = NumbersOf(q) \cup Numbers(e)
         /\ /\ InOrder(q) /\ (e.kind = "part" => Rising(e.answers))
            /\ \A m \in NumbersOf(q), n \in Numbers(e) : m < n
            => InOrder(Append(q, e))
<1>0. /\ Len(q) \in Nat /\ Len(Append(q, e)) = Len(q) + 1
      /\ \A k \in 1 .. Len(q) : Append(q, e)[k] = q[k]
      /\ Append(q, e)[Len(q) + 1] = e
  BY AppendProperties, LenProperties
<1>1. /\ \A k \in 1 .. Len(q) + 1 : k \in 1 .. Len(q) \/ k = Len(q) + 1
      /\ 1 .. Len(q) \subseteq 1 .. Len(q) + 1 /\ Len(q) + 1 \in 1 .. Len(q) + 1
      /\ \A k, l \in 1 .. Len(q) + 1 : k < l => k \in 1 .. Len(q)
  BY <1>0
<1>2. NumbersOf(Append(q, e)) = NumbersOf(q) \cup Numbers(e)
  BY <1>0, <1>1 DEF NumbersOf
<1>3. ASSUME InOrder(q), e.kind = "part" => Rising(e.answers),
             \A m \in NumbersOf(q), n \in Numbers(e) : m < n
      PROVE  InOrder(Append(q, e))
  <2>1. \A k \in 1 .. Len(q) + 1 :
           Append(q, e)[k].kind = "part" => Rising(Append(q, e)[k].answers)
    BY <1>0, <1>1, <1>3 DEF InOrder
  <2>2. ASSUME NEW k \in 1 .. Len(q) + 1, NEW l \in 1 .. Len(q) + 1, k < l
        PROVE  \A m \in Numbers(Append(q, e)[k]), n \in Numbers(Append(q, e)[l]) : m < n
    <3>1. CASE l \in 1 .. Len(q)
      BY <1>0, <1>1, <1>3, <2>2, <3>1 DEF InOrder
    <3>2. CASE l = Len(q) + 1
      <4>1. Numbers(q[k]) \subseteq NumbersOf(q)
        BY <1>1, <2>2 DEF NumbersOf
      <4>2. Append(q, e)[k] = q[k] /\ Append(q, e)[l] = e
        BY <1>0, <1>1, <2>2, <3>2
      <4> QED BY <1>3, <4>1, <4>2
    <3> QED BY <1>1, <3>1, <3>2
  <2> QED BY <1>0, <2>1, <2>2 DEF InOrder
<1> QED BY <1>2, <1>3

LEMMA QueueShrinks ==
  ASSUME NEW q \in Seq(Element), q # <<>>, InOrder(q)
  PROVE  /\ NumbersOf(q) = Numbers(Head(q)) \cup NumbersOf(Tail(q))
         /\ InOrder(Tail(q)) /\ Tail(q) \in Seq(Element) /\ Head(q) \in Element
         /\ Head(q).kind = "part" => Rising(Head(q).answers)
         /\ \A m \in Numbers(Head(q)), n \in NumbersOf(Tail(q)) : m < n
<1>0. /\ Len(q) \in Nat \ {0} /\ Len(Tail(q)) = Len(q) - 1 /\ Head(q) = q[1]
      /\ Head(q) \in Element /\ Tail(q) \in Seq(Element)
      /\ \A k \in 1 .. Len(q) - 1 : Tail(q)[k] = q[k + 1]
  BY HeadTailProperties, EmptySeq, LenProperties
<1>1. /\ \A k \in 1 .. Len(q) - 1 : k + 1 \in 1 .. Len(q) /\ 1 < k + 1
      /\ \A k \in 1 .. Len(q) : k = 1 \/ k - 1 \in 1 .. Len(q) - 1
      /\ \A k \in 1 .. Len(q) : (k - 1) + 1 = k
      /\ 1 \in 1 .. Len(q)
  BY <1>0
<1>2. NumbersOf(q) = Numbers(Head(q)) \cup NumbersOf(Tail(q))
  <2>1. \A k \in 1 .. Len(q) : Numbers(q[k]) \subseteq Numbers(Head(q)) \cup NumbersOf(Tail(q))
    <3> TAKE k \in 1 .. Len(q)
    <3>1. k = 1 \/ (k - 1 \in 1 .. Len(q) - 1 /\ Tail(q)[k - 1] = q[k])
      BY <1>0, <1>1
    <3> QED BY <1>0, <3>1 DEF NumbersOf
  <2>2. \A k \in 1 .. Len(q) - 1 : Numbers(Tail(q)[k]) \subseteq NumbersOf(q)
    BY <1>0, <1>1 DEF NumbersOf
  <2>3. Numbers(Head(q)) \subseteq NumbersOf(q)
    BY <1>0, <1>1 DEF NumbersOf
  <2> QED BY <1>0, <2>1, <2>2, <2>3 DEF NumbersOf
<1>3. InOrder(Tail(q))
  <2>1. \A k, l \in 1 .. Len(q) - 1 : k < l => k + 1 < l + 1
    BY <1>0
  <2> QED BY <1>0, <1>1, <2>1 DEF InOrder
<1>4. \A m \in Numbers(Head(q)), n \in NumbersOf(Tail(q)) : m < n
  <2>1. \A k \in 1 .. Len(q) - 1 : \A m \in Numbers(q[1]), n \in Numbers(q[k + 1]) : m < n
    BY <1>1 DEF InOrder
  <2> QED BY <1>0, <2>1 DEF NumbersOf
<1>5. Head(q).kind = "part" => Rising(Head(q).answers)
  BY <1>0, <1>1 DEF InOrder
<1> QED BY <1>0, <1>2, <1>3, <1>4, <1>5

-----------------------------------------------------------------------------
(* The answers and their conversion *)

\* The message of a request is called as the method.
LEMMA MessageIsMethod == \A q \in DOMAIN Queries : Message(q) = q
<1> SUFFICES ASSUME NEW q \in DOMAIN Queries PROVE Message(q) = q
  OBVIOUS
<1>1. q = "getRules" \/ Queries[q].builder = <<"QueryManager", q>>
  BY DEF Queries, Stream, Execute
<1>2. q # "getRules" => QueryManagerBuilders[q].message = q
  BY DEF Queries, QueryManagerBuilders, Builder
<1>3. CASE q = "getRules"
  <2>1. Queries[q].builder = <<"LogicManager", "getRules">>
    BY <1>3 DEF Queries, LogicManagerMethods, Stream, Execute
  <2>2. LogicManagerBuilders["getRules"].message = "getRules"
    BY DEF LogicManagerBuilders, Builder
  <2> QED BY <1>3, <2>1, <2>2 DEF Message, Builders
<1>4. CASE q # "getRules"
  <2>1. Queries[q].builder = <<"QueryManager", q>>
    BY <1>1, <1>4
  <2>2. Builders["QueryManager"] = QueryManagerBuilders
    BY DEF Builders
  <2> QED BY <1>2, <1>4, <2>1, <2>2 DEF Message
<1> QED BY <1>3, <1>4

LEMMA ListIsTheAnswers ==
  ASSUME query \in DOMAIN Results
  PROVE  Len(List) \in Nat /\ DOMAIN List = 1 .. Len(List) /\ List = Results[query]
<1>1. List = Results[query]
  BY ResultsAreAnswers, MessageIsMethod DEF List
<1> QED BY <1>1, ResultsAreAnswers DEF IsList

LEMMA NotThrown ==
  ASSUME NEW value, ~Throws(value)
  PROVE  \A code \in ErrorCodes : value # Error(code)
<1> SUFFICES ASSUME NEW code \in ErrorCodes, value = Error(code) PROVE FALSE
  OBVIOUS
<1>1. value # Null
  BY NullIsNoError
<1>2. value.class = "Error"
  BY DEF Error
<1> QED BY <1>1, <1>2 DEF Throws

LEMMA ConceptIsTheServers ==
  ASSUME NEW proto, ScopedIfRole(proto), ~Throws(ConceptOf(proto))
  PROVE  SameConcept(ConceptOf(proto), proto)
<1>0. \A code \in ErrorCodes : ConceptOf(proto) # Error(code)
  BY NotThrown
<1>1. CASE proto.thing # Null
  <2> DEFINE thing == proto.thing
  <2>1. ThingOf(thing) # Error("BAD_ENCODING") /\ ThingOf(thing) # Error("BAD_VALUE_TYPE")
    BY <1>0, <1>1 DEF ConceptOf, ErrorCodes
  <2> HIDE DEF thing
  <2>2. thing # Null
    BY <1>1 DEF thing
  <2>3. ThingOf(thing).iid = thing.iid
    BY <2>1, <2>2 DEF ThingOf, EntityOf, RelationOf, AttributeOf, NewThing
  <2> QED BY <1>1, <2>3 DEF ConceptOf, SameConcept, thing
<1>2. CASE proto.thing = Null
  <2> DEFINE type == proto.type
  <2>1. \A code \in ErrorCodes : TypeOf(type) # Error(code)
    BY <1>0, <1>2 DEF ConceptOf
  <2>2. type # Null
    BY <2>1 DEF TypeOf, ErrorCodes
  <2>3. type.scope = Null \/ type.encoding = "ROLE_TYPE"
    BY <1>2, <2>2 DEF ScopedIfRole
  <2> HIDE DEF type
  <2>4. TypeOf(type).label = Label(type.scope, type.label)
    <3>1. CASE type.encoding = "ROLE_TYPE"
      BY <2>2, <3>1 DEF TypeOf, RoleTypeOf, NewType
    <3>2. CASE type.encoding # "ROLE_TYPE"
      <4>1. TypeOf(type) = ThingTypeOf(type) /\ type.scope = Null
        BY <2>2, <2>3, <3>2 DEF TypeOf
      <4>2. ThingTypeOf(type) # Error("BAD_ENCODING") /\ ThingTypeOf(type) # Error("BAD_VALUE_TYPE")
        BY <2>1, <4>1 DEF ErrorCodes
      <4>3. ThingTypeOf(type).label = Label(Null, type.label)
        BY <2>2, <4>2 DEF ThingTypeOf, EntityTypeOf, RelationTypeOf, AttributeTypeOf, NewType
      <4> QED BY <4>1, <4>3
    <3> QED BY <3>1, <3>2
  <2> QED BY <1>2, <2>4 DEF ConceptOf, SameConcept, type
<1> QED BY <1>1, <1>2

\* Ownerships and, but where an attribute has the variable, relations are
\* found where the server put them; nothing is found elsewhere.
LEMMA ExplainablesAreTheServers ==
  ASSUME NEW told
  PROVE  SameExplainables(ExplainablesOf(told), told)
<1> DEFINE kept == ExplainablesOf(told)
           pairs == UNION {{p} \X DOMAIN told.ownerships[p] : p \in DOMAIN told.ownerships}
<1>1. /\ kept.relations = [v \in DOMAIN told.relations \cup DOMAIN told.attributes |->
                              IF v \in DOMAIN told.attributes THEN told.attributes[v]
                              ELSE told.relations[v]]
      /\ kept.attributes = <<>>
      /\ kept.ownerships = [pair \in pairs |-> told.ownerships[pair[1]][pair[2]]]
  BY DEF ExplainablesOf
<1> HIDE DEF kept, pairs
<1>2. \A v \in DOMAIN told.relations \ DOMAIN told.attributes :
         Explainable(kept.relations, v) = told.relations[v]
  BY <1>1 DEF Explainable
<1>3. \A v \in DOMAIN kept.relations :
         \/ v \in DOMAIN told.relations /\ kept.relations[v] = told.relations[v]
         \/ v \in DOMAIN told.attributes /\ kept.relations[v] = told.attributes[v]
  BY <1>1
<1>4. DOMAIN kept.attributes = {}
  BY <1>1
<1>5. ASSUME NEW o \in DOMAIN told.ownerships, NEW a \in DOMAIN told.ownerships[o]
      PROVE  Explainable(kept.ownerships, <<o, a>>) = told.ownerships[o][a]
  <2>1. <<o, a>> \in pairs
    BY DEF pairs
  <2> QED BY <1>1, <2>1 DEF Explainable
<1>6. ASSUME NEW pair \in DOMAIN kept.ownerships
      PROVE  pair[1] \in DOMAIN told.ownerships /\ pair[2] \in DOMAIN told.ownerships[pair[1]]
  <2>1. PICK p \in DOMAIN told.ownerships : pair \in {p} \X DOMAIN told.ownerships[p]
    BY <1>1 DEF pairs
  <2>2. pair[1] = p /\ pair[2] \in DOMAIN told.ownerships[p]
    BY <2>1
  <2> QED BY <2>1, <2>2
<1>7. SameExplainables(kept, told)
  BY <1>2, <1>3, <1>4, <1>5, <1>6 DEF SameExplainables
<1> QED BY <1>7 DEF kept

LEMMA MapIsTheServers ==
  ASSUME NEW proto, EachScopedIfRole(proto.map), ~Throws(ConceptMapOf(proto))
  PROVE  SameMap(ConceptMapOf(proto), proto)
<1> DEFINE map == [v \in DOMAIN proto.map |-> ConceptOf(proto.map[v])]
           explained == ExplainablesOf(proto.explainables)
           told == proto.explainables
           whole == [class |-> "ConceptMap", map |-> map, explainables |-> explained]
<1>1. ConceptMapOf(proto) # Error("BAD_ANSWER")
  BY NotThrown DEF ErrorCodes
<1>2. ConceptMapOf(proto) = Unless(\E v \in DOMAIN map : Throws(map[v]), whole)
  BY Zenon DEF ConceptMapOf
<1>3. (\A v \in DOMAIN map : ~Throws(map[v])) /\ ConceptMapOf(proto) = whole
  <2> HIDE DEF whole, map
  <2> QED BY <1>1, <1>2 DEF Unless
<1>4. \A v \in DOMAIN proto.map : SameConcept(map[v], proto.map[v])
  BY <1>3, ConceptIsTheServers DEF EachScopedIfRole
<1>5. SameExplainables(explained, told)
  BY ExplainablesAreTheServers
<1>6. ConceptMapOf(proto).map = map /\ ConceptMapOf(proto).explainables = explained
  BY <1>3
<1> HIDE DEF explained
<1> QED BY <1>4, <1>5, <1>6 DEF SameMap

\* An answer that is converted without an error is the server's.
LEMMA ConversionIsTheServers ==
  ASSUME NEW of, NEW proto, IsAnswer(of, proto), ~Throws(ConvertAnswer(of, proto)),
         of \in {"ConceptMap", "ConceptMapGroup", "Numeric", "NumericGroup", "Explanation",
                "Rule", "void"}
  PROVE  Same(of, ConvertAnswer(of, proto), proto)
<1> DEFINE value == ConvertAnswer(of, proto)
<1>0. \A code \in ErrorCodes : value # Error(code)
  BY NotThrown
<1>1. CASE of = "ConceptMap"
  <2>1. value = ConceptMapOf(proto) /\ EachScopedIfRole(proto.map)
    BY <1>1 DEF ConvertAnswer, IsAnswer
  <2>2. SameMap(value, proto)
    BY <2>1, MapIsTheServers
  <2> QED BY <1>1, <2>2 DEF Same
<1>2. CASE of = "ConceptMapGroup"
  <2> DEFINE owner == ConceptOf(proto.owner)
             maps == [k \in DOMAIN proto.maps |-> ConceptMapOf(proto.maps[k])]
             whole == [class |-> "ConceptMapGroup", owner |-> owner, maps |-> maps]
  <2>1. value = Unless(Throws(owner) \/ \E k \in DOMAIN maps : Throws(maps[k]), whole)
    BY <1>2, Zenon DEF ConvertAnswer, ConceptMapGroupOf
  <2>2. ~Throws(owner) /\ (\A k \in DOMAIN maps : ~Throws(maps[k])) /\ value = whole
    <3> HIDE DEF whole, maps, owner, value
    <3> QED BY <1>0, <2>1 DEF Unless, ErrorCodes
  <2>3. /\ ScopedIfRole(proto.owner) /\ IsList(proto.maps)
        /\ \A k \in DOMAIN proto.maps : EachScopedIfRole(proto.maps[k].map)
    BY <1>2 DEF IsAnswer
  <2>4. SameConcept(owner, proto.owner)
    BY <2>2, <2>3, ConceptIsTheServers
  <2>5. \A k \in DOMAIN maps : SameMap(maps[k], proto.maps[k])
    BY <2>2, <2>3, MapIsTheServers
  <2>6. Len(maps) = Len(proto.maps)
    BY <2>3 DEF IsList
  <2>7. value.owner = owner /\ value.maps = maps
    BY <2>2
  <2> HIDE DEF value, maps, owner
  <2>8. SameConcept(value.owner, proto.owner) /\ Len(value.maps) = Len(proto.maps)
        /\ \A k \in DOMAIN value.maps : SameMap(value.maps[k], proto.maps[k])
    BY <2>4, <2>5, <2>6, <2>7
  <2>9. Same(of, value, proto)
    BY <1>2, <2>8 DEF Same
  <2> QED BY <2>9 DEF value
<1>3. CASE of = "Numeric"
  <2>1. value = NumericOf(proto) /\ (proto.case = "NAN" => proto.value = Null)
    BY <1>3 DEF ConvertAnswer, IsAnswer, IsNumber
  <2>2. value.value = proto.value
    BY <1>0, <2>1 DEF NumericOf, ErrorCodes
  <2> QED BY <1>3, <2>2 DEF Same
<1>4. CASE of = "NumericGroup"
  <2> DEFINE owner == ConceptOf(proto.owner)
             numeric == NumericOf(proto.number)
             whole == [class |-> "NumericGroup", owner |-> owner, numeric |-> numeric]
  <2>1. value = Unless(Throws(owner) \/ Throws(numeric), whole)
    BY <1>4, Zenon DEF ConvertAnswer, NumericGroupOf
  <2>2. ~Throws(owner) /\ ~Throws(numeric) /\ value = whole
    <3> HIDE DEF whole, owner, numeric, value
    <3> QED BY <1>0, <2>1 DEF Unless, ErrorCodes
  <2>3. SameConcept(owner, proto.owner)
    BY <1>4, <2>2, ConceptIsTheServers DEF IsAnswer
  <2>4. numeric.value = proto.number.value
    <3>1. \A code \in ErrorCodes : numeric # Error(code)
      BY <2>2, NotThrown
    <3>2. proto.number.case = "NAN" => proto.number.value = Null
      BY <1>4 DEF IsAnswer, IsNumber
    <3> QED BY <3>1, <3>2 DEF NumericOf, ErrorCodes
  <2>5. value.owner = owner /\ value.numeric = numeric
    BY <2>2
  <2> HIDE DEF value, owner, numeric
  <2>6. SameConcept(value.owner, proto.owner) /\ value.numeric.value = proto.number.value
    BY <2>3, <2>4, <2>5
  <2>7. Same(of, value, proto)
    BY <1>4, <2>6 DEF Same
  <2> QED BY <2>7 DEF value
<1>5. CASE of = "Explanation"
  <2> DEFINE condition == ConceptMapOf(proto.condition)
             conclusion == ConceptMapOf(proto.conclusion)
             whole == [class |-> "Explanation", rule |-> RuleOf(proto.rule),
                       condition |-> condition, conclusion |-> conclusion,
                       variableMapping |-> proto.varMapping]
  <2>1. value = Unless(Throws(condition) \/ Throws(conclusion), whole)
    BY <1>5, Zenon DEF ConvertAnswer, ExplanationOf
  <2>2. ~Throws(condition) /\ ~Throws(conclusion) /\ value = whole
    <3> HIDE DEF whole, condition, conclusion, value
    <3> QED BY <1>0, <2>1 DEF Unless, ErrorCodes
  <2>3. SameMap(condition, proto.condition) /\ SameMap(conclusion, proto.conclusion)
    BY <1>5, <2>2, MapIsTheServers DEF IsAnswer
  <2>4. /\ value.condition = condition /\ value.conclusion = conclusion
        /\ value.rule = RuleOf(proto.rule) /\ value.variableMapping = proto.varMapping
    BY <2>2
  <2>5. RuleOf(proto.rule).label = proto.rule.label
    BY DEF RuleOf
  <2> HIDE DEF value, condition, conclusion
  <2>6. /\ SameMap(value.condition, proto.condition) /\ SameMap(value.conclusion, proto.conclusion)
        /\ value.rule.label = proto.rule.label /\ value.variableMapping = proto.varMapping
    BY <2>3, <2>4, <2>5
  <2>7. Same(of, value, proto)
    BY <1>5, <2>6 DEF Same
  <2> QED BY <2>7 DEF value
<1>6. CASE of = "Rule"
  BY <1>6 DEF ConvertAnswer, RuleOf, Same
<1>7. CASE of = "void"
  BY <1>7 DEF Same
<1> QED BY <1>1, <1>2, <1>3, <1>4, <1>5, <1>6, <1>7

LEMMA AnswersHaveAKind ==
  \A q \in DOMAIN Queries :
     Queries[q].of \in {"ConceptMap", "ConceptMapGroup", "Numeric", "NumericGroup",
                        "Explanation", "Rule", "void"}
BY DEF Queries, Stream, Execute, LogicManagerMethods
-----------------------------------------------------------------------------
(* The steps *)

LEMMA FirstGiven ==
  ASSUME NEW s \in Seq(Pairs), NEW n \in 1 .. Len(List), ~Throws(Values[query][n]), TypeOK
  PROVE  LET numbers(q) == {q[k][1] : k \in DOMAIN q}
             longer == Append(s, <<n, Values[query][n]>>)
         IN  /\ longer \in Seq(Pairs)
             /\ numbers(longer) = numbers(s) \cup {n}
             /\ numbers(s) \subseteq Nat
             /\ /\ \A k, l \in 1 .. Len(s) : k < l => s[k][1] < s[l][1]
                /\ \A m \in numbers(s) : m < n
                => \A k, l \in 1 .. Len(longer) : k < l => longer[k][1] < longer[l][1]
<1> DEFINE numbers(q) == {q[k][1] : k \in DOMAIN q}
           pair == <<n, Values[query][n]>>
           longer == Append(s, pair)
<1>0. Len(List) \in Nat
  BY ListIsTheAnswers DEF TypeOK
<1>1. pair \in Pairs /\ pair[1] = n
  BY DEF Pairs
<1> HIDE DEF pair
<1>2. /\ Len(s) \in Nat /\ DOMAIN s = 1 .. Len(s) /\ \A k \in 1 .. Len(s) : s[k] \in Pairs
      /\ longer \in Seq(Pairs) /\ Len(longer) = Len(s) + 1 /\ DOMAIN longer = 1 .. Len(s) + 1
      /\ \A k \in 1 .. Len(s) : longer[k] = s[k]
      /\ longer[Len(s) + 1] = pair
  BY <1>1, AppendProperties, LenProperties, ElementOfSeq
<1> HIDE DEF longer
<1>3. \A k \in 1 .. Len(s) + 1 : k \in 1 .. Len(s) \/ k = Len(s) + 1
  BY <1>2
<1>4. numbers(longer) = numbers(s) \cup {n}
  <2>1. 1 .. Len(s) \subseteq 1 .. Len(s) + 1 /\ Len(s) + 1 \in 1 .. Len(s) + 1
    BY <1>2
  <2> QED BY <1>1, <1>2, <1>3, <2>1
<1>5. numbers(s) \subseteq Nat
  <2>1. \A p \in Pairs : p[1] \in Nat
    BY <1>0 DEF Pairs
  <2> QED BY <1>2, <2>1
<1>6. ASSUME \A k, l \in 1 .. Len(s) : k < l => s[k][1] < s[l][1],
             \A m \in numbers(s) : m < n
      PROVE  \A k, l \in 1 .. Len(longer) : k < l => longer[k][1] < longer[l][1]
  <2> SUFFICES ASSUME NEW k \in 1 .. Len(s) + 1, NEW l \in 1 .. Len(s) + 1, k < l
               PROVE  longer[k][1] < longer[l][1]
    BY <1>2
  <2>1. k \in 1 .. Len(s)
    BY <1>2
  <2>2. CASE l \in 1 .. Len(s)
    BY <1>2, <1>6, <2>1, <2>2
  <2>3. CASE l = Len(s) + 1
    <3>1. s[k][1] \in numbers(s)
      BY <1>2, <2>1
    <3> QED BY <1>1, <1>2, <1>6, <2>1, <2>3, <3>1
  <2> QED BY <1>3, <2>2, <2>3
<1> QED BY <1>2, <1>4, <1>5, <1>6 DEF longer, pair

(***************************************************************************)
(* Steps in which an iteration gives and takes nothing.                    *)
(***************************************************************************)
LEMMA SameGives ==
  ASSUME NEW i \in Iteration, Gives(i),
         rest'[i] = rest[i], given'[i] = given[i], taken'[i] = taken[i],
         result'[i] = result[i],
         \/ stage'[i] = stage[i] /\ operation'[i] = operation[i]
         \/ stage[i] # "ended" /\ stage'[i] = "taking" /\ rest[i] = <<>>
  PROVE  Gives(i)'
BY DEF Gives, Given, TookTheEnd

(***************************************************************************)
(* The server puts an element into the queue.                              *)
(***************************************************************************)
LEMMA PutKeeps ==
  ASSUME AnswerInv, NEW e \in Element, Put(e), sent' \in sent .. Len(List),
         Numbers(e) = sent + 1 .. sent', e.kind = "part" => Rising(e.answers)
  PROVE  AnswerInv'
<1>0. /\ TypeOK /\ InOrder(queue) /\ Shared /\ WaitsOnce /\ \A i \in Iteration : Gives(i)
      /\ queue \in Seq(Element) /\ sent \in Nat /\ sent' \in Nat
  BY ListIsTheAnswers DEF AnswerInv, TypeOK, List
<1>1. /\ queue' = Append(queue, e)
      /\ query' = query /\ waiting' = waiting /\ stage' = stage /\ operation' = operation
      /\ rest' = rest /\ given' = given /\ result' = result /\ taken' = taken
  BY DEF Put
<1>2. TypeOK'
  <2>1. List' = List /\ Pairs' = Pairs
    BY <1>1 DEF List, Pairs
  <2>2. sent' \in 0 .. Len(List)
    BY <1>0, ListIsTheAnswers DEF TypeOK, List
  <2>3. queue' \in Seq(Element)
    BY <1>0, <1>1, AppendProperties
  <2> QED BY <1>0, <1>1, <2>1, <2>2, <2>3 DEF TypeOK
<1>3. NumbersOf(queue)' = NumbersOf(queue) \cup (sent + 1 .. sent')
  <2>1. NumbersOf(queue') = NumbersOf(queue) \cup (sent + 1 .. sent')
    BY <1>0, <1>1, QueueGrows
  <2> QED BY <2>1, Zenon DEF NumbersOf
<1>4. \A m \in 1 .. sent, n \in sent + 1 .. sent' : m < n
  BY <1>0
<1>5. NumbersOf(queue) \subseteq 1 .. sent
      /\ \A i \in Iteration : NumbersIn(taken[i]) \subseteq 1 .. sent
  BY <1>0 DEF Shared
<1>6. InOrder(queue)'
  <2>1. InOrder(queue')
    BY <1>0, <1>1, <1>4, <1>5, QueueGrows
  <2> QED BY <2>1, Zenon DEF InOrder, Numbers
<1>7. Shared'
  <2>1. 1 .. sent' = (1 .. sent) \cup (sent + 1 .. sent')
    BY <1>0
  <2>2. \A i \in Iteration : NumbersIn(taken[i])' = NumbersIn(taken[i])
    BY <1>1 DEF NumbersIn
  <2>3. \A i \in Iteration : \A m \in NumbersIn(taken[i]), n \in NumbersOf(queue)' : m < n
    BY <1>0, <1>3, <1>4, <1>5 DEF Shared
  <2>4. NumbersOf(queue)' \cup UNION {NumbersIn(taken[i]) : i \in Iteration} = 1 .. sent'
    BY <1>0, <1>3, <2>1 DEF Shared
  <2> QED BY <1>0, <1>1, <2>2, <2>3, <2>4 DEF Shared
<1>8. WaitsOnce'
  BY <1>0, <1>1 DEF WaitsOnce
<1>9. \A i \in Iteration : Gives(i)'
  BY <1>0, <1>1, SameGives
<1> QED BY <1>2, <1>6, <1>7, <1>8, <1>9 DEF AnswerInv

LEMMA ServerKeeps == AnswerInv /\ Server => AnswerInv'
<1> SUFFICES ASSUME AnswerInv, Server PROVE AnswerInv'
  OBVIOUS
<1>0. /\ sent \in Nat /\ Len(List) \in Nat /\ sent <= Len(List)
  BY ListIsTheAnswers DEF AnswerInv, TypeOK, List
<1>1. CASE SendDone \/ CloseTransaction
  <2>1. PICK e \in {[kind |-> "done"], [kind |-> "closed"]} : Put(e)
    BY <1>1 DEF SendDone, CloseTransaction
  <2>2. sent' = sent
    BY <1>1 DEF SendDone, CloseTransaction
  <2>3. e \in Element /\ e.kind # "part" /\ Numbers(e) = {}
    BY DEF Element, Numbers
  <2>4. sent' \in sent .. Len(List) /\ Numbers(e) = sent + 1 .. sent'
    BY <1>0, <2>2, <2>3
  <2> QED BY <2>1, <2>3, <2>4, PutKeeps
<1>2. CASE SendPart
  <2>1. PICK n \in (sent + 1) .. Len(List) :
           /\ Put([kind |-> "part", answers |-> [k \in 1 .. (n - sent) |-> sent + k]])
           /\ sent' = n
    BY <1>2 DEF SendPart, List
  <2> DEFINE s == [k \in 1 .. (n - sent) |-> sent + k]
             e == [kind |-> "part", answers |-> s]
  <2>2. n \in Nat /\ n - sent \in Nat
    BY <1>0
  <2>3. s \in Seq(Nat) /\ Len(s) = n - sent
    BY <1>0, <2>2, IsASeq
  <2>4. Rising(s)
    BY <1>0, <2>2, <2>3 DEF Rising
  <2>5. ToSet(s) = sent + 1 .. sent'
    <3>1. \A m \in sent + 1 .. n : m - sent \in 1 .. (n - sent) /\ sent + (m - sent) = m
      BY <1>0, <2>2
    <3>2. \A k \in 1 .. (n - sent) : sent + k \in sent + 1 .. n
      BY <1>0, <2>2
    <3>3. DOMAIN s = 1 .. (n - sent) /\ \A k \in 1 .. (n - sent) : s[k] = sent + k
      OBVIOUS
    <3> HIDE DEF s
    <3> QED BY <2>1, <3>1, <3>2, <3>3 DEF ToSet
  <2> HIDE DEF s
  <2>6. e \in Element /\ e.kind = "part" /\ e.answers = s /\ Numbers(e) = sent + 1 .. sent'
    BY <2>3, <2>5 DEF Element, Numbers
  <2>7. sent' \in sent .. Len(List) /\ Put(e)
    BY <1>0, <2>1 DEF s
  <2> HIDE DEF e
  <2> QED BY <2>4, <2>6, <2>7, PutKeeps
<1> QED BY <1>1, <1>2 DEF Server

(***************************************************************************)
(* Who waits in take().                                                    *)
(***************************************************************************)
LEMMA WaitsTake ==
  ASSUME TypeOK, WaitsOnce, waiting # <<>>, waiting' = Tail(waiting),
         \A j \in Iteration : j # Head(waiting) => stage'[j] = stage[j]
  PROVE  /\ WaitsOnce' /\ waiting' \in Seq(Iteration)
         /\ Head(waiting) \in Iteration /\ stage[Head(waiting)] = "taking"
<1>1. /\ Len(waiting) \in Nat \ {0} /\ Head(waiting) = waiting[1]
      /\ Head(waiting) \in Iteration /\ waiting' \in Seq(Iteration)
      /\ Len(waiting') = Len(waiting) - 1
      /\ \A k \in 1 .. Len(waiting) - 1 : waiting'[k] = waiting[k + 1]
      /\ \A k \in 1 .. Len(waiting) : waiting[k] \in Iteration
  BY HeadTailProperties, EmptySeq, LenProperties, ElementOfSeq DEF TypeOK
<1>2. /\ \A k \in 1 .. Len(waiting) - 1 : k + 1 \in 1 .. Len(waiting) /\ k + 1 # 1
      /\ \A k, l \in 1 .. Len(waiting) - 1 : k + 1 = l + 1 => k = l
      /\ 1 \in 1 .. Len(waiting)
  BY <1>1
<1>3. \A k \in 1 .. Len(waiting') : waiting'[k] # Head(waiting) /\ waiting'[k] \in Iteration
  BY <1>1, <1>2 DEF WaitsOnce
<1>4. \A k \in 1 .. Len(waiting') : stage'[waiting'[k]] = "taking"
  BY <1>1, <1>2, <1>3 DEF WaitsOnce
<1>5. \A k, l \in 1 .. Len(waiting') : waiting'[k] = waiting'[l] => k = l
  BY <1>1, <1>2 DEF WaitsOnce
<1>6. WaitsOnce'
  BY <1>4, <1>5 DEF WaitsOnce
<1> QED BY <1>1, <1>2, <1>6 DEF WaitsOnce

LEMMA WaitsAppend ==
  ASSUME TypeOK, WaitsOnce, NEW i \in Iteration, stage[i] # "taking",
         waiting' = Append(waiting, i), stage' = [stage EXCEPT ![i] = "taking"]
  PROVE  WaitsOnce' /\ waiting' \in Seq(Iteration)
<1>1. /\ Len(waiting) \in Nat /\ waiting' \in Seq(Iteration)
      /\ Len(waiting') = Len(waiting) + 1
      /\ \A k \in 1 .. Len(waiting) : waiting'[k] = waiting[k] /\ waiting[k] \in Iteration
      /\ waiting'[Len(waiting) + 1] = i
  BY AppendProperties, LenProperties, ElementOfSeq DEF TypeOK
<1>2. \A k \in 1 .. Len(waiting') : k \in 1 .. Len(waiting) \/ k = Len(waiting) + 1
  BY <1>1
<1>3. \A k \in 1 .. Len(waiting) : waiting[k] # i
  BY DEF WaitsOnce
<1>4. \A j \in Iteration : stage'[j] = IF j = i THEN "taking" ELSE stage[j]
  BY DEF TypeOK
<1>5. \A k \in 1 .. Len(waiting') : stage'[waiting'[k]] = "taking"
  BY <1>1, <1>2, <1>4 DEF WaitsOnce
<1>6. \A k, l \in 1 .. Len(waiting') : waiting'[k] = waiting'[l] => k = l
  BY <1>1, <1>2, <1>3 DEF WaitsOnce
<1> QED BY <1>1, <1>5, <1>6 DEF WaitsOnce

LEMMA WaitsOther ==
  ASSUME TypeOK, WaitsOnce, NEW i \in Iteration, stage[i] # "taking",
         waiting' = waiting, \A j \in Iteration : j # i => stage'[j] = stage[j]
  PROVE  WaitsOnce'
<1>1. \A k \in 1 .. Len(waiting) : waiting[k] \in Iteration /\ waiting[k] # i
  BY ElementOfSeq, LenProperties DEF TypeOK, WaitsOnce
<1> QED BY <1>1 DEF WaitsOnce

(***************************************************************************)
(* The steps of an iteration.                                              *)
(***************************************************************************)
\* What the invariant says of the queue and of the parts taken is about
\* nothing else.
LEMMA SameParts ==
  ASSUME query' = query, sent' = sent, queue' = queue, taken' = taken,
         InOrder(queue), Shared
  PROVE  InOrder(queue)' /\ Shared'
<1>1. InOrder(queue)'
  BY Zenon DEF InOrder, Numbers
<1>2. NumbersOf(queue)' = NumbersOf(queue)
  BY Zenon DEF NumbersOf, Numbers
<1>3. \A i \in Iteration : NumbersIn(taken[i])' = NumbersIn(taken[i])
  BY DEF NumbersIn
<1> QED BY <1>1, <1>2, <1>3 DEF Shared

LEMMA StartKeeps ==
  ASSUME AnswerInv, NEW i \in Iteration, Start(i)
  PROVE  AnswerInv'
<1>0. /\ TypeOK /\ InOrder(queue) /\ Shared /\ WaitsOnce /\ \A j \in Iteration : Gives(j)
      /\ stage[i] = "idle"
  BY DEF AnswerInv, Start
<1>1. /\ query' = query /\ sent' = sent /\ queue' = queue /\ rest' = rest
      /\ given' = given /\ result' = result /\ taken' = taken
      /\ stage' = [stage EXCEPT ![i] = "taking"] /\ waiting' = Append(waiting, i)
  BY DEF Start
<1>2. PICK op \in Operations \cup {"await"} : operation' = [operation EXCEPT ![i] = op]
  BY DEF Start
<1>3. WaitsOnce' /\ waiting' \in Seq(Iteration)
  BY <1>0, <1>1, WaitsAppend
<1>4. TypeOK'
  <2>1. List' = List /\ Pairs' = Pairs
    BY <1>1 DEF List, Pairs
  <2>2. /\ stage' \in [Iteration -> {"idle", "taking", "within", "ended"}]
        /\ operation' \in [Iteration -> Operations \cup {"none", "await"}]
    BY <1>0, <1>1, <1>2 DEF TypeOK
  <2> QED BY <1>0, <1>1, <1>3, <2>1, <2>2 DEF TypeOK
<1>5. InOrder(queue)' /\ Shared'
  BY <1>0, <1>1, SameParts
<1>6. ASSUME NEW j \in Iteration PROVE Gives(j)'
  <2>1. stage'[i] = "taking" /\ rest[i] = <<>>
    BY <1>0, <1>1 DEF TypeOK, Gives
  <2>2. j # i => stage'[j] = stage[j] /\ operation'[j] = operation[j]
    BY <1>0, <1>1, <1>2 DEF TypeOK
  <2> QED BY <1>0, <1>1, <2>1, <2>2, SameGives
<1> QED BY <1>3, <1>4, <1>5, <1>6 DEF AnswerInv

LEMMA NextPartKeeps ==
  ASSUME AnswerInv, NEW i \in Iteration, NextPart(i)
  PROVE  AnswerInv'
<1>0. /\ TypeOK /\ InOrder(queue) /\ Shared /\ WaitsOnce /\ \A j \in Iteration : Gives(j)
      /\ stage[i] = "within" /\ rest[i] = <<>>
  BY DEF AnswerInv, NextPart
<1>1. /\ query' = query /\ sent' = sent /\ queue' = queue /\ rest' = rest
      /\ given' = given /\ result' = result /\ taken' = taken /\ operation' = operation
      /\ stage' = [stage EXCEPT ![i] = "taking"] /\ waiting' = Append(waiting, i)
  BY DEF NextPart
<1>2. WaitsOnce' /\ waiting' \in Seq(Iteration)
  BY <1>0, <1>1, WaitsAppend
<1>3. TypeOK'
  <2>1. List' = List /\ Pairs' = Pairs
    BY <1>1 DEF List, Pairs
  <2>2. stage' \in [Iteration -> {"idle", "taking", "within", "ended"}]
    BY <1>0, <1>1 DEF TypeOK
  <2> QED BY <1>0, <1>1, <1>2, <2>1, <2>2 DEF TypeOK
<1>4. InOrder(queue)' /\ Shared'
  BY <1>0, <1>1, SameParts
<1>5. ASSUME NEW j \in Iteration PROVE Gives(j)'
  <2>1. stage'[i] = "taking" /\ (j # i => stage'[j] = stage[j])
    BY <1>0, <1>1 DEF TypeOK
  <2> QED BY <1>0, <1>1, <2>1, SameGives
<1> QED BY <1>2, <1>3, <1>4, <1>5 DEF AnswerInv

LEMMA TakeKeeps ==
  ASSUME AnswerInv, NEW i \in Iteration, Take(i)
  PROVE  AnswerInv'
<1>0. /\ TypeOK /\ InOrder(queue) /\ Shared /\ WaitsOnce /\ \A j \in Iteration : Gives(j)
      /\ waiting # <<>> /\ i = Head(waiting) /\ queue # <<>>
      /\ queue \in Seq(Element) /\ taken[i] \in Seq(Seq(Nat))
  BY DEF AnswerInv, Take, TypeOK
<1>1. /\ query' = query /\ sent' = sent /\ operation' = operation /\ given' = given
      /\ queue' = Tail(queue) /\ waiting' = Tail(waiting)
  BY DEF Take
<1>2. PICK e \in Element : e = Head(queue)
  BY <1>0, QueueShrinks
<1>3. \/ /\ e.kind = "part"
         /\ rest' = [rest EXCEPT ![i] = e.answers]
         /\ stage' = [stage EXCEPT ![i] = "within"]
         /\ taken' = [taken EXCEPT ![i] = Append(@, e.answers)]
         /\ result' = result
      \/ /\ e.kind # "part"
         /\ \E outcome \in {AtTheEnd(operation[i]), "closed"} : End(i, outcome)
         /\ taken' = taken
  <2>1. e.kind \in {"part", "done", "closed"}
    BY DEF Element
  <2>2. CASE e.kind = "part"
    BY <1>2, <2>2 DEF Take
  <2>3. CASE e.kind = "done"
    BY <1>2, <2>3 DEF Take
  <2>4. CASE e.kind = "closed"
    BY <1>2, <2>4 DEF Take
  <2> QED BY <2>1, <2>2, <2>3, <2>4
<1>4. \A j \in Iteration : j # i =>
         /\ stage'[j] = stage[j] /\ rest'[j] = rest[j] /\ result'[j] = result[j]
         /\ taken'[j] = taken[j]
  BY <1>0, <1>3 DEF End, TypeOK
<1>5. WaitsOnce' /\ waiting' \in Seq(Iteration) /\ stage[i] = "taking"
  BY <1>0, <1>1, <1>4, WaitsTake
<1>6. ASSUME NEW j \in Iteration, j # i PROVE Gives(j)'
  BY <1>0, <1>1, <1>4, <1>6, SameGives
<1>7. /\ NumbersOf(queue) = Numbers(e) \cup NumbersOf(queue')
      /\ InOrder(queue') /\ queue' \in Seq(Element)
      /\ e.kind = "part" => Rising(e.answers)
      /\ \A m \in Numbers(e), n \in NumbersOf(queue') : m < n
  BY <1>0, <1>1, <1>2, QueueShrinks
<1>8. NumbersOf(queue)' = NumbersOf(queue') /\ InOrder(queue)'
  BY <1>7, Zenon DEF InOrder, NumbersOf, Numbers
<1>9. List' = List /\ Pairs' = Pairs
  BY <1>1 DEF List, Pairs
<1>10. CASE e.kind = "part"
  <2>1. PICK s \in Seq(Nat) : s = e.answers
    BY <1>10 DEF Element
  <2>2. /\ rest' = [rest EXCEPT ![i] = s]
        /\ stage' = [stage EXCEPT ![i] = "within"]
        /\ taken' = [taken EXCEPT ![i] = Append(@, s)]
        /\ result' = result
        /\ Numbers(e) = ToSet(s) /\ Rising(s)
    BY <1>3, <1>7, <1>10, <2>1 DEF Numbers
  <2>3. /\ rest'[i] = s /\ stage'[i] = "within" /\ taken'[i] = Append(taken[i], s)
    BY <1>0, <2>2 DEF TypeOK
  <2>4. /\ NumbersIn(taken'[i]) = NumbersIn(taken[i]) \cup ToSet(s)
        /\ taken'[i] # <<>> /\ Last(taken'[i]) = s
    BY <1>0, <2>3, NumbersOfParts
  <2>5. TypeOK'
    <3>1. Append(taken[i], s) \in Seq(Seq(Nat))
      BY <1>0, AppendProperties
    <3>2. /\ rest' \in [Iteration -> Seq(Nat)]
          /\ stage' \in [Iteration -> {"idle", "taking", "within", "ended"}]
          /\ taken' \in [Iteration -> Seq(Seq(Nat))]
      BY <1>0, <2>2, <3>1 DEF TypeOK
    <3> QED BY <1>0, <1>1, <1>5, <1>7, <1>9, <2>2, <3>2 DEF TypeOK
  <2>6. \A j \in Iteration : j # i => NumbersIn(taken'[j]) = NumbersIn(taken[j])
    BY <1>4
  <2>7. /\ NumbersOf(queue) \subseteq 1 .. sent
        /\ \A j \in Iteration : \A m \in NumbersIn(taken[j]), n \in ToSet(s) : m < n
        /\ \A j \in Iteration : \A m \in NumbersIn(taken[j]), n \in NumbersOf(queue') : m < n
    BY <1>0, <1>7, <2>2 DEF Shared
  <2>8. Shared'
    <3>1. NumbersOf(queue') \cup UNION {NumbersIn(taken'[j]) : j \in Iteration} = 1 .. sent
      <4>1. UNION {NumbersIn(taken'[j]) : j \in Iteration}
              = (UNION {NumbersIn(taken[j]) : j \in Iteration}) \cup ToSet(s)
        <5>1. \A j \in Iteration : /\ NumbersIn(taken[j]) \subseteq NumbersIn(taken'[j])
                                   /\ NumbersIn(taken'[j]) \subseteq NumbersIn(taken[j]) \cup ToSet(s)
          BY <2>4, <2>6
        <5>2. ToSet(s) \subseteq NumbersIn(taken'[i])
          BY <2>4
        <5> QED BY <5>1, <5>2
      <4> QED BY <1>0, <1>7, <2>2, <4>1 DEF Shared
    <3>2. \A j \in Iteration : NumbersIn(taken[j]) \cap ToSet(s) = {}
      <4>1. \A n \in ToSet(s) : n \in Nat /\ ~(n < n)
        BY <2>1, ToSetOf
      <4> QED BY <2>7, <4>1, Zenon
    <3>3. \A j, k \in Iteration : j # k => NumbersIn(taken'[j]) \cap NumbersIn(taken'[k]) = {}
      <4>1. \A j, k \in Iteration : j # k => NumbersIn(taken[j]) \cap NumbersIn(taken[k]) = {}
        BY <1>0 DEF Shared
      <4> SUFFICES ASSUME NEW j \in Iteration, NEW k \in Iteration, j # k
                   PROVE  NumbersIn(taken'[j]) \cap NumbersIn(taken'[k]) = {}
        OBVIOUS
      <4>2. CASE j # i /\ k # i
        BY <2>6, <4>1, <4>2
      <4>3. CASE j = i
        BY <2>4, <2>6, <3>2, <4>1, <4>3
      <4>4. CASE k = i
        BY <2>4, <2>6, <3>2, <4>1, <4>4
      <4> QED BY <4>2, <4>3, <4>4
    <3>4. \A j \in Iteration : \A m \in NumbersIn(taken'[j]), n \in NumbersOf(queue') : m < n
      <4> SUFFICES ASSUME NEW j \in Iteration, NEW m \in NumbersIn(taken'[j]),
                          NEW n \in NumbersOf(queue')
                   PROVE  m < n
        OBVIOUS
      <4>1. m \in NumbersIn(taken[j]) \/ m \in Numbers(e)
        BY <2>2, <2>4, <2>6
      <4> QED BY <1>7, <2>7, <4>1
    <3>5. \A j \in Iteration : NumbersIn(taken[j])' = NumbersIn(taken'[j])
      BY Zenon DEF NumbersIn
    <3> QED BY <1>1, <1>8, <3>1, <3>3, <3>4, <3>5 DEF Shared
  <2>9. Gives(i)'
    <3>1. Gives(i) /\ stage[i] # "within" /\ stage[i] # "ended" /\ rest[i] = <<>>
      BY <1>0, <1>5 DEF Gives
    <3>2. ToSet(rest[i]) = {}
      <4>1. DOMAIN <<>> = {}
        OBVIOUS
      <4> QED BY <3>1, <4>1 DEF ToSet
    <3>3. Given(i)' = Given(i)
      BY <1>1 DEF Given
    <3>4. NumbersIn(taken[i])' = NumbersIn(taken[i]) \cup ToSet(s)
      BY <2>4, Zenon DEF NumbersIn
    <3>5. NumbersIn(taken[i]) \cap Kept \subseteq Given(i)
      BY <3>1, <3>2 DEF Gives
    <3>6. \A n \in NumbersIn(taken[i])' \cap Kept : n \in Given(i)' \cup ToSet(rest[i])'
      BY <2>3, <3>3, <3>4, <3>5
    <3>7. Given(i) \subseteq NumbersIn(taken[i])
      BY <3>1 DEF Gives
    <3>8. /\ Rising(rest[i])'
          /\ \A m \in Given(i)', n \in ToSet(rest[i])' : m < n
          /\ (ToSet(rest[i]) \subseteq ToSet(Last(taken[i])))'
      BY <2>2, <2>3, <2>4, <2>7, <3>3, <3>7 DEF Rising
    <3>9. \A k, l \in 1 .. Len(given[i])' : k < l => given'[i][k][1] < given'[i][l][1]
      BY <1>1, <3>1 DEF Gives
    <3> QED BY <1>1, <2>3, <2>4, <3>3, <3>4, <3>6, <3>7, <3>8, <3>9 DEF Gives
  <2> QED BY <1>5, <1>6, <1>8, <2>5, <2>8, <2>9 DEF AnswerInv
<1>11. CASE e.kind # "part"
  <2>1. PICK outcome \in {AtTheEnd(operation[i]), "closed"} : End(i, outcome)
    BY <1>3, <1>11
  <2>2. /\ stage' = [stage EXCEPT ![i] = "ended"] /\ result' = [result EXCEPT ![i] = outcome]
        /\ rest' = [rest EXCEPT ![i] = <<>>] /\ taken' = taken /\ outcome \in Outcomes
    BY <1>3, <1>11, <2>1 DEF End, AtTheEnd, Outcomes
  <2>3. /\ stage'[i] = "ended" /\ result'[i] = outcome /\ rest'[i] = <<>>
    BY <1>0, <2>2 DEF TypeOK
  <2>4. TypeOK'
    <3>1. /\ rest' \in [Iteration -> Seq(Nat)]
          /\ stage' \in [Iteration -> {"idle", "taking", "within", "ended"}]
          /\ result' \in [Iteration -> Outcomes]
      BY <1>0, <2>2 DEF TypeOK
    <3> QED BY <1>0, <1>1, <1>5, <1>7, <1>9, <2>2, <3>1 DEF TypeOK
  <2>5. Shared'
    <3>1. Numbers(e) = {}
      BY <1>11 DEF Numbers
    <3>2. NumbersOf(queue)' = NumbersOf(queue)
      BY <1>7, <1>8, <3>1
    <3>3. \A j \in Iteration : NumbersIn(taken[j])' = NumbersIn(taken[j])
      BY <2>2 DEF NumbersIn
    <3> QED BY <1>0, <1>1, <3>2, <3>3 DEF Shared
  <2>6. Gives(i)'
    <3>1. Gives(i) /\ rest[i] = <<>> /\ stage[i] # "ended"
      BY <1>0, <1>5 DEF Gives
    <3>2. \A n \in NumbersIn(taken[i]) \cap Kept : n \in Given(i) \cup ToSet(rest[i])
      BY <3>1 DEF Gives
    <3>3. given'[i] = given[i] /\ taken'[i] = taken[i] /\ rest'[i] = rest[i]
      BY <1>1, <2>2, <2>3, <3>1
    <3> QED BY <2>3, <3>1, <3>2, <3>3 DEF Gives, Given, NumbersIn
  <2> QED BY <1>5, <1>6, <1>8, <2>4, <2>5, <2>6 DEF AnswerInv
<1> QED BY <1>10, <1>11

\* An iteration has done with the next answer of its part, and goes on with
\* the rest or stops.
LEMMA AnswerGives ==
  ASSUME NEW i \in Iteration, TypeOK, Gives(i), stage[i] = "within", rest[i] # <<>>,
         taken'[i] = taken[i], operation'[i] = operation[i],
         Given(i) \subseteq Given(i)', Given(i)' \subseteq Given(i) \cup {Head(rest[i])},
         (\A k, l \in 1 .. Len(given[i]) : k < l => given[i][k][1] < given[i][l][1])',
         \/ /\ stage'[i] = "within" /\ rest'[i] = Tail(rest[i])
            /\ Head(rest[i]) \in Kept => Head(rest[i]) \in Given(i)'
         \/ /\ stage'[i] = "ended" /\ rest'[i] = <<>>
            /\ result'[i] # "closed" /\ result'[i] # AtTheEnd(operation[i])
            /\ Head(rest[i]) \in Given(i)' \/ Given(i)' = Given(i)
  PROVE  Gives(i)'
<1> DEFINE left == rest[i]
           number == Head(left)
<1>1. left \in Seq(Nat) /\ taken[i] \in Seq(Seq(Nat))
  BY DEF TypeOK
<1>2. /\ Rising(left) /\ ToSet(left) \subseteq ToSet(Last(taken[i])) /\ taken[i] # <<>>
      /\ Given(i) \subseteq NumbersIn(taken[i])
      /\ \A m \in Given(i), n \in ToSet(left) : m < n
      /\ \A n \in NumbersIn(taken[i]) \cap Kept : n \in Given(i) \cup ToSet(left)
  BY DEF Gives
<1>3. /\ ToSet(left) = {number} \cup ToSet(Tail(left)) /\ number \in ToSet(left)
      /\ Rising(Tail(left)) /\ \A n \in ToSet(Tail(left)) : number < n
  BY <1>1, <1>2, ToSetOf, RisingTail
<1>4. ToSet(left) \subseteq NumbersIn(taken[i])
  BY <1>1, <1>2, NumbersOfParts, EmptySeq
<1> HIDE DEF number, left
<1>5. /\ NumbersIn(taken[i])' = NumbersIn(taken[i])
      /\ Last(taken[i])' = Last(taken[i])
  BY DEF NumbersIn
<1>6. Given(i)' \subseteq Given(i) \cup {number}
  BY DEF number, left
<1>7. Given(i)' \subseteq NumbersIn(taken[i])'
  BY <1>2, <1>3, <1>4, <1>5, <1>6
<1>8. \A m \in Given(i)', n \in ToSet(Tail(left)) : m < n
  <2>1. ToSet(Tail(left)) \subseteq ToSet(left)
    BY <1>3
  <2> QED BY <1>2, <1>3, <1>6, <2>1
<1>9. CASE /\ stage'[i] = "within" /\ rest'[i] = Tail(rest[i])
           /\ Head(rest[i]) \in Kept => Head(rest[i]) \in Given(i)'
  <2>1. rest'[i] = Tail(left) /\ (number \in Kept => number \in Given(i)')
    BY <1>9 DEF number, left
  <2>2. \A n \in NumbersIn(taken[i])' \cap Kept : n \in Given(i)' \cup ToSet(rest[i])'
    BY <1>2, <1>3, <1>5, <2>1
  <2>3. /\ Rising(rest[i])' /\ \A m \in Given(i)', n \in ToSet(rest[i])' : m < n
        /\ (ToSet(rest[i]) \subseteq ToSet(Last(taken[i])))'
    <3>1. Rising(rest'[i]) /\ \A m \in Given(i)', n \in ToSet(rest'[i]) : m < n
      BY <1>3, <1>8, <2>1
    <3>2. ToSet(rest'[i]) \subseteq ToSet(Last(taken[i]))
      BY <1>2, <1>3, <2>1
    <3> QED BY <1>5, <3>1, <3>2 DEF Rising
  <2> QED BY <1>2, <1>7, <1>9, <2>2, <2>3 DEF Gives
<1>10. CASE /\ stage'[i] = "ended" /\ rest'[i] = <<>>
            /\ result'[i] # "closed" /\ result'[i] # AtTheEnd(operation[i])
            /\ Head(rest[i]) \in Given(i)' \/ Given(i)' = Given(i)
  <2>1. number \in Given(i)' \/ Given(i)' = Given(i)
    BY <1>10 DEF number, left
  <2>2. ~TookTheEnd(i)'
    BY <1>10 DEF TookTheEnd
  <2>3. ASSUME NEW n \in NumbersIn(taken[i]) \cap Kept, n \notin Given(i)'
        PROVE  n \in ToSet(Last(taken[i])) /\ \A m \in Given(i)' : m < n
    <3>1. n \in ToSet(left)
      BY <1>2, <2>3
    <3>2. CASE n = number
      BY <1>2, <2>1, <2>3, <3>1, <3>2
    <3>3. CASE n \in ToSet(Tail(left))
      BY <1>2, <1>8, <3>1, <3>3
    <3> QED BY <1>3, <3>1, <3>2, <3>3
  <2>4. /\ ToSet(rest[i])' = {} /\ Rising(rest[i])'
    <3>1. DOMAIN <<>> = {} /\ Len(<<>>) = 0
      OBVIOUS
    <3> QED BY <1>10, <3>1 DEF ToSet, Rising
  <2> QED BY <1>2, <1>5, <1>7, <1>10, <2>2, <2>3, <2>4 DEF Gives
<1> QED BY <1>9, <1>10

LEMMA NextAnswerKeeps ==
  ASSUME AnswerInv, NEW i \in Iteration, NextAnswer(i)
  PROVE  AnswerInv'
<1> DEFINE number == Head(rest[i])
           pair == <<number, Values[query][number]>>
<1>0. /\ TypeOK /\ InOrder(queue) /\ Shared /\ WaitsOnce /\ \A j \in Iteration : Gives(j)
      /\ stage[i] = "within" /\ rest[i] # <<>>
      /\ rest[i] \in Seq(Nat) /\ taken[i] \in Seq(Seq(Nat)) /\ given[i] \in Seq(Pairs)
      /\ sent \in Nat /\ Len(List) \in Nat /\ sent <= Len(List)
  BY ListIsTheAnswers DEF AnswerInv, NextAnswer, TypeOK, List
<1>1. /\ query' = query /\ sent' = sent /\ operation' = operation /\ queue' = queue
      /\ waiting' = waiting /\ taken' = taken
  BY DEF NextAnswer
<1>2. \/ given' = given /\ End(i, "failed")
      \/ /\ given' = given /\ rest' = [rest EXCEPT ![i] = Tail(@)]
         /\ stage' = stage /\ result' = result /\ number \notin Kept
      \/ /\ given' = [given EXCEPT ![i] = Append(@, pair)] /\ ~Throws(Values[query][number])
         /\ \/ Stops(operation[i], number) /\ End(i, StopsWith(operation[i]))
            \/ /\ rest' = [rest EXCEPT ![i] = Tail(@)]
               /\ stage' = stage /\ result' = result
  BY DEF NextAnswer
<1>3. /\ ToSet(rest[i]) \subseteq ToSet(Last(taken[i])) /\ taken[i] # <<>>
      /\ Given(i) \subseteq NumbersIn(taken[i])
      /\ \A m \in Given(i), n \in ToSet(rest[i]) : m < n
      /\ \A k, l \in 1 .. Len(given[i]) : k < l => given[i][k][1] < given[i][l][1]
  BY <1>0 DEF Gives
<1>4. number \in ToSet(rest[i]) /\ number \in 1 .. Len(List)
  <2>1. number \in ToSet(rest[i])
    BY <1>0, ToSetOf
  <2>2. number \in NumbersIn(taken[i])
    BY <1>0, <1>3, <2>1, NumbersOfParts
  <2>3. number \in 1 .. sent
    BY <1>0, <2>2 DEF Shared
  <2> QED BY <1>0, <2>1, <2>3
<1>5. ASSUME ~Throws(Values[query][number])
      PROVE  /\ Append(given[i], pair) \in Seq(Pairs)
             /\ {Append(given[i], pair)[k][1] : k \in DOMAIN Append(given[i], pair)}
                  = Given(i) \cup {number}
             /\ \A k, l \in 1 .. Len(Append(given[i], pair)) :
                   k < l => Append(given[i], pair)[k][1] < Append(given[i], pair)[l][1]
  BY <1>0, <1>3, <1>4, <1>5, FirstGiven DEF Given
<1>6. Tail(rest[i]) \in Seq(Nat)
  BY <1>0, HeadTailProperties
<1> HIDE DEF number, pair
<1>7. ASSUME NEW j \in Iteration, j # i PROVE Gives(j)'
  <2>1. /\ stage'[j] = stage[j] /\ rest'[j] = rest[j] /\ given'[j] = given[j]
        /\ result'[j] = result[j]
    BY <1>0, <1>2, <1>7 DEF End, TypeOK
  <2> QED BY <1>0, <1>1, <2>1, SameGives
<1>8. /\ stage' \in [Iteration -> {"idle", "taking", "within", "ended"}]
      /\ rest' \in [Iteration -> Seq(Nat)] /\ result' \in [Iteration -> Outcomes]
      /\ given' \in [Iteration -> Seq(Pairs)]
  <2>1. StopsWith(operation[i]) \in Outcomes /\ "failed" \in Outcomes
    BY DEF StopsWith, Outcomes
  <2>2. /\ stage' = stage \/ stage' = [stage EXCEPT ![i] = "ended"]
        /\ \E s \in {<<>>, Tail(rest[i])} : rest' = [rest EXCEPT ![i] = s]
        /\ result' = result \/ \E s \in Outcomes : result' = [result EXCEPT ![i] = s]
        /\ \/ given' = given
           \/ /\ given' = [given EXCEPT ![i] = Append(given[i], pair)]
              /\ ~Throws(Values[query][number])
    BY <1>2, <2>1 DEF End
  <2>3. <<>> \in Seq(Nat)
    OBVIOUS
  <2>4. stage' \in [Iteration -> {"idle", "taking", "within", "ended"}]
    BY <1>0, <2>2 DEF TypeOK
  <2>5. rest' \in [Iteration -> Seq(Nat)]
    <3>1. PICK s \in Seq(Nat) : rest' = [rest EXCEPT ![i] = s]
      BY <1>6, <2>2, <2>3
    <3> QED BY <1>0, <3>1 DEF TypeOK
  <2>6. result' \in [Iteration -> Outcomes]
    BY <1>0, <2>2 DEF TypeOK
  <2>7. given' \in [Iteration -> Seq(Pairs)]
    BY <1>0, <1>5, <2>2 DEF TypeOK
  <2> QED BY <2>4, <2>5, <2>6, <2>7
<1>9. TypeOK'
  <2>1. List' = List /\ Pairs' = Pairs
    BY <1>1 DEF List, Pairs
  <2> QED BY <1>0, <1>1, <1>8, <2>1 DEF TypeOK
<1>10. InOrder(queue)' /\ Shared'
  BY <1>0, <1>1, SameParts
<1>11. WaitsOnce'
  <2>1. \A j \in Iteration : j # i => stage'[j] = stage[j]
    BY <1>0, <1>2 DEF End, TypeOK
  <2> QED BY <1>0, <1>1, <2>1, WaitsOther
<1>12. \/ given'[i] = given[i]
          /\ \/ stage'[i] = "ended" /\ rest'[i] = <<>> /\ result'[i] = "failed"
             \/ stage'[i] = "within" /\ rest'[i] = Tail(rest[i]) /\ number \notin Kept
       \/ given'[i] = Append(given[i], pair) /\ ~Throws(Values[query][number])
          /\ \/ /\ stage'[i] = "ended" /\ rest'[i] = <<>>
                /\ result'[i] = StopsWith(operation[i]) /\ Stops(operation[i], number)
             \/ stage'[i] = "within" /\ rest'[i] = Tail(rest[i])
  BY <1>0, <1>2 DEF End, TypeOK
<1>13. Gives(i)'
  <2>1. /\ "failed" # AtTheEnd(operation[i]) /\ "failed" # "closed"
        /\ Stops(operation[i], number) =>
              /\ StopsWith(operation[i]) # AtTheEnd(operation[i])
              /\ StopsWith(operation[i]) # "closed"
    BY DEF AtTheEnd, StopsWith, Stops
  <2>2. CASE given'[i] = given[i]
    <3>1. Given(i)' = Given(i)
      BY <2>2 DEF Given
    <3>2. \/ stage'[i] = "ended" /\ rest'[i] = <<>> /\ result'[i] = "failed"
          \/ stage'[i] = "within" /\ rest'[i] = Tail(rest[i]) /\ number \notin Kept
      <4>1. Len(Append(given[i], pair)) # Len(given[i])
        BY <1>0, AppendProperties, LenProperties
      <4> QED BY <1>12, <2>2, <4>1
    <3>3. (\A k, l \in 1 .. Len(given[i]) : k < l => given[i][k][1] < given[i][l][1])'
      BY <1>3, <2>2
    <3> QED BY <1>0, <1>1, <2>1, <3>1, <3>2, <3>3, AnswerGives DEF number
  <2>3. CASE given'[i] = Append(given[i], pair)
    <3>0. ~Throws(Values[query][number])
      <4>1. Len(Append(given[i], pair)) # Len(given[i])
        BY <1>0, AppendProperties, LenProperties
      <4> QED BY <1>12, <2>3, <4>1
    <3>1. Given(i)' = Given(i) \cup {number}
      BY <1>5, <2>3, <3>0 DEF Given
    <3>2. \/ /\ stage'[i] = "ended" /\ rest'[i] = <<>>
             /\ result'[i] = StopsWith(operation[i]) /\ Stops(operation[i], number)
          \/ stage'[i] = "within" /\ rest'[i] = Tail(rest[i])
      <4>1. Len(Append(given[i], pair)) # Len(given[i])
        BY <1>0, AppendProperties, LenProperties
      <4> QED BY <1>12, <2>3, <4>1
    <3>3. (\A k, l \in 1 .. Len(given[i]) : k < l => given[i][k][1] < given[i][l][1])'
      BY <1>5, <2>3, <3>0
    <3> QED BY <1>0, <1>1, <2>1, <3>1, <3>2, <3>3, AnswerGives DEF number
  <2> QED BY <1>12, <2>2, <2>3
<1> QED BY <1>7, <1>9, <1>10, <1>11, <1>13 DEF AnswerInv

-----------------------------------------------------------------------------
(* Theorems *)

LEMMA InitiallyAnswers == Init => AnswerInv
<1> SUFFICES ASSUME Init PROVE AnswerInv
  OBVIOUS
<1>0. /\ queue = <<>> /\ waiting = <<>> /\ sent = 0 /\ query \in DOMAIN Results
      /\ \A i \in Iteration : /\ stage[i] = "idle" /\ rest[i] = <<>> /\ given[i] = <<>>
                             /\ taken[i] = <<>>
  BY DEF Init
<1>1. Len(<<>>) = 0 /\ DOMAIN <<>> = {} /\ \A S : <<>> \in Seq(S)
  BY EmptySeq
<1>2. TypeOK
  <2>1. sent \in 0 .. Len(List)
    BY <1>0, ListIsTheAnswers DEF List
  <2> QED BY <1>0, <1>1, <2>1 DEF TypeOK, Init, Outcomes
<1>3. InOrder(queue) /\ WaitsOnce
  BY <1>0, <1>1 DEF InOrder, WaitsOnce
<1>4. NumbersOf(queue) = {} /\ \A i \in Iteration : NumbersIn(taken[i]) = {}
  BY <1>0, <1>1 DEF NumbersOf, NumbersIn
<1>5. Shared
  <2>1. 1 .. sent = {}
    BY <1>0
  <2> QED BY <1>4, <2>1 DEF Shared
<1>6. \A i \in Iteration : Gives(i)
  BY <1>0, <1>1, <1>4 DEF Gives, Rising, Given
<1> QED BY <1>2, <1>3, <1>5, <1>6 DEF AnswerInv

LEMMA StutterAnswers == AnswerInv /\ UNCHANGED vars => AnswerInv'
<1> SUFFICES ASSUME AnswerInv, UNCHANGED vars PROVE AnswerInv'
  OBVIOUS
<1>1. /\ query' = query /\ sent' = sent /\ queue' = queue /\ rest' = rest
      /\ given' = given /\ result' = result /\ taken' = taken /\ operation' = operation
      /\ stage' = stage /\ waiting' = waiting
  BY DEF vars
<1>2. TypeOK /\ InOrder(queue) /\ Shared /\ WaitsOnce /\ \A j \in Iteration : Gives(j)
  BY DEF AnswerInv
<1>3. TypeOK'
  <2>1. List' = List /\ Pairs' = Pairs
    BY <1>1 DEF List, Pairs
  <2> QED BY <1>1, <1>2, <2>1 DEF TypeOK
<1>4. InOrder(queue)' /\ Shared'
  BY <1>1, <1>2, SameParts
<1>5. WaitsOnce'
  BY <1>1, <1>2 DEF WaitsOnce
<1>6. \A j \in Iteration : Gives(j)'
  BY <1>1, <1>2, SameGives
<1> QED BY <1>3, <1>4, <1>5, <1>6 DEF AnswerInv

(***************************************************************************)
(* In every behaviour the parts of the answer keep the order of the        *)
(* server, in the queue (BlockingQueue.ts) and within each iteration       *)
(* (Stream.ts), and what is left of an iteration's part comes after what   *)
(* it gave: the inductive invariant of the theorem below.                  *)
(***************************************************************************)
THEOREM AnswersInvariance == Spec => []AnswerInv
<1>1. AnswerInv /\ [Next]_vars => AnswerInv'
  <2> SUFFICES ASSUME AnswerInv, Next PROVE AnswerInv'
    BY StutterAnswers
  <2>1. CASE Server
    BY <2>1, ServerKeeps
  <2>2. CASE \E i \in Iteration : Start(i) \/ Advance(i)
    <3> PICK i \in Iteration : Start(i) \/ Advance(i)
      BY <2>2
    <3>1. CASE Start(i)
      BY <3>1, StartKeeps
    <3>2. CASE Take(i)
      BY <3>2, TakeKeeps
    <3>3. CASE NextPart(i)
      BY <3>3, NextPartKeeps
    <3>4. CASE NextAnswer(i)
      BY <3>4, NextAnswerKeeps
    <3> QED BY <3>1, <3>2, <3>3, <3>4 DEF Advance
  <2> QED BY <2>1, <2>2 DEF Next
<1> QED BY <1>1, InitiallyAnswers, PTL DEF Spec

LEMMA LostOnlyThere == AnswerInv => LostOnlyBehindAStop
<1> SUFFICES ASSUME AnswerInv PROVE LostOnlyBehindAStop
  OBVIOUS
<1>0. TypeOK /\ Shared /\ \A i \in Iteration : Gives(i)
  BY DEF AnswerInv
<1>1. NumbersOf(queue) = UNION {ToSet(queue[k].answers) : k \in Queued}
  <2>1. DOMAIN queue = 1 .. Len(queue)
    BY <1>0, LenProperties DEF TypeOK
  <2>2. \A k \in Queued : Numbers(queue[k]) = ToSet(queue[k].answers)
    BY DEF Queued, Numbers
  <2>3. \A k \in 1 .. Len(queue) : k \in Queued \/ Numbers(queue[k]) = {}
    BY <2>1 DEF Queued, Numbers
  <2>4. Queued \subseteq 1 .. Len(queue)
    BY <2>1 DEF Queued
  <2> QED BY <2>2, <2>3, <2>4 DEF NumbersOf
<1>2. ASSUME NEW i \in Iteration, NEW k \in 2 .. Len(given[i])
      PROVE  given[i][k - 1][1] < given[i][k][1]
  <2>1. Len(given[i]) \in Nat
    BY <1>0, LenProperties DEF TypeOK
  <2>2. k - 1 \in 1 .. Len(given[i]) /\ k \in 1 .. Len(given[i]) /\ k - 1 < k
    BY <2>1
  <2> QED BY <1>0, <2>2 DEF Gives
<1>3. \A i \in Iteration :
         /\ Given(i) \subseteq NumbersIn(taken[i])
         /\ \A n \in NumbersIn(taken[i]) \cap Kept :
               \/ n \in Given(i) \cup ToSet(rest[i])
               \/ /\ stage[i] = "ended" /\ ~TookTheEnd(i)
                  /\ n \in ToSet(Last(taken[i]))
                  /\ \A m \in Given(i) : m < n
  BY <1>0 DEF Gives
<1>4. /\ \A i, j \in Iteration : i # j => NumbersIn(taken[i]) \cap NumbersIn(taken[j]) = {}
      /\ (UNION {NumbersIn(taken[i]) : i \in Iteration})
           \cup (UNION {ToSet(queue[k].answers) : k \in Queued}) = 1 .. sent
  BY <1>0, <1>1 DEF Shared
<1> QED BY <1>2, <1>3, <1>4, Zenon DEF LostOnlyBehindAStop

(***************************************************************************)
(* However a Stream is iterated, by as many as like and one after the      *)
(* other or at once, no answer goes to two of them, each gives its answers *)
(* in the order of the server, and an answer that the filter keeps is lost *)
(* only in the rest of the last part of an iteration that stopped early or *)
(* failed (Stream.ts, ResponsePartIterator.ts).                            *)
(***************************************************************************)
THEOREM AnswersAreLostOnlyBehindAStop == Spec => []LostOnlyBehindAStop
BY AnswersInvariance, LostOnlyThere, PTL

LEMMA GivenAsSent == AnswerInv => AnswersAreTheServers
<1> SUFFICES ASSUME AnswerInv, NEW i \in Iteration, NEW k \in DOMAIN given[i]
             PROVE  Same(Queries[query].of, given[i][k][2], Results[query][given[i][k][1]])
  BY DEF AnswersAreTheServers
<1>0. query \in DOMAIN Results /\ query \in DOMAIN Queries /\ given[i] \in Seq(Pairs)
  BY ResultsAreAnswers DEF AnswerInv, TypeOK
<1>1. given[i][k] \in Pairs
  <2>1. DOMAIN given[i] = 1 .. Len(given[i])
    BY <1>0, LenProperties
  <2> QED BY <1>0, <2>1, ElementOfSeq
<1>2. PICK n \in 1 .. Len(List) : ~Throws(Values[query][n]) /\ given[i][k] = <<n, Values[query][n]>>
  BY <1>1 DEF Pairs
<1> DEFINE of == Queries[query].of
<1>3. /\ n \in DOMAIN Results[query] /\ Results[Message(query)] = Results[query]
      /\ IsAnswer(of, Results[query][n])
  BY <1>0, ListIsTheAnswers, MessageIsMethod, ResultsAreAnswers
<1>4. Values[query][n] = ConvertAnswer(of, Results[query][n])
  BY <1>0, <1>3 DEF Values
<1>5. of \in {"ConceptMap", "ConceptMapGroup", "Numeric", "NumericGroup", "Explanation",
               "Rule", "void"}
  BY <1>0, AnswersHaveAKind
<1> HIDE DEF of
<1>6. Same(of, ConvertAnswer(of, Results[query][n]), Results[query][n])
  BY <1>2, <1>3, <1>4, <1>5, ConversionIsTheServers
<1>7. given[i][k][1] = n /\ given[i][k][2] = ConvertAnswer(of, Results[query][n])
  BY <1>2, <1>4
<1> QED BY <1>6, <1>7 DEF of

(***************************************************************************)
(* What the user of a query gets is what the server sent for it, as far as *)
(* SameExplainables and Same say: the concepts, numbers, rules, conditions *)
(* and conclusions, variable mappings, explainable ownerships and those    *)
(* explainable relations whose variable no explainable attribute has       *)
(* (ConceptMapImpl.ts and the other classes of src/concept/answer,         *)
(* ExplanationImpl.ts).  Explainable attributes are not found where they   *)
(* should be, and the theorem does not say that they are.                  *)
(***************************************************************************)
THEOREM AnswersAreGivenAsSent == Spec => []AnswersAreTheServers
BY AnswersInvariance, GivenAsSent, PTL
=============================================================================
