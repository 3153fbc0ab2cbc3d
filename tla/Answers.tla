------------------------------- MODULE Answers -------------------------------
(***************************************************************************)
(* The answers of one query (QueryManagerImpl.ts, LogicManagerImpl.ts) and *)
(* the Stream its user iterates (common/util/Stream.ts).                   *)
(*                                                                         *)
(* A Stream is lazy: Streams are built from Streams, and each iteration    *)
(* makes generators of its own, which all take from the one queue of the   *)
(* call (ResponsePartIterator.ts).  So iterations of a Stream that follow  *)
(* one another, or run at the same time, share the parts of the answer     *)
(* between them: who has taken a part goes through the answers in it, one  *)
(* await after the other, and an iteration that stops takes the rest of    *)
(* its part with it.  The queue gives its elements in the order of the     *)
(* takes (BlockingQueue), and ends with one element, "done" or the cause   *)
(* of the close.  The portions of the server are those of                  *)
(* TransactionStream; here it sends parts as it likes.                     *)
(***************************************************************************)
EXTENDS ConceptClasses, SequencesExt

CONSTANTS
    Iteration,    \* the iterations of the Stream
    Operations,   \* what they are: collect, forEach, first, some, every
    Results,      \* message -> the answers the server has for it
    Kept,         \* numbers of the answers that the user's filter() lets through
    Satisfying    \* those for which the callback of some() and every() is true

VARIABLES
    query,       \* the method of the QueryManager or LogicManager called
    sent,        \* server: answers sent so far
    ended,       \* server: how the call has ended: no, done or closed
    queue,       \* elements nobody has taken
    waiting,     \* the iterations in take(), in order
    stage,       \* per iteration: idle, taking, within a part, or ended
    operation,   \* per iteration
    rest,        \* per iteration: numbers of the answers left in its part
    given,       \* per iteration: <<number, value>> given to its user so far
    result,      \* per iteration: what its promise is settled with
    taken        \* history: per iteration, the parts it has taken

vars == <<query, sent, ended, queue, waiting, stage, operation, rest, given, result, taken>>

(***************************************************************************)
(* Conversion of the answers.  A conversion throws if one within throws.   *)
(***************************************************************************)
ConceptOf(proto) == IF proto.thing # Null THEN ThingOf(proto.thing) ELSE TypeOf(proto.type)

Unless(failed, value) == IF failed THEN Error("BAD_ANSWER") ELSE value

\* The explainable attributes end up among the relations.
ExplainablesOf(proto) ==
    [relations  |-> [v \in DOMAIN proto.relations \cup DOMAIN proto.attributes |->
                        IF v \in DOMAIN proto.attributes THEN proto.attributes[v]
                        ELSE proto.relations[v]],
     attributes |-> <<>>,
     ownerships |-> [pair \in UNION {{owner} \X DOMAIN proto.ownerships[owner] :
                                        owner \in DOMAIN proto.ownerships} |->
                        proto.ownerships[pair[1]][pair[2]]]]

\* relation(), attribute(), ownership() of the explainables.
Explainable(map, key) ==
    IF key \in DOMAIN map THEN map[key] ELSE Error("NONEXISTENT_EXPLAINABLE")

ConceptMapOf(proto) ==
    LET map == [v \in DOMAIN proto.map |-> ConceptOf(proto.map[v])]
    IN  Unless(\E v \in DOMAIN map : Throws(map[v]),
               [class |-> "ConceptMap", map |-> map,
                explainables |-> ExplainablesOf(proto.explainables)])

ConceptMapGroupOf(proto) ==
    LET owner == ConceptOf(proto.owner)
        maps == [i \in DOMAIN proto.maps |-> ConceptMapOf(proto.maps[i])]
    IN  Unless(Throws(owner) \/ \E i \in DOMAIN maps : Throws(maps[i]),
               [class |-> "ConceptMapGroup", owner |-> owner, maps |-> maps])

NumericOf(proto) ==
    CASE proto.case = "NAN" -> [class |-> "Numeric", value |-> Null]
      [] proto.case \in {"DOUBLE_VALUE", "LONG_VALUE"} ->
             [class |-> "Numeric", value |-> proto.value]
      [] OTHER -> Error("BAD_ANSWER_TYPE")

NumericGroupOf(proto) ==
    LET owner == ConceptOf(proto.owner)
        numeric == NumericOf(proto.number)
    IN  Unless(Throws(owner) \/ Throws(numeric),
               [class |-> "NumericGroup", owner |-> owner, numeric |-> numeric])

\* Mutant of ExplanationOf: the two answers are swapped.
ExplanationOfSwapped(proto) ==
    LET condition == ConceptMapOf(proto.conclusion)
        conclusion == ConceptMapOf(proto.condition)
    IN  Unless(Throws(condition) \/ Throws(conclusion),
               [class |-> "Explanation", rule |-> RuleOf(proto.rule),
                condition |-> condition, conclusion |-> conclusion,
                variableMapping |-> proto.varMapping])

ExplanationOf(proto) ==
    LET condition == ConceptMapOf(proto.condition)
        conclusion == ConceptMapOf(proto.conclusion)
    IN  Unless(Throws(condition) \/ Throws(conclusion),
               [class |-> "Explanation", rule |-> RuleOf(proto.rule),
                condition |-> condition, conclusion |-> conclusion,
                variableMapping |-> proto.varMapping])

(***************************************************************************)
(* The methods: how they get their answer and what it is converted to.     *)
(***************************************************************************)
Queries ==
    LET Many(name, of) == Stream("QueryManager", name, {<<"query">>}, of)
        One(name, of) == Execute("QueryManager", name, {<<"query">>}, of)
    IN  [match |-> Many("match", "ConceptMap"), insert |-> Many("insert", "ConceptMap"),
         update |-> Many("update", "ConceptMap"),
         matchAggregate |-> One("matchAggregate", "Numeric"),
         matchGroup |-> Many("matchGroup", "ConceptMapGroup"),
         matchGroupAggregate |-> Many("matchGroupAggregate", "NumericGroup"),
         explain |-> Many("explain", "Explanation"),
         define |-> One("define", "void"), undefine |-> One("undefine", "void"),
         delete |-> One("delete", "void"), getRules |-> LogicManagerMethods.getRules]

\* The message its request carries.
Message(q) ==
    LET builder == Queries[q].builder IN Builders[builder[1]][builder[2]].message

ConvertAnswer(of, proto) ==
    CASE of = "ConceptMap" -> ConceptMapOf(proto)
      [] of = "ConceptMapGroup" -> ConceptMapGroupOf(proto)
      [] of = "Numeric" -> NumericOf(proto)
      [] of = "NumericGroup" -> NumericGroupOf(proto)
      [] of = "Explanation" -> ExplanationOf(proto)
      [] of = "Rule" -> RuleOf(proto)
      [] of = "void" -> Null

\* What each answer is converted to.
Values == [q \in DOMAIN Results |-> [n \in DOMAIN Results[Message(q)] |->
                                       ConvertAnswer(Queries[q].of, Results[Message(q)][n])]]

\* What the protocol says of the answers: there is a list of them for each
\* method, only types of roles have a scope, and what is not a number has no
\* value.
IsList(s) == Len(s) \in Nat /\ DOMAIN s = 1 .. Len(s)
ScopedIfRole(proto) ==
    proto.thing = Null /\ proto.type # Null =>
        proto.type.scope = Null \/ proto.type.encoding = "ROLE_TYPE"
EachScopedIfRole(map) == \A v \in DOMAIN map : ScopedIfRole(map[v])
IsNumber(proto) == proto.case = "NAN" => proto.value = Null
IsAnswer(of, proto) ==
    CASE of = "ConceptMap" -> EachScopedIfRole(proto.map)
      [] of = "ConceptMapGroup" ->
             /\ ScopedIfRole(proto.owner) /\ IsList(proto.maps)
             /\ \A k \in DOMAIN proto.maps : EachScopedIfRole(proto.maps[k].map)
      [] of = "Numeric" -> IsNumber(proto)
      [] of = "NumericGroup" -> ScopedIfRole(proto.owner) /\ IsNumber(proto.number)
      [] of = "Explanation" ->
             EachScopedIfRole(proto.condition.map) /\ EachScopedIfRole(proto.conclusion.map)
      [] of \in {"Rule", "void"} -> TRUE
ASSUME ResultsAreAnswers ==
    /\ DOMAIN Results \subseteq DOMAIN Queries
    /\ \A q \in DOMAIN Results :
          /\ IsList(Results[q])
          /\ \A n \in DOMAIN Results[q] : IsAnswer(Queries[q].of, Results[q][n])

Init ==
    /\ query \in DOMAIN Results
    /\ sent = 0 /\ ended = "no"
    /\ queue = <<>> /\ waiting = <<>>
    /\ stage = [i \in Iteration |-> "idle"]
    /\ operation = [i \in Iteration |-> "none"]
    /\ rest = [i \in Iteration |-> <<>>]
    /\ given = [i \in Iteration |-> <<>>]
    /\ result = [i \in Iteration |-> "none"]
    /\ taken = [i \in Iteration |-> <<>>]

(***************************************************************************)
(* The server, and the close of the transaction.                           *)
(***************************************************************************)
Put(element) ==
    /\ queue' = Append(queue, element)
    /\ UNCHANGED <<query, waiting, stage, operation, rest, given, result, taken>>

SendPart ==
    /\ ended = "no"
    /\ \E n \in (sent + 1) .. Len(Results[Message(query)]) :
          /\ Put([kind |-> "part", answers |-> [k \in 1 .. (n - sent) |-> sent + k]])
          /\ sent' = n
    /\ UNCHANGED ended

SendDone ==
    /\ ended = "no" /\ sent = Len(Results[Message(query)])
    /\ Queries[query].via = "stream"
    /\ Put([kind |-> "done"]) /\ ended' = "done"
    /\ UNCHANGED sent

CloseTransaction ==
    /\ ended = "no"
    /\ Put([kind |-> "closed"]) /\ ended' = "closed"
    /\ UNCHANGED sent

(***************************************************************************)
(* Iterations.                                                             *)
(***************************************************************************)
\* A call of execute() takes one response; a Stream may be iterated in many
\* ways, by several at once.
Start(i) ==
    /\ stage[i] = "idle"
    /\ Queries[query].via = "execute" => \A j \in Iteration : stage[j] = "idle"
    /\ \E op \in IF Queries[query].via = "execute" THEN {"await"} ELSE Operations :
          operation' = [operation EXCEPT ![i] = op]
    /\ stage' = [stage EXCEPT ![i] = "taking"]
    /\ waiting' = Append(waiting, i)
    /\ UNCHANGED <<query, sent, ended, queue, rest, given, result, taken>>

End(i, outcome) ==
    /\ stage' = [stage EXCEPT ![i] = "ended"]
    /\ result' = [result EXCEPT ![i] = outcome]
    /\ rest' = [rest EXCEPT ![i] = <<>>]

\* What an iteration that has seen everything ends with.
AtTheEnd(op) == CASE op = "every" -> "true" [] op = "some" -> "false"
                  [] op = "first" -> "null" [] OTHER -> "all"

\* Mutant of Take: the iteration takes again when the queue was closed.
TakeSwallowsClose(i) ==
    /\ waiting # <<>> /\ i = Head(waiting) /\ queue # <<>>
    /\ LET element == Head(queue)
       IN  /\ queue' = Tail(queue)
           /\ waiting' = Tail(waiting) \o IF element.kind = "closed" THEN <<i>> ELSE <<>>
           /\ CASE element.kind = "part" ->
                     /\ rest' = [rest EXCEPT ![i] = element.answers]
                     /\ stage' = [stage EXCEPT ![i] = "within"]
                     /\ taken' = [taken EXCEPT ![i] = Append(@, element.answers)]
                     /\ UNCHANGED result
                [] element.kind = "done" -> End(i, AtTheEnd(operation[i])) /\ UNCHANGED taken
                [] element.kind = "closed" -> UNCHANGED <<stage, rest, result, taken>>
    /\ UNCHANGED <<query, sent, ended, operation, given>>

Take(i) ==
    /\ waiting # <<>> /\ i = Head(waiting) /\ queue # <<>>
    /\ LET element == Head(queue)
       IN  /\ queue' = Tail(queue) /\ waiting' = Tail(waiting)
           /\ CASE element.kind = "part" ->
                     /\ rest' = [rest EXCEPT ![i] = element.answers]
                     /\ stage' = [stage EXCEPT ![i] = "within"]
                     /\ taken' = [taken EXCEPT ![i] = Append(@, element.answers)]
                     /\ UNCHANGED result
                [] element.kind = "done" -> End(i, AtTheEnd(operation[i])) /\ UNCHANGED taken
                [] element.kind = "closed" -> End(i, "closed") /\ UNCHANGED taken
    /\ UNCHANGED <<query, sent, ended, operation, given>>

\* Mutant of NextPart: one answer of each part is enough.
NextPartEarly(i) ==
    /\ stage[i] = "within" /\ (rest[i] = <<>> \/ rest[i] # Last(taken[i]))
    /\ stage' = [stage EXCEPT ![i] = "taking"]
    /\ rest' = [rest EXCEPT ![i] = <<>>]
    /\ waiting' = Append(waiting, i)
    /\ UNCHANGED <<query, sent, ended, queue, operation, given, result, taken>>

\* The part is used up: FlatMapped goes on to the next.
NextPart(i) ==
    /\ stage[i] = "within" /\ rest[i] = <<>>
    /\ stage' = [stage EXCEPT ![i] = "taking"]
    /\ waiting' = Append(waiting, i)
    /\ UNCHANGED <<query, sent, ended, queue, operation, rest, given, result, taken>>

\* Whether the operation stops at an answer, and with what.
Stops(op, number) ==
    CASE op \in {"first", "await"} -> TRUE
      [] op = "some" -> number \in Satisfying
      [] op = "every" -> number \notin Satisfying
      [] OTHER -> FALSE
StopsWith(op) == CASE op = "some" -> "true" [] op = "every" -> "false" [] OTHER -> "value"

\* One answer goes through the mapper, the filter and the operation.
NextAnswer(i) ==
    /\ stage[i] = "within" /\ rest[i] # <<>>
    /\ LET number == Head(rest[i])
           value == Values[query][number]
       IN  \/ /\ Throws(value)
              /\ End(i, "failed") /\ UNCHANGED given
           \/ /\ ~Throws(value) /\ number \notin Kept /\ operation[i] # "await"
              /\ rest' = [rest EXCEPT ![i] = Tail(@)]
              /\ UNCHANGED <<stage, result, given>>
           \/ /\ ~Throws(value) /\ (number \in Kept \/ operation[i] = "await")
              /\ given' = [given EXCEPT ![i] = Append(@, <<number, value>>)]
              /\ IF Stops(operation[i], number) THEN End(i, StopsWith(operation[i]))
                 ELSE rest' = [rest EXCEPT ![i] = Tail(@)] /\ UNCHANGED <<stage, result>>
    /\ UNCHANGED <<query, sent, ended, queue, waiting, operation, taken>>

Server == SendPart \/ SendDone \/ CloseTransaction
Advance(i) == Take(i) \/ NextPart(i) \/ NextAnswer(i)
Next == Server \/ \E i \in Iteration : Start(i) \/ Advance(i)

Spec == Init /\ [][Next]_vars

\* The server answers, and what an await waits for is resumed.
FairSpec == Spec /\ WF_vars(Server) /\ \A i \in Iteration : WF_vars(Advance(i))

(***************************************************************************)
(* Properties.                                                             *)
(***************************************************************************)
NumbersIn(parts) == UNION {ToSet(parts[k]) : k \in DOMAIN parts}
Given(i) == {given[i][k][1] : k \in DOMAIN given[i]}
TookTheEnd(i) ==
    stage[i] = "ended" /\ result[i] \in {AtTheEnd(operation[i]), "closed"}
Queued == {k \in DOMAIN queue : queue[k].kind = "part"}

\* However a Stream is iterated, each answer goes to one iteration at most,
\* in the server's order, and none that the filter keeps is lost: but for the
\* rest of the last part taken by an iteration that stopped early or failed.
LostOnlyBehindAStop ==
    /\ \A i, j \in Iteration : i # j => NumbersIn(taken[i]) \cap NumbersIn(taken[j]) = {}
    /\ (UNION {NumbersIn(taken[i]) : i \in Iteration})
         \cup (UNION {ToSet(queue[k].answers) : k \in Queued}) = 1 .. sent
    /\ \A i \in Iteration :
          /\ \A k \in 2 .. Len(given[i]) : given[i][k - 1][1] < given[i][k][1]
          /\ Given(i) \subseteq NumbersIn(taken[i])
          /\ \A n \in NumbersIn(taken[i]) \cap Kept :
                \/ n \in Given(i) \cup ToSet(rest[i])
                \/ /\ stage[i] = "ended" /\ ~TookTheEnd(i)
                   /\ n \in ToSet(Last(taken[i]))
                   /\ \A m \in Given(i) : m < n

\* An iteration ends, also when the transaction closes under it, unless
\* another has taken the one element that ends the queue: a Stream that was
\* iterated to its end keeps the next iteration waiting for ever
\* (ResponsePartIterator.ts:45).
EveryIterationEnds ==
    \A i \in Iteration :
        stage[i] = "taking" ~>
            stage[i] = "ended" \/ \E j \in Iteration \ {i} : TookTheEnd(j)

\* What stands for what.  A concept stands for its iid or its label, and an
\* answer for its concepts, each under its own variable.
SameConcept(concept, proto) ==
    IF proto.thing # Null THEN concept.iid = proto.thing.iid
    ELSE concept.label = Label(proto.type.scope, proto.type.label)
\* Explainables: each ownership is found under its owner and attribute, and
\* each relation under its variable unless an attribute has that variable;
\* what is found under a variable, or a pair, is what the server put there.
\* It is not said that the explainable attributes are found as attributes,
\* nor that a relation is not hidden by one: neither is true of the code.
SameExplainables(kept, told) ==
    /\ \A v \in DOMAIN told.relations \ DOMAIN told.attributes :
          Explainable(kept.relations, v) = told.relations[v]
    /\ \A v \in DOMAIN kept.relations :
          \/ v \in DOMAIN told.relations /\ kept.relations[v] = told.relations[v]
          \/ v \in DOMAIN told.attributes /\ kept.relations[v] = told.attributes[v]
    /\ \A v \in DOMAIN kept.attributes :
          v \in DOMAIN told.attributes /\ kept.attributes[v] = told.attributes[v]
    /\ \A o \in DOMAIN told.ownerships : \A a \in DOMAIN told.ownerships[o] :
          Explainable(kept.ownerships, <<o, a>>) = told.ownerships[o][a]
    /\ \A pair \in DOMAIN kept.ownerships :
          /\ pair[1] \in DOMAIN told.ownerships
          /\ pair[2] \in DOMAIN told.ownerships[pair[1]]
SameMap(value, proto) ==
    /\ DOMAIN value.map = DOMAIN proto.map
    /\ \A v \in DOMAIN value.map : SameConcept(value.map[v], proto.map[v])
    /\ SameExplainables(value.explainables, proto.explainables)
Same(of, value, proto) ==
    CASE of = "ConceptMap" -> SameMap(value, proto)
      [] of = "ConceptMapGroup" ->
             /\ SameConcept(value.owner, proto.owner)
             /\ Len(value.maps) = Len(proto.maps)
             /\ \A k \in DOMAIN value.maps : SameMap(value.maps[k], proto.maps[k])
      [] of = "Numeric" -> value.value = proto.value
      [] of = "NumericGroup" ->
             SameConcept(value.owner, proto.owner) /\ value.numeric.value = proto.number.value
      [] of = "Explanation" ->
             /\ value.rule.label = proto.rule.label
             /\ SameMap(value.condition, proto.condition)
             /\ SameMap(value.conclusion, proto.conclusion)
             /\ value.variableMapping = proto.varMapping
      [] of = "Rule" -> value.label = proto.label
      [] of = "void" -> TRUE

\* Every answer given is the server's of its number: its concepts and owners,
\* its number, its rule, condition, conclusion and variable mapping, and its
\* explainables as far as SameExplainables goes.  The explainable attributes
\* are left to ExplainableAttributesAreFound.
AnswersAreTheServers ==
    \A i \in Iteration : \A k \in DOMAIN given[i] :
        Same(Queries[query].of, given[i][k][2], Results[query][given[i][k][1]])

\* An attribute the server calls explainable is explainable.
ExplainableAttributesAreFound ==
    \A i \in Iteration : \A k \in DOMAIN given[i] :
        Queries[query].of = "ConceptMap" =>
            LET told == Results[query][given[i][k][1]].explainables.attributes
                kept == given[i][k][2].explainables.attributes
            IN  \A v \in DOMAIN told : Explainable(kept, v) = told[v]
=============================================================================
