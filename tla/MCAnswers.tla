------------------------------ MODULE MCAnswers ------------------------------
(* Answers of each kind, a number that is not set and an unknown type. *)
EXTENDS Answers

CONSTANTS i1, i2

TypeIs(label, scope, encoding) ==
    [thing |-> Null, type |-> [label |-> label, scope |-> scope, encoding |-> encoding,
                               valueType |-> "OBJECT", root |-> FALSE]]
ThingIs(iid, type) == [thing |-> [iid |-> iid, type |-> type.type], type |-> Null]

Person == TypeIs("person", Null, "ENTITY_TYPE")
Friendship == TypeIs("friendship", Null, "RELATION_TYPE")
Friend == TypeIs("friend", "friendship", "ROLE_TYPE")
Nickname == [TypeIs("nickname", Null, "ATTRIBUTE_TYPE") EXCEPT !.type.valueType = "STRING"]

IsExplainable(id) == [class |-> "Explainable", id |-> id]
Nothing == [relations |-> <<>>, attributes |-> <<>>, ownerships |-> <<>>]
Map(map, explainables) == [map |-> map, explainables |-> explainables]

People == Map([x |-> ThingIs("p1", Person), t |-> Person], Nothing)
Inferred ==
    Map([x |-> ThingIs("p1", Person), r |-> ThingIs("f1", Friendship), role |-> Friend,
         a |-> ThingIs("n1", Nickname)],
        [relations |-> [r |-> IsExplainable(1)], attributes |-> [a |-> IsExplainable(2)],
         ownerships |-> [x |-> [a |-> IsExplainable(3)]]])
Number(case, value) == [case |-> case, value |-> value]

MCResults ==
    [match |-> <<People, Inferred, People>>,
     insert |-> <<Map([x |-> ThingIs("p1", TypeIs("x", Null, "NONE"))], Nothing), People>>,
     matchAggregate |-> <<Number("LONG_VALUE", 7)>>,
     matchGroup |-> <<[owner |-> Person, maps |-> <<People, Inferred>>],
                      [owner |-> ThingIs("p1", Person), maps |-> <<>>]>>,
     matchGroupAggregate |->
         <<[owner |-> ThingIs("n1", Nickname), number |-> Number("NAN", Null)],
           [owner |-> Friend, number |-> Number("VALUE_NOT_SET", Null)],
           [owner |-> Person, number |-> Number("DOUBLE_VALUE", 5)]>>,
     explain |-> <<[rule |-> [label |-> "r"], condition |-> People, conclusion |-> Inferred,
                    varMapping |-> [x |-> {"y"}]]>>,
     getRules |-> <<[label |-> "r"], [label |-> "s"]>>,
     delete |-> <<[done |-> TRUE]>>]

MCOperations == {"collect", "first", "some", "every"}
MCKept == {1, 2}
MCSatisfying == {2, 3}
=============================================================================
