-------------------------- MODULE ConceptRequests ----------------------------
(***************************************************************************)
(* The requests of the query, concept and logic layers as                  *)
(* common/rpc/RequestBuilder.ts builds them.  A request names what it is   *)
(* about (a type by scope and label, a thing by its iid, a rule by its     *)
(* label, nothing for the managers), the message, and the fields that are  *)
(* set in it.  A builder is a message with the fields its arguments go to, *)
(* in the order of its parameters; two builders may share a message.       *)
(***************************************************************************)
EXTENDS Naturals, Sequences

CONSTANT Null  \* null and undefined

Builder(message, fields) == [message |-> message, fields |-> fields]

TypeBuilders ==
    [isAbstract    |-> Builder("isAbstract", <<>>),
     setLabel      |-> Builder("setLabel", <<"label">>),
     getSupertypes |-> Builder("getSupertypes", <<>>),
     getSubtypes   |-> Builder("getSubtypes", <<>>),
     getSupertype  |-> Builder("getSupertype", <<>>),
     delete        |-> Builder("delete", <<>>)]

RoleTypeBuilders ==
    [getRelationTypes |-> Builder("getRelationTypes", <<>>),
     getPlayers       |-> Builder("getPlayers", <<>>)]

ThingTypeBuilders ==
    [setAbstract        |-> Builder("setAbstract", <<>>),
     unsetAbstract      |-> Builder("unsetAbstract", <<>>),
     setSupertype       |-> Builder("setSupertype", <<"type">>),
     getPlays           |-> Builder("getPlays", <<>>),
     setPlays           |-> Builder("setPlays", <<"role">>),
     setPlaysOverridden |-> Builder("setPlays", <<"role", "overriddenRole">>),
     unsetPlays         |-> Builder("unsetPlays", <<"role">>),
     getOwns            |-> Builder("getOwns", <<"keysOnly">>),
     getOwnsByType      |-> Builder("getOwns", <<"valueType", "keysOnly">>),
     setOwns            |-> Builder("setOwns", <<"attributeType", "isKey">>),
     setOwnsOverridden  |->
         Builder("setOwns", <<"attributeType", "overriddenType", "isKey">>),
     unsetOwns          |-> Builder("unsetOwns", <<"attributeType">>),
     getInstances       |-> Builder("getInstances", <<>>)]

EntityTypeBuilders == [create |-> Builder("create", <<>>)]

RelationTypeBuilders ==
    [create              |-> Builder("create", <<>>),
     getRelates          |-> Builder("getRelates", <<>>),
     getRelatesByRole    |-> Builder("getRelatesForRoleLabel", <<"label">>),
     setRelates          |-> Builder("setRelates", <<"label">>),
     setRelatesOverridden |-> Builder("setRelates", <<"label", "overriddenLabel">>),
     unsetRelates        |-> Builder("unsetRelates", <<"label">>)]

AttributeTypeBuilders ==
    [getOwners |-> Builder("getOwners", <<"onlyKey">>),
     put       |-> Builder("put", <<"value">>),
     get       |-> Builder("get", <<"value">>),
     getRegex  |-> Builder("getRegex", <<>>),
     setRegex  |-> Builder("setRegex", <<"regex">>)]

ThingBuilders ==
    [getHas       |-> Builder("getHas", <<"keysOnly">>),
     getHasByType |-> Builder("getHas", <<"attributeTypes">>),
     setHas       |-> Builder("setHas", <<"attribute">>),
     unsetHas     |-> Builder("unsetHas", <<"attribute">>),
     getPlaying   |-> Builder("getPlaying", <<>>),
     getRelations |-> Builder("getRelations", <<"roleTypes">>),
     delete       |-> Builder("delete", <<>>)]

RelationBuilders ==
    [addPlayer            |-> Builder("addPlayer", <<"roleType", "player">>),
     removePlayer         |-> Builder("removePlayer", <<"roleType", "player">>),
     getPlayers           |-> Builder("getPlayers", <<"roleTypes">>),
     getPlayersByRoleType |-> Builder("getPlayersByRoleType", <<>>),
     getRelating          |-> Builder("getRelating", <<>>)]

AttributeBuilders ==
    [getOwners       |-> Builder("getOwners", <<>>),
     getOwnersByType |-> Builder("getOwners", <<"thingType">>)]

RuleBuilders ==
    [setLabel |-> Builder("setLabel", <<"label">>),
     delete   |-> Builder("delete", <<>>)]

ConceptManagerBuilders ==
    [putEntityType    |-> Builder("putEntityType", <<"label">>),
     putRelationType  |-> Builder("putRelationType", <<"label">>),
     putAttributeType |-> Builder("putAttributeType", <<"label", "valueType">>),
     getThingType     |-> Builder("getThingType", <<"label">>),
     getThing         |-> Builder("getThing", <<"iid">>)]

LogicManagerBuilders ==
    [putRule  |-> Builder("putRule", <<"label">>),
     getRule  |-> Builder("getRule", <<"label">>),
     getRules |-> Builder("getRules", <<>>)]

\* Every query carries the options as well.
QueryManagerBuilders ==
    LET Query(message) == Builder(message, <<"query">>)
    IN  [define |-> Query("define"), undefine |-> Query("undefine"), match |-> Query("match"),
         matchAggregate |-> Query("matchAggregate"), matchGroup |-> Query("matchGroup"),
         matchGroupAggregate |-> Query("matchGroupAggregate"), insert |-> Query("insert"),
         delete |-> Query("delete"), update |-> Query("update"),
         explain |-> Builder("explain", <<"explainableId">>)]

Builders ==
    [Type |-> TypeBuilders, RoleType |-> RoleTypeBuilders, ThingType |-> ThingTypeBuilders,
     EntityType |-> EntityTypeBuilders, RelationType |-> RelationTypeBuilders,
     AttributeType |-> AttributeTypeBuilders, Thing |-> ThingBuilders,
     Relation |-> RelationBuilders, Attribute |-> AttributeBuilders, Rule |-> RuleBuilders,
     ConceptManager |-> ConceptManagerBuilders, LogicManager |-> LogicManagerBuilders,
     QueryManager |-> QueryManagerBuilders]

\* The fields that hold a concept, or a list of concepts, rather than a value.
ConceptFields ==
    {"type", "role", "overriddenRole", "attributeType", "overriddenType", "attributeTypes",
     "attribute", "roleTypes", "roleType", "player", "thingType"}

\* newReqBuilder: the scope is set only if the label has one.
OnType(label) ==
    [kind |-> "type", label |-> label.name, scope |-> label.scope]
OnThing(iid) == [kind |-> "thing", iid |-> iid]
OnRule(label) == [kind |-> "rule", label |-> label]
OnManager == [kind |-> "manager"]

\* The arguments in the fields of the builder <<namespace, name>>.
Build(builder, on, args) ==
    LET b == Builders[builder[1]][builder[2]]
        Position(field) == CHOOSE i \in DOMAIN b.fields : b.fields[i] = field
    IN  [on |-> on, message |-> b.message,
         fields |-> [field \in {b.fields[i] : i \in DOMAIN b.fields} |->
                        args[Position(field)]]]
=============================================================================
