--------------------------- MODULE ConceptClasses ----------------------------
(***************************************************************************)
(* The classes of src/concept and src/logic/RuleImpl.ts as values.  A      *)
(* class is its superclass, the methods it has of its own, and those it    *)
(* overrides only to declare a narrower class, super.f() as Stream<C>.     *)
(* The local class and the Remote one of the same name differ in the       *)
(* methods, which need a transaction; a concept says which of the two it   *)
(* is.                                                                     *)
(*                                                                         *)
(* A method is the builder of its request, the arguments it takes (a set   *)
(* of overloads), how it gets its answer (execute() awaits one, stream()   *)
(* returns a Stream), the conversion of what the server answers, and the   *)
(* class its signature declares.                                           *)
(*                                                                         *)
(* Values, names and regular expressions are opaque; whether an instance   *)
(* is inferred is left out.                                                *)
(***************************************************************************)
EXTENDS ConceptRequests, FiniteSets, TLC

(***************************************************************************)
(* Labels.                                                                 *)
(***************************************************************************)
Label(scope, name) == [scope |-> scope, name |-> name]
ScopedName(label) ==
    IF label.scope = Null THEN <<label.name>> ELSE <<label.scope, label.name>>

ValueTypes == {"OBJECT", "BOOLEAN", "LONG", "DOUBLE", "STRING", "DATETIME"}

(***************************************************************************)
(* Methods.                                                                *)
(***************************************************************************)
Execute(namespace, name, overloads, of) ==
    [builder |-> <<namespace, name>>, overloads |-> overloads, via |-> "execute",
     of |-> of, declares |-> of]
Stream(namespace, name, overloads, of) ==
    [Execute(namespace, name, overloads, of) EXCEPT !.via = "stream"]
Declaring(method, class) == [method EXCEPT !.declares = class]

ConceptManagerMethods ==
    LET Get(class) == Declaring(
            Execute("ConceptManager", "getThingType", {<<"name">>}, "ThingType"), class)
        Put(name, overload, class) == Execute("ConceptManager", name, {overload}, class)
    IN  [getThingType     |-> Get("ThingType"),
         getEntityType    |-> Get("EntityType"),
         getRelationType  |-> Get("RelationType"),
         getAttributeType |-> Get("AttributeType"),
         getThing         |-> Execute("ConceptManager", "getThing", {<<"iid">>}, "Thing"),
         putEntityType    |-> Put("putEntityType", <<"name">>, "EntityType"),
         putRelationType  |-> Put("putRelationType", <<"name">>, "RelationType"),
         putAttributeType |->
             Put("putAttributeType", <<"name", "ValueType">>, "AttributeType")]

LogicManagerMethods ==
    [putRule  |-> Execute("LogicManager", "putRule", {<<"name">>}, "Rule"),
     getRule  |-> Execute("LogicManager", "getRule", {<<"name">>}, "Rule"),
     getRules |-> Stream("LogicManager", "getRules", {<<>>}, "Rule")]

Class(methods, narrows) == [methods |-> methods, narrows |-> narrows]

TypeClass ==
    Class([delete        |-> Execute("Type", "delete", {<<>>}, "void"),
           getSubtypes   |-> Stream("Type", "getSubtypes", {<<>>}, "Type"),
           getSupertype  |-> Execute("Type", "getSupertype", {<<>>}, "Type"),
           getSupertypes |-> Stream("Type", "getSupertypes", {<<>>}, "Type"),
           setLabel      |-> Execute("Type", "setLabel", {<<"name">>}, "void"),
           isAbstract    |-> Execute("Type", "isAbstract", {<<>>}, "boolean")],
          <<>>)

\* isDeleted() asks for the type of that name.
ThingTypeMethods ==
    LET Does(name, overloads) == Execute("ThingType", name, overloads, "void")
        Gets(name, overloads, of) == Stream("ThingType", name, overloads, of)
    IN  [getInstances  |-> Gets("getInstances", {<<>>}, "Thing"),
         getOwns       |-> Gets("getOwns", {<<>>, <<"ValueType">>, <<"boolean">>,
                                            <<"ValueType", "boolean">>}, "AttributeType"),
         setOwns       |-> Does("setOwns",
             {<<"AttributeType">>, <<"AttributeType", "boolean">>,
              <<"AttributeType", "AttributeType">>,
              <<"AttributeType", "AttributeType", "boolean">>}),
         unsetOwns     |-> Does("unsetOwns", {<<"AttributeType">>}),
         getPlays      |-> Gets("getPlays", {<<>>}, "RoleType"),
         setPlays      |-> Does("setPlays", {<<"RoleType">>, <<"RoleType", "RoleType">>}),
         unsetPlays    |-> Does("unsetPlays", {<<"RoleType">>}),
         setAbstract   |-> Does("setAbstract", {<<>>}),
         unsetAbstract |-> Does("unsetAbstract", {<<>>}),
         isDeleted     |-> [ConceptManagerMethods.getThingType EXCEPT !.overloads = {<<>>}]]
ThingTypeClass ==
    Class(ThingTypeMethods,
          [getSubtypes |-> "ThingType", getSupertype |-> "ThingType",
           getSupertypes |-> "ThingType"])

\* setSupertype() of a ThingType is protected: the subclasses declare it.
SetSupertype(class) == Execute("ThingType", "setSupertype", {<<class>>}, "void")

EntityTypeClass ==
    Class([create       |-> Execute("EntityType", "create", {<<>>}, "Entity"),
           setSupertype |-> SetSupertype("EntityType")],
          [getInstances |-> "Entity", getSubtypes |-> "EntityType"])

RelationTypeMethods ==
    LET Does(name, overloads) == Execute("RelationType", name, overloads, "void")
    IN  [create       |-> Execute("RelationType", "create", {<<>>}, "Relation"),
         setSupertype |-> SetSupertype("RelationType"),
         getRelates   |->
             Stream("RelationType", "getRelates", {<<>>, <<"name">>}, "RoleType"),
         setRelates   |-> Does("setRelates", {<<"name">>, <<"name", "name">>}),
         unsetRelates |-> Does("unsetRelates", {<<"name">>})]
RelationTypeClass ==
    Class(RelationTypeMethods, [getInstances |-> "Relation", getSubtypes |-> "RelationType"])

\* getRelationType() and the first half of isDeleted() ask for the type the
\* label is scoped by.
RoleTypeClass ==
    LET AsksForScope ==
            [ConceptManagerMethods.getRelationType EXCEPT !.overloads = {<<>>}]
    IN  Class([getRelationType  |-> AsksForScope,
               getRelationTypes |->
                   Stream("RoleType", "getRelationTypes", {<<>>}, "RelationType"),
               getPlayers       |-> Stream("RoleType", "getPlayers", {<<>>}, "ThingType"),
               isDeleted        |-> AsksForScope],
              [getSubtypes |-> "RoleType", getSupertype |-> "RoleType",
               getSupertypes |-> "RoleType"])

\* getSubtypes() of an AttributeType calls super.getSupertypes().
AttributeTypeClass ==
    Class([setSupertype |-> SetSupertype("AttributeType"),
           getSubtypes  |-> Stream("Type", "getSupertypes", {<<>>}, "Type"),
           getOwners    |->
               Stream("AttributeType", "getOwners", {<<>>, <<"boolean">>}, "ThingType")],
          [getInstances |-> "Attribute", getSubtypes |-> "AttributeType"])

\* What each class of attribute types with a value adds; put() and get()
\* convert with AttributeImpl.of.
ValueTypeMethods ==
    [get |-> Execute("AttributeType", "get", {<<"value">>}, "Attribute"),
     put |-> Execute("AttributeType", "put", {<<"value">>}, "Attribute")]
ValueTypeClass(class, attribute, methods) ==
    Class(methods, [get |-> attribute, put |-> attribute, getInstances |-> attribute,
                    getSubtypes |-> class])

BooleanTypeClass ==
    ValueTypeClass("AttributeType.Boolean", "Attribute.Boolean", ValueTypeMethods)
LongTypeClass == ValueTypeClass("AttributeType.Long", "Attribute.Long", ValueTypeMethods)
DoubleTypeClass ==
    ValueTypeClass("AttributeType.Double", "Attribute.Double", ValueTypeMethods)
StringTypeClass ==
    ValueTypeClass("AttributeType.String", "Attribute.String",
        [getRegex |-> Execute("AttributeType", "getRegex", {<<>>}, "string"),
         setRegex |-> Execute("AttributeType", "setRegex", {<<"name">>}, "void")]
        @@ ValueTypeMethods)
DateTimeTypeClass ==
    ValueTypeClass("AttributeType.DateTime", "Attribute.DateTime", ValueTypeMethods)

\* isDeleted() asks for the thing of that iid.
ThingClass ==
    LET Does(name, overloads) == Execute("Thing", name, overloads, "void")
        Gets(name, overloads, of) == Stream("Thing", name, overloads, of)
    IN  Class([delete       |-> Does("delete", {<<>>}),
               getHas       |-> Gets("getHas", {<<>>, <<"boolean">>, <<"AttributeType">>,
                                                <<"AttributeType[]">>}, "Attribute"),
               getPlaying   |-> Gets("getPlaying", {<<>>}, "RoleType"),
               getRelations |-> Gets("getRelations", {<<>>, <<"RoleType[]">>}, "Relation"),
               setHas       |-> Does("setHas", {<<"Attribute">>}),
               unsetHas     |-> Does("unsetHas", {<<"Attribute">>}),
               isDeleted    |-> [ConceptManagerMethods.getThing EXCEPT !.overloads = {<<>>}]],
              <<>>)

EntityClass == Class(<<>>, <<>>)

RelationClass ==
    LET Does(name, overloads) == Execute("Relation", name, overloads, "void")
        Gets(name, overloads, of) == Stream("Relation", name, overloads, of)
    IN  Class([addPlayer    |-> Does("addPlayer", {<<"RoleType", "Thing">>}),
               removePlayer |-> Does("removePlayer", {<<"RoleType", "Thing">>}),
               getPlayers   |-> Gets("getPlayers", {<<>>, <<"RoleType[]">>}, "Thing"),
               getPlayersByRoleType |-> Gets("getPlayersByRoleType", {<<>>}, "RolePlayers"),
               getRelating  |-> Gets("getRelating", {<<>>}, "RoleType")],
              <<>>)

AttributeClass ==
    Class([getOwners |-> Stream("Attribute", "getOwners", {<<>>, <<"ThingType">>}, "Thing")],
          <<>>)
BooleanClass == Class(<<>>, <<>>)
LongClass == Class(<<>>, <<>>)
DoubleClass == Class(<<>>, <<>>)
StringClass == Class(<<>>, <<>>)
DateTimeClass == Class(<<>>, <<>>)

RuleClass ==
    Class([delete    |-> Execute("Rule", "delete", {<<>>}, "void"),
           setLabel  |-> Execute("Rule", "setLabel", {<<"name">>}, "void"),
           isDeleted |-> [LogicManagerMethods.getRule EXCEPT !.overloads = {<<>>}]],
          <<>>)

Classes ==
    "Type" :> TypeClass @@ "RoleType" :> RoleTypeClass
    @@ "ThingType" :> ThingTypeClass @@ "EntityType" :> EntityTypeClass
    @@ "RelationType" :> RelationTypeClass @@ "AttributeType" :> AttributeTypeClass
    @@ "AttributeType.Boolean" :> BooleanTypeClass @@ "AttributeType.Long" :> LongTypeClass
    @@ "AttributeType.Double" :> DoubleTypeClass @@ "AttributeType.String" :> StringTypeClass
    @@ "AttributeType.DateTime" :> DateTimeTypeClass
    @@ "Thing" :> ThingClass @@ "Entity" :> EntityClass @@ "Relation" :> RelationClass
    @@ "Attribute" :> AttributeClass @@ "Attribute.Boolean" :> BooleanClass
    @@ "Attribute.Long" :> LongClass @@ "Attribute.Double" :> DoubleClass
    @@ "Attribute.String" :> StringClass @@ "Attribute.DateTime" :> DateTimeClass
    @@ "Rule" :> RuleClass

Below(superclass, classes) == [class \in classes |-> superclass]
Superclass ==
    Below("Concept", {"Type", "Thing", "Rule"})
    @@ Below("Type", {"RoleType", "ThingType"})
    @@ Below("ThingType", {"EntityType", "RelationType", "AttributeType"})
    @@ Below("AttributeType",
             {"AttributeType.Boolean", "AttributeType.Long", "AttributeType.Double",
              "AttributeType.String", "AttributeType.DateTime"})
    @@ Below("Thing", {"Entity", "Relation", "Attribute"})
    @@ Below("Attribute", {"Attribute.Boolean", "Attribute.Long", "Attribute.Double",
                           "Attribute.String", "Attribute.DateTime"})

\* A class and those above it.  The is-methods answer whether a class is below
\* another, except isRemote(), which no concept overrides.
Lineage[class \in DOMAIN Superclass \cup {"Concept"}] ==
    IF class = "Concept" THEN {class} ELSE {class} \cup Lineage[Superclass[class]]

\* All the methods of a class.
Methods[class \in DOMAIN Superclass \cup {"Concept"}] ==
    IF class = "Concept" THEN <<>>
    ELSE LET methods == Classes[class].methods @@ Methods[Superclass[class]]
             narrows == Classes[class].narrows
         IN  [name \in DOMAIN methods |->
                 IF name \in DOMAIN narrows THEN Declaring(methods[name], narrows[name])
                 ELSE methods[name]]

Is(concept, class) == class \in Lineage[concept.class]

Error(code) == [class |-> "Error", code |-> code]
Throws(value) == value # Null /\ value.class = "Error"

\* The errors there are.
ErrorCodes ==
    {"BAD_ANSWER", "BAD_ANSWER_TYPE", "BAD_ENCODING", "BAD_VALUE_TYPE", "TypeError",
     "INVALID_CONCEPT_CASTING", "NONEXISTENT_EXPLAINABLE"}
ASSUME NullIsNoError == Null \notin {Error(code) : code \in ErrorCodes}

(***************************************************************************)
(* Types, and what the server sends for one: its label and scope, its      *)
(* encoding, the type of its values and whether it is a root.              *)
(***************************************************************************)
NewType(class, label, root) ==
    [class |-> class, remote |-> FALSE, label |-> label, root |-> root]

EntityTypeOf(proto) == NewType("EntityType", Label(Null, proto.label), proto.root)
RelationTypeOf(proto) == NewType("RelationType", Label(Null, proto.label), proto.root)
RoleTypeOf(proto) ==
    IF proto = Null THEN Null
    ELSE NewType("RoleType", Label(proto.scope, proto.label), proto.root)

AttributeTypeClassOf ==
    [OBJECT |-> "AttributeType", BOOLEAN |-> "AttributeType.Boolean",
     LONG |-> "AttributeType.Long", DOUBLE |-> "AttributeType.Double",
     STRING |-> "AttributeType.String", DATETIME |-> "AttributeType.DateTime"]

AttributeTypeOf(proto) ==
    IF proto.valueType \in ValueTypes
    THEN NewType(AttributeTypeClassOf[proto.valueType], Label(Null, proto.label), proto.root)
    ELSE Error("BAD_VALUE_TYPE")

ThingTypeOf(proto) ==
    IF proto = Null THEN Null
    ELSE CASE proto.encoding = "ENTITY_TYPE" -> EntityTypeOf(proto)
           [] proto.encoding = "RELATION_TYPE" -> RelationTypeOf(proto)
           [] proto.encoding = "ATTRIBUTE_TYPE" -> AttributeTypeOf(proto)
           [] proto.encoding = "THING_TYPE" ->
                  NewType("ThingType", Label(Null, proto.label), proto.root)
           [] OTHER -> Error("BAD_ENCODING")

\* The one conversion that does not expect an answer without a type.
TypeOf(proto) ==
    CASE proto = Null -> Error("TypeError")
      [] proto # Null /\ proto.encoding = "ROLE_TYPE" -> RoleTypeOf(proto)
      [] OTHER -> ThingTypeOf(proto)

(***************************************************************************)
(* Things, and what the server sends for one: its iid and its type.        *)
(***************************************************************************)
NewThing(class, iid, type) == [class |-> class, remote |-> FALSE, iid |-> iid, type |-> type]

EntityOf(proto) ==
    IF proto = Null THEN Null ELSE NewThing("Entity", proto.iid, EntityTypeOf(proto.type))
RelationOf(proto) ==
    IF proto = Null THEN Null
    ELSE NewThing("Relation", proto.iid, RelationTypeOf(proto.type))

\* The root attribute type, whose values are objects, has no attributes.
AttributeClassOf ==
    [BOOLEAN |-> "Attribute.Boolean", LONG |-> "Attribute.Long",
     DOUBLE |-> "Attribute.Double", STRING |-> "Attribute.String",
     DATETIME |-> "Attribute.DateTime"]
AttributeOf(proto) ==
    CASE proto = Null -> Null
      [] proto # Null /\ proto.type.valueType \in DOMAIN AttributeClassOf ->
             NewThing(AttributeClassOf[proto.type.valueType], proto.iid,
                      AttributeTypeOf(proto.type))
      [] OTHER -> Error("BAD_VALUE_TYPE")

ThingOf(proto) ==
    CASE proto.type.encoding = "ENTITY_TYPE" -> EntityOf(proto)
      [] proto.type.encoding = "RELATION_TYPE" -> RelationOf(proto)
      [] proto.type.encoding = "ATTRIBUTE_TYPE" -> AttributeOf(proto)
      [] OTHER -> Error("BAD_ENCODING")

RuleOf(proto) == [class |-> "Rule", remote |-> FALSE, label |-> proto.label]

\* The conversion a method names.
Convert(of, proto) ==
    CASE of = "Type" -> TypeOf(proto)
      [] of = "ThingType" -> ThingTypeOf(proto)
      [] of = "EntityType" -> EntityTypeOf(proto)
      [] of = "RelationType" -> RelationTypeOf(proto)
      [] of = "AttributeType" -> AttributeTypeOf(proto)
      [] of = "RoleType" -> RoleTypeOf(proto)
      [] of = "Thing" -> ThingOf(proto)
      [] of = "Entity" -> EntityOf(proto)
      [] of = "Relation" -> RelationOf(proto)
      [] of = "Attribute" -> AttributeOf(proto)
      [] of = "Rule" -> RuleOf(proto)
      [] of \in {"void", "boolean", "string"} -> Null

\* Mutant of OfClass: any type will do.
OfClassUnchecked(concept, class) == concept

\* The managers return null for an answer without a type, thing or rule, and
\* for a type that is not of the class asked for.
OfClass(concept, class) ==
    IF concept # Null /\ Is(concept, class) THEN concept ELSE Null

(***************************************************************************)
(* Conversions between the classes, and what of a concept goes into the    *)
(* requests it is an argument of.                                          *)
(***************************************************************************)
AsRemote(concept) == [concept EXCEPT !.remote = TRUE]

\* A root attribute type is of every value type as well, as a new object of
\* that class.
IsOfValueType(concept, class) ==
    /\ Is(concept, "AttributeType") /\ concept.root
    /\ class \in DOMAIN Superclass /\ Superclass[class] = "AttributeType"

\* A concept is itself as a class above its own.
As(concept, class) ==
    CASE Is(concept, class) -> concept
      [] ~Is(concept, class) /\ IsOfValueType(concept, class) ->
             [concept EXCEPT !.class = class]
      [] OTHER -> Error("INVALID_CONCEPT_CASTING")

Encoding(type) ==
    CASE Is(type, "EntityType") -> "ENTITY_TYPE"
      [] Is(type, "RelationType") -> "RELATION_TYPE"
      [] Is(type, "AttributeType") -> "ATTRIBUTE_TYPE"
      [] Is(type, "RoleType") -> "ROLE_TYPE"
      [] OTHER -> "THING_TYPE"

\* A thing type has no scope to be set.
ThingTypeProto(type) ==
    [label |-> type.label.name, scope |-> Null, encoding |-> Encoding(type)]
\* Mutant of RoleTypeProto: the scope is left out.
RoleTypeProtoUnscoped(type) ==
    [label |-> type.label.name, scope |-> Null, encoding |-> Encoding(type)]
RoleTypeProto(type) ==
    [label |-> type.label.name, scope |-> type.label.scope, encoding |-> Encoding(type)]
ThingProto(thing) == [iid |-> thing.iid]

Proto(concept) ==
    CASE Is(concept, "RoleType") -> RoleTypeProto(concept)
      [] Is(concept, "ThingType") -> ThingTypeProto(concept)
      [] Is(concept, "Thing") -> ThingProto(concept)
=============================================================================
