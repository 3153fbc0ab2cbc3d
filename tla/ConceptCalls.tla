---------------------------- MODULE ConceptCalls -----------------------------
(***************************************************************************)
(* Calls on remote concepts of one open transaction, several of them at    *)
(* once.  A concept names its type by a label it keeps: setLabel() changes *)
(* the label on the server first and in the concept only when its await is *)
(* over, and nobody tells the other concepts of that type.  A call sends   *)
(* its request when it is made (BidirectionalStream keeps their order) and *)
(* converts the answer when it is resumed.                                 *)
(*                                                                         *)
(* The server is external: it resolves the labels and iids of a request,   *)
(* renames, deletes, answers with whatever of the right sort it holds, or  *)
(* refuses.  An error ends the transaction and every call still waiting.   *)
(*                                                                         *)
(* All arguments are strings: names, "true" and "false", value types, or   *)
(* the handle of a concept.  Lists of concepts have one element.           *)
(***************************************************************************)
EXTENDS ConceptClasses, SequencesExt

CONSTANTS
    Handle,        \* the variables of the program that hold a remote concept
    Schema,        \* type -> [encoding, valueType, super, scope, root, name]
    Instance,      \* thing -> its type
    Rule,          \* rule -> its label
    Assignments,   \* what each handle may hold at the start: type, thing or rule
    Names,         \* names that setLabel() may give
    MaxRenames,    \* bound: handle -> the calls of setLabel() through it
    MaxInFlight,   \* bound on the calls under way at once
    Racing         \* bound: of the other methods, one at a time is under way

TypeIds == DOMAIN Schema
ThingIds == DOMAIN Instance
RuleIds == DOMAIN Rule

VARIABLES
    names,     \* server: type or rule -> its name, Null once it is deleted
    alive,     \* server: the things there are
    open,      \* the transaction is open
    concepts,  \* handle -> the remote concept it holds
    calls,     \* the calls under way, in the order of their last request
    meant,     \* history: handle -> the type, thing or rule it was obtained for
    renamers,  \* history: type or rule -> the handles it was renamed through
    renames    \* history: handle -> the calls of setLabel() through it

vars == <<names, alive, open, concepts, calls, meant, renamers, renames>>

(***************************************************************************)
(* The server.                                                             *)
(***************************************************************************)
ScopeName(t) == IF Schema[t].scope = Null THEN Null ELSE names[Schema[t].scope]

TypeProto(t) ==
    [label |-> names[t], scope |-> ScopeName(t), encoding |-> Schema[t].encoding,
     valueType |-> Schema[t].valueType, root |-> Schema[t].root]
ProtoOfThing(i) == [iid |-> i, type |-> TypeProto(Instance[i])]
RuleProto(r) == [label |-> names[r]]

Existing == {t \in TypeIds : names[t] # Null}
OrNull(candidates) ==
    IF candidates = {} THEN Null ELSE CHOOSE x \in candidates : TRUE

\* The type, thing or rule that a part of a request names, or Null.
TypeNamed(scope, label) ==
    OrNull({t \in Existing : names[t] = label /\ ScopeName(t) = scope})
RuleNamed(label) == OrNull({r \in RuleIds : label # Null /\ names[r] = label})
ThingNamed(iid) == OrNull({iid} \cap alive)
Subject(on) ==
    CASE on.kind = "type" -> TypeNamed(on.scope, on.label)
      [] on.kind = "thing" -> ThingNamed(on.iid)
      [] on.kind = "rule" -> RuleNamed(on.label)

Above[t \in TypeIds] ==
    {t} \cup IF Schema[t].super = Null THEN {} ELSE Above[Schema[t].super]
TypesBelow(t) == {u \in Existing : t \in Above[u]}
OfEncoding(encoding) == {t \in Existing : Schema[t].encoding = encoding}
ThingsOf(encoding) == {i \in alive : Schema[Instance[i]].encoding = encoding}
AsTypes(types) == {TypeProto(t) : t \in types}
AsThings(things) == {ProtoOfThing(i) : i \in things}

\* What the server may answer to a message about x.
Answers(message, x, fields) ==
    CASE message = "getSupertypes" -> {AsTypes(Above[x])}
      [] message = "getSubtypes" -> {AsTypes(TypesBelow(x))}
      [] message = "getSupertype" ->
             {IF Schema[x].super = Null THEN Null ELSE TypeProto(Schema[x].super)}
      [] message = "getThingType" ->
             LET t == TypeNamed(Null, fields.label)
             IN  {IF t = Null THEN Null ELSE TypeProto(t)}
      [] message = "getRelatesForRoleLabel" ->
             LET r == TypeNamed(names[x], fields.label)
             IN  {IF r = Null THEN Null ELSE TypeProto(r)}
      [] message \in {"putEntityType", "putRelationType", "putAttributeType"} ->
             {TypeProto(t) : t \in {u \in Existing : names[u] = fields.label
                  /\ Schema[u].encoding = CASE message = "putEntityType" -> "ENTITY_TYPE"
                                            [] message = "putRelationType" -> "RELATION_TYPE"
                                            [] message = "putAttributeType" -> "ATTRIBUTE_TYPE"}}
      [] message \in {"getPlays", "getRelates", "getPlaying", "getRelating"} ->
             {AsTypes(OfEncoding("ROLE_TYPE"))}
      [] message = "getOwns" -> {AsTypes(OfEncoding("ATTRIBUTE_TYPE"))}
      [] message = "getRelationTypes" -> {AsTypes(OfEncoding("RELATION_TYPE"))}
      [] message = "getThing" ->
             {IF fields.iid \in alive THEN ProtoOfThing(fields.iid) ELSE Null}
      [] message = "getInstances" -> {AsThings({i \in alive : Instance[i] \in TypesBelow(x)})}
      [] message \in {"create", "put"} -> AsThings({i \in alive : Instance[i] = x})
      [] message = "get" -> AsThings({i \in alive : Instance[i] = x}) \cup {Null}
      [] message = "getHas" -> {AsThings(ThingsOf("ATTRIBUTE_TYPE"))}
      [] message = "getRelations" -> {AsThings(ThingsOf("RELATION_TYPE"))}
      [] message = "getOwners" /\ x \in ThingIds -> {AsThings(alive)}
      [] message \in {"getOwners", "getPlayers"} /\ x \in TypeIds ->
             {AsTypes(Existing \ OfEncoding("ROLE_TYPE"))}
      [] message = "getPlayers" /\ x \in ThingIds -> {AsThings(alive)}
      [] message = "getPlayersByRoleType" ->
             SetToSeqs({[role |-> TypeProto(r), player |-> ProtoOfThing(i)] :
                            r \in OfEncoding("ROLE_TYPE"), i \in ThingsOf("ENTITY_TYPE")})
      [] message = "getRule" ->
             LET r == RuleNamed(fields.label)
             IN  {IF r = Null THEN Null ELSE RuleProto(r)}
      [] message = "putRule" ->
             {RuleProto(r) : r \in {s \in RuleIds : names[s] = fields.label}}
      [] message = "getRules" -> {{RuleProto(r) : r \in {s \in RuleIds : names[s] # Null}}}
      [] OTHER -> {Null}

(***************************************************************************)
(* The request of a method, by the arguments it was given: optional ones   *)
(* left out get their defaults, "false" or the empty list.                 *)
(***************************************************************************)
Truthy(value) == value # "false"

GetOwns(args) ==
    CASE args = <<>> \/ (args # <<>> /\ ~Truthy(args[1])) -> <<"getOwns", <<"false">>>>
      [] args = <<"true">> -> <<"getOwns", args>>
      [] Len(args) = 1 /\ args[1] \in ValueTypes -> <<"getOwnsByType", <<args[1], "false">>>>
      [] OTHER -> <<"getOwnsByType", args>>

SetOwns(overload, args) ==
    CASE Len(args) = 1 -> <<"setOwns", Append(args, "false")>>
      [] overload = <<"AttributeType", "boolean">> -> <<"setOwns", args>>
      [] overload = <<"AttributeType", "AttributeType">> ->
             <<"setOwnsOverridden", Append(args, "false")>>
      [] OTHER -> <<"setOwnsOverridden", args>>

SetPlays(args) == <<IF Len(args) = 1 THEN "setPlays" ELSE "setPlaysOverridden", args>>
GetRelates(args) == <<IF args = <<>> THEN "getRelates" ELSE "getRelatesByRole", args>>
SetRelates(args) == <<IF Len(args) = 1 THEN "setRelates" ELSE "setRelatesOverridden", args>>

GetHas(overload, args) ==
    CASE args = <<>> -> <<"getHas", <<"false">>>>
      [] overload = <<"boolean">> -> <<"getHas", args>>
      [] OTHER -> <<"getHasByType", args>>

\* Owners of an attribute type, optionally those that have it as a key.
GetOwners(args) == <<"getOwners", IF args = <<>> THEN <<"false">> ELSE args>>
\* Owners of an attribute, optionally those of a type.
GetOwnersOf(args) == <<IF args = <<>> THEN "getOwners" ELSE "getOwnersByType", args>>
OrNone(name, args) == <<name, IF args = <<>> THEN <<Null>> ELSE args>>

BuilderOf(method, overload, args) ==
    LET name == method.builder[2]
    IN  CASE name = "getOwns" -> GetOwns(args)
          [] name = "setOwns" -> SetOwns(overload, args)
          [] name = "setPlays" -> SetPlays(args)
          [] name = "getRelates" -> GetRelates(args)
          [] name = "setRelates" -> SetRelates(args)
          [] name = "getHas" -> GetHas(overload, args)
          [] method.builder = <<"AttributeType", "getOwners">> -> GetOwners(args)
          [] method.builder = <<"Attribute", "getOwners">> -> GetOwnersOf(args)
          [] method.builder = <<"Relation", "getPlayers">>
             \/ name = "getRelations" -> OrNone(name, args)
          [] OTHER -> <<name, args>>

\* Calls that ask a manager name the concept themselves.
Asked(method, name, concept, args) ==
    CASE concept = Null -> args
      [] method.builder[2] = "getThingType" /\ Is(concept, "ThingType") ->
             <<concept.label.name>>
      [] method.builder[2] = "getThingType" /\ Is(concept, "RoleType") ->
             <<concept.label.scope>>
      [] method.builder[2] = "getThing" -> <<concept.iid>>
      [] method.builder[2] = "getRule" -> <<concept.label>>
      [] OTHER -> args

On(builder, concept) ==
    CASE builder[1] \in {"ConceptManager", "LogicManager"} -> OnManager
      [] builder[1] = "Rule" -> OnRule(concept.label)
      [] builder[1] \in {"Thing", "Relation", "Attribute"} -> OnThing(concept.iid)
      [] OTHER -> OnType(concept.label)

\* What of an argument goes into the request.
Field(arg) == IF arg \in Handle THEN Proto(concepts[arg]) ELSE arg
Fields(args) == [i \in DOMAIN args |-> Field(args[i])]

Request(method, name, concept, overload, args) ==
    LET chosen == BuilderOf(method, overload, Asked(method, name, concept, args))
        builder == <<method.builder[1], chosen[1]>>
    IN  Build(builder, On(builder, concept), Fields(chosen[2]))

(***************************************************************************)
(* Calls under way.  "caller" is the handle or the manager; "raced" says   *)
(* that a setLabel() of one of its handles was under way when it was made. *)
(***************************************************************************)
Managers == [ConceptManager |-> ConceptManagerMethods, LogicManager |-> LogicManagerMethods]
MethodsOf(caller) ==
    IF caller \in Handle THEN Methods[concepts[caller].class] ELSE Managers[caller]
ConceptOf(caller) == IF caller \in Handle THEN concepts[caller] ELSE Null

\* setLabel() of a type or of a rule, and no other method, asks for a new label,
\* and none of a manager's asks to delete, whichever of its builders it takes.
BuildersOf(builder) ==
    LET name == builder[2]
    IN  {name} \cup CASE name = "getOwns" -> {"getOwnsByType"}
                      [] name = "setOwns" -> {"setOwnsOverridden"}
                      [] name = "setPlays" -> {"setPlaysOverridden"}
                      [] name = "setRelates" -> {"setRelatesOverridden"}
                      [] name = "getRelates" -> {"getRelatesByRole"}
                      [] name = "getHas" -> {"getHasByType"}
                      [] builder = <<"Attribute", "getOwners">> -> {"getOwnersByType"}
                      [] OTHER -> {}
SetLabelAlone(methods, class) ==
    \A name \in DOMAIN methods :
        LET method == methods[name]
        IN  IF name = "setLabel"
            THEN /\ method.overloads = {<<"name">>}
                 /\ method.builder = <<IF class = "Rule" THEN "Rule" ELSE "Type", "setLabel">>
            ELSE \A b \in BuildersOf(method.builder) :
                    LET message == Builders[method.builder[1]][b].message
                    IN  /\ message # "setLabel"
                        /\ message = "delete" => method.builder[1] \notin DOMAIN Managers

\* A parameter that takes a concept, or a list of concepts, has a field of its
\* own for it in the request, whichever builder the overload takes.
ConceptParameters ==
    {"AttributeType", "RoleType", "ThingType", "EntityType", "RelationType", "Thing",
     "Attribute", "AttributeType[]", "RoleType[]"}
ValueParameters == {"boolean", "ValueType", "name", "iid", "value"}
InPlace(method) ==
    \A overload \in method.overloads :
        /\ overload \in Seq(ConceptParameters \cup ValueParameters) /\ Len(overload) \in 0..3
        /\ \A j \in DOMAIN overload :
              overload[j] \in ConceptParameters =>
                 LET builder == BuilderOf(method, overload, overload)[1]
                     fields == Builders[method.builder[1]][builder].fields
                 IN  /\ method.builder[2] \notin {"getOwns", "getThingType", "getThing", "getRule"}
                     /\ j \in DOMAIN fields /\ fields[j] \in ConceptFields
                     /\ \A k \in DOMAIN fields : fields[k] = fields[j] => k = j

\* A method asks about what its class is a class of, and isDeleted() asks the
\* manager in charge.
OfItsKind(class) ==
    LET above == Lineage[class]
        Kind == IF "Rule" \in above THEN {"Rule"}
                ELSE IF "Thing" \in above THEN {"Thing", "Relation", "Attribute"}
                ELSE DOMAIN Builders \ {"Rule", "Thing", "Relation", "Attribute"}
        Asks == IF "Rule" \in above THEN LogicManagerMethods.getRule
                ELSE IF "Thing" \in above THEN ConceptManagerMethods.getThing
                ELSE IF "RoleType" \in above THEN ConceptManagerMethods.getRelationType
                ELSE ConceptManagerMethods.getThingType
    IN  /\ \A name \in DOMAIN Methods[class] :
              /\ Methods[class][name].builder[1] \in Kind \cup DOMAIN Managers
              /\ name = "isDeleted" => Methods[class][name] = [Asks EXCEPT !.overloads = {<<>>}]
        /\ "Rule" \in above <=> class = "Rule"
        /\ above \cap ConceptParameters # {} =>
              \E kind \in {"Thing", "RoleType", "ThingType"} :
                 above \cap {"Rule", "Thing", "RoleType", "ThingType"} = {kind}

ASSUME MethodAssumption ==
    /\ DOMAIN Methods = DOMAIN Superclass \cup {"Concept"}
    /\ \A class \in DOMAIN Methods : SetLabelAlone(Methods[class], class)
    /\ \A manager \in DOMAIN Managers :
          SetLabelAlone(Managers[manager], manager) /\ "setLabel" \notin DOMAIN Managers[manager]
    /\ {"Rule", "RoleType", "ThingType", "EntityType", "RelationType", "Entity", "Relation"}
          \cup {AttributeTypeClassOf[v] : v \in ValueTypes}
          \cup {AttributeClassOf[v] : v \in DOMAIN AttributeClassOf} \subseteq DOMAIN Superclass
    /\ "AttributeType" \notin Lineage["Rule"] \cup {Superclass["Rule"]}
ASSUME ParameterAssumption ==
    /\ \A class \in DOMAIN Methods : \A name \in DOMAIN Methods[class] :
          InPlace(Methods[class][name])
    /\ \A manager \in DOMAIN Managers : \A name \in DOMAIN Managers[manager] :
          InPlace(Managers[manager][name])
ASSUME KindAssumption ==
    /\ \A class \in DOMAIN Methods : OfItsKind(class)
    /\ "RoleType" \in Lineage["RoleType"] /\ "RelationType" \in Lineage["RelationType"]
    /\ \A class \in {"ThingType", "EntityType", "RelationType"}
                     \cup {AttributeTypeClassOf[v] : v \in ValueTypes} :
          {"ThingType", "Type"} \subseteq Lineage[class]
    /\ \A class \in {"Entity", "Relation"}
                     \cup {AttributeClassOf[v] : v \in DOMAIN AttributeClassOf} :
          "Thing" \in Lineage[class]
    /\ \A class \in DOMAIN Superclass :
          "AttributeType" \in Lineage[class] \cup {Superclass[class]} => "ThingType" \in Lineage[class]

HandlesOf(caller, args) == ({caller} \cup ToSet(args)) \cap Handle
Renaming(h) ==
    \E i \in DOMAIN calls : calls[i].caller = h /\ calls[i].name = "setLabel"

\* getHas() of one attribute type finds out that it has no values only after
\* its request has left.
ThrowsLate(name, overload, args) ==
    name = "getHas" /\ overload = <<"AttributeType">> /\ concepts[args[1]].class = "AttributeType"

Sent(caller, name, overload, args, request) ==
    [caller |-> caller, name |-> name, args |-> args, request |-> request,
     thrown |-> ThrowsLate(name, overload, args),
     raced |-> \E h \in HandlesOf(caller, args) : Renaming(h),
     stage |-> "sent", answer |-> Null, stale |-> FALSE, existed |-> TRUE]

\* The arguments there are for a parameter.
Values(parameter) ==
    CASE parameter = "boolean" -> {"true", "false"}
      [] parameter = "ValueType" -> {"STRING"}
      [] parameter = "name" -> Names
      [] parameter = "iid" -> ThingIds
      [] parameter = "value" -> {"value"}
      [] parameter \in {"AttributeType[]", "RoleType[]"} ->
             {h \in Handle : Is(concepts[h], IF parameter = "RoleType[]" THEN "RoleType"
                                                               ELSE "AttributeType")}
      [] OTHER -> {h \in Handle : Is(concepts[h], parameter)}

Arguments(overload) ==
    CASE Len(overload) = 0 -> {<<>>}
      [] Len(overload) = 1 -> {<<x>> : x \in Values(overload[1])}
      [] Len(overload) = 2 -> Values(overload[1]) \X Values(overload[2])
      [] Len(overload) = 3 -> Values(overload[1]) \X Values(overload[2]) \X Values(overload[3])

\* Types, things and rules are different; types of roles have a scope, the others
\* have none, and things are instances of the others.  No two types of a scope
\* and no two rules have the same name, and a handle is no value.  What the server
\* sends, what it is sent and what is made of it are never null.
Encodings == {"THING_TYPE", "ENTITY_TYPE", "RELATION_TYPE", "ATTRIBUTE_TYPE", "ROLE_TYPE"}
Labels ==
    Names \cup {Schema[t].name : t \in TypeIds} \cup {Rule[r] : r \in RuleIds}
LabelsOrNull == Labels \cup {Null}
Roots == {Schema[t].root : t \in TypeIds}
Protos ==
    [label : LabelsOrNull, scope : LabelsOrNull, encoding : Encodings,
     valueType : ValueTypes, root : Roots]
Types ==
    [class : DOMAIN Superclass, remote : BOOLEAN, root : Roots,
     label : [scope : LabelsOrNull, name : LabelsOrNull]]
Things == [class : DOMAIN Superclass, remote : BOOLEAN, iid : ThingIds, type : Types]
Rules == [class : DOMAIN Superclass, remote : BOOLEAN, label : Labels]
ASSUME SchemaAssumption ==
    /\ TypeIds \cap ThingIds = {} /\ TypeIds \cap RuleIds = {} /\ ThingIds \cap RuleIds = {}
    /\ Null \notin TypeIds \cup ThingIds \cup RuleIds
    /\ \A t \in TypeIds :
          /\ Schema[t].scope \in TypeIds \cup {Null}
          /\ Schema[t].encoding \in Encodings
          /\ Schema[t].scope # Null <=> Schema[t].encoding = "ROLE_TYPE"
          /\ Schema[t].scope # Null => Schema[Schema[t].scope].encoding = "RELATION_TYPE"
          /\ Schema[t].valueType \in ValueTypes
    /\ \A i \in ThingIds :
          /\ Instance[i] \in TypeIds
          /\ \/ Schema[Instance[i]].encoding \in {"ENTITY_TYPE", "RELATION_TYPE"}
             \/ /\ Schema[Instance[i]].encoding = "ATTRIBUTE_TYPE"
                /\ Schema[Instance[i]].valueType \in DOMAIN AttributeClassOf
    /\ \A t, u \in TypeIds :
          Schema[t].name = Schema[u].name /\ Schema[t].scope = Schema[u].scope => t = u
    /\ \A r, s \in RuleIds : Rule[r] = Rule[s] => r = s
    /\ Null \notin Labels
    /\ Null \notin Protos \cup [iid : ThingIds, type : Protos] \cup [label : LabelsOrNull]
    /\ Null \notin [label : Labels, scope : LabelsOrNull, encoding : Encodings]
                     \cup [iid : ThingIds]
    /\ Null \notin Types \cup Things \cup Rules
    /\ Handle \cap (Labels \cup ThingIds \cup ValueTypes \cup {"true", "false", "value", Null}) = {}
    /\ Assignments \subseteq [Handle -> TypeIds \cup ThingIds \cup RuleIds]

Init ==
    /\ names = [x \in TypeIds \cup RuleIds |->
                   IF x \in RuleIds THEN Rule[x] ELSE Schema[x].name]
    /\ alive = ThingIds
    /\ open = TRUE
    /\ meant \in Assignments
    /\ concepts = [h \in Handle |-> AsRemote(
           CASE meant[h] \in RuleIds -> RuleOf(RuleProto(meant[h]))
             [] meant[h] \in ThingIds -> ThingOf(ProtoOfThing(meant[h]))
             [] meant[h] \in TypeIds -> TypeOf(TypeProto(meant[h])))]
    /\ calls = <<>>
    /\ renamers = [x \in TypeIds \cup RuleIds |-> {}]
    /\ renames = [h \in Handle |-> 0]

\* A method of a handle's concept, or of a manager.
Call(caller, name) ==
    /\ open /\ Len(calls) < MaxInFlight
    /\ name \notin Racing => \A i \in DOMAIN calls : calls[i].name \in Racing
    /\ name = "setLabel" => renames[caller] < MaxRenames[caller]
    /\ LET method == MethodsOf(caller)[name]
       IN  \E overload \in method.overloads : \E args \in Arguments(overload) :
              calls' = Append(calls, Sent(caller, name, overload, args,
                           Request(method, name, ConceptOf(caller), overload, args)))
    /\ renames' = IF name = "setLabel" THEN [renames EXCEPT ![caller] = @ + 1] ELSE renames
    /\ UNCHANGED <<names, alive, open, concepts, meant, renamers>>

(***************************************************************************)
(* The server, in the order of the requests.                               *)
(***************************************************************************)
First(i) == /\ calls[i].stage = "sent"
            /\ \A j \in 1..(i - 1) : calls[j].stage # "sent"

References(request) ==
    {request.fields[f] : f \in ConceptFields \cap DOMAIN request.fields} \ {Null}
Denotes(reference) ==
    IF "iid" \in DOMAIN reference THEN ThingNamed(reference.iid)
    ELSE TypeNamed(reference.scope, reference.label)
Understood(request) ==
    /\ request.on # OnManager => Subject(request.on) # Null
    /\ \A reference \in References(request) : Denotes(reference) # Null

\* What h's concept is called has changed without h knowing: through another
\* handle, or through the relation type that scopes it.  Or a setLabel() of h,
\* sent while another one of h was under way and so with the label from before
\* that, has renamed what had got this label in the meantime.
ScopeOf(x) == IF x \in TypeIds THEN Schema[x].scope ELSE Null
Exists(x) == IF x \in ThingIds THEN x \in alive ELSE names[x] # Null
LostTrack(h) ==
    /\ meant[h] \notin ThingIds
    /\ \/ renamers[meant[h]] \ {h} # {}
       \/ ScopeOf(meant[h]) # Null /\ renamers[ScopeOf(meant[h])] # {}
       \/ \E x \in DOMAIN renamers \ {meant[h]} : h \in renamers[x]
StillThere(h) == Exists(meant[h]) /\ ~LostTrack(h)

\* It is gone, and another has got the label that h has for it.
Supplanted(h) ==
    /\ meant[h] \notin ThingIds /\ ~Exists(meant[h])
    /\ Subject(IF meant[h] \in RuleIds THEN OnRule(concepts[h].label)
                                       ELSE OnType(concepts[h].label)) # Null

Answered(i, answer) ==
    LET call == calls[i]
    IN  IF call.thrown THEN RemoveAt(calls, i)
        ELSE [calls EXCEPT ![i] =
                 [@ EXCEPT !.stage = "answered", !.answer = answer,
                           !.stale = call.caller \in Handle
                                     /\ (call.raced \/ LostTrack(call.caller)
                                                    \/ Supplanted(call.caller)),
                           !.existed = call.caller \in Handle => Exists(meant[call.caller])]]

ServeRename(i) ==
    LET call == calls[i]
        x == Subject(call.request.on)
        label == call.request.fields.label
    IN  /\ First(i) /\ Understood(call.request) /\ call.request.message = "setLabel"
        /\ x \in RuleIds => RuleNamed(label) = Null
        /\ x \in TypeIds => TypeNamed(ScopeName(x), label) = Null
        /\ names' = [names EXCEPT ![x] = label]
        /\ renamers' = [renamers EXCEPT ![x] = @ \cup {call.caller}]
        /\ calls' = Answered(i, Null)
        /\ UNCHANGED <<alive, open, concepts, meant, renames>>

ServeDelete(i) ==
    LET call == calls[i]
        x == Subject(call.request.on)
    IN  /\ First(i) /\ Understood(call.request) /\ call.request.message = "delete"
        /\ x \in TypeIds => TypesBelow(x) = {x} /\ \A j \in alive : Instance[j] # x
        /\ names' = [y \in DOMAIN names |->
                        IF y = x \/ ScopeOf(y) = x THEN Null ELSE names[y]]
        /\ alive' = alive \ {x}
        /\ calls' = Answered(i, Null)
        /\ UNCHANGED <<open, concepts, meant, renamers, renames>>

ServeOther(i) ==
    LET call == calls[i]
        x == IF call.request.on = OnManager THEN Null ELSE Subject(call.request.on)
    IN  /\ First(i) /\ Understood(call.request)
        /\ call.request.message \notin {"setLabel", "delete"}
        /\ \E answer \in Answers(call.request.message, x, call.request.fields) :
              calls' = Answered(i, answer)
        /\ UNCHANGED <<names, alive, open, concepts, meant, renamers, renames>>

\* What it does not understand, or does not allow.  This call and those after
\* it wait, and are rejected with the transaction.
Refuse(i) ==
    /\ First(i)
    /\ open' = FALSE
    /\ calls' = SubSeq(calls, 1, i - 1)
    /\ UNCHANGED <<names, alive, concepts, meant, renamers, renames>>

(***************************************************************************)
(* The end of the await.                                                   *)
(***************************************************************************)
\* Players with the same role, in the order they come: <<role, players>>.
RolePlayers(list) ==
    FoldLeft(LAMBDA map, entry :
                 LET role == RoleTypeOf(entry.role)
                     player == ThingOf(entry.player)
                     same == {k \in DOMAIN map :
                                 ScopedName(map[k].role.label) = ScopedName(role.label)}
                 IN  IF same = {} THEN Append(map, [role |-> role, players |-> <<player>>])
                     ELSE [map EXCEPT ![Min(same)].players = Append(@, player)],
             <<>>, list)

MethodOf(call) == MethodsOf(call.caller)[call.name]

ConvertOne(method, proto) ==
    IF method.builder[1] \in {"ConceptManager", "LogicManager"}
    THEN IF proto = Null THEN Null ELSE OfClass(Convert(method.of, proto), method.declares)
    ELSE Convert(method.of, proto)

\* isDeleted() looks whether it has found something; that of a ThingType is
\* true when it has.
IsDeleted(call) ==
    LET found == IF call.request.message = "getRelatesForRoleLabel"
                 THEN RoleTypeOf(call.answer)
                 ELSE ConvertOne(MethodOf(call), call.answer)
    IN  IF Is(concepts[call.caller], "ThingType") THEN found # Null ELSE found = Null

\* getRelates() of a name is no Stream.
ByStream(call) ==
    MethodOf(call).via = "stream" /\ call.request.message # "getRelatesForRoleLabel"

\* What the caller gets: a set of it from a Stream.
Outcome(call) ==
    LET method == MethodOf(call)
    IN  CASE call.name = "isDeleted" -> {IsDeleted(call)}
          [] method.of = "RolePlayers" -> RolePlayers(call.answer)
          [] call.name # "isDeleted" /\ method.of # "RolePlayers" /\ ByStream(call) ->
                 {ConvertOne(method, proto) : proto \in call.answer}
          [] OTHER -> {ConvertOne(method, call.answer)}

\* Mutant of Halfway: the role counts as there if its relation type is.
HalfwayNever(call) == FALSE

\* isDeleted() of a role, halfway: there is such a relation type.
Halfway(call) ==
    /\ call.name = "isDeleted" /\ Is(concepts[call.caller], "RoleType")
    /\ call.request.message = "getThingType"
    /\ ConvertOne(MethodOf(call), call.answer) # Null

\* It asks the relation type for a role of that name, unless the transaction
\* has closed.
ResumeHalfway(i) ==
    LET call == calls[i]
        relation == ConvertOne(MethodOf(call), call.answer)
        request == Request(RelationTypeMethods.getRelates, "getRelates", relation, <<"name">>,
                           <<concepts[call.caller].label.name>>)
    IN  /\ call.stage = "answered" /\ Halfway(call)
        /\ calls' = RemoveAt(calls, i) \o
                       IF open THEN <<[call EXCEPT !.request = request, !.stage = "sent",
                                                   !.answer = Null,
                                                   !.raced = @ \/ Renaming(call.caller)]>>
                               ELSE <<>>
        /\ UNCHANGED <<names, alive, open, concepts, meant, renamers, renames>>

\* Mutant of Relabelled: the scope is left out.
RelabelledUnscoped(concept, label) ==
    IF concept.class = "Rule" THEN [concept EXCEPT !.label = label]
    ELSE [concept EXCEPT !.label = Label(Null, label)]

\* setLabel() gives the concept its new label, in the scope it had.
Relabelled(concept, label) ==
    IF concept.class = "Rule" THEN [concept EXCEPT !.label = label]
    ELSE [concept EXCEPT !.label = Label(concept.label.scope, label)]

Resume(i) ==
    LET call == calls[i]
    IN  /\ call.stage = "answered" /\ ~Halfway(call)
        /\ calls' = RemoveAt(calls, i)
        /\ concepts' = IF call.name # "setLabel" THEN concepts
                       ELSE [concepts EXCEPT ![call.caller] =
                                Relabelled(@, call.request.fields.label)]
        /\ UNCHANGED <<names, alive, open, meant, renamers, renames>>

\* The program goes on with what a cast gives it.
Cast(h, class) ==
    LET cast == As(concepts[h], class)
    IN  /\ ~Throws(cast) /\ cast # concepts[h]
        /\ \A i \in DOMAIN calls : calls[i].caller # h
        /\ concepts' = [concepts EXCEPT ![h] = cast]
        /\ UNCHANGED <<names, alive, open, calls, meant, renamers, renames>>

Next ==
    \/ \E h \in Handle : \E class \in DOMAIN Superclass : Cast(h, class)
    \/ \E caller \in Handle \cup DOMAIN Managers : \E name \in DOMAIN MethodsOf(caller) :
          Call(caller, name)
    \/ \E i \in DOMAIN calls :
          \/ ServeRename(i) \/ ServeDelete(i) \/ ServeOther(i) \/ Refuse(i)
          \/ ResumeHalfway(i) \/ Resume(i)

Spec == Init /\ [][Next]_vars

(***************************************************************************)
(* Properties.                                                             *)
(***************************************************************************)
\* A concept whose type or rule was renamed through it alone, and that has
\* renamed no other, has the name the server knows, except while a setLabel()
\* of it is under way: no order of calls, answers and errors leaves it with
\* another (TypeImpl.ts:148).
LabelFollowsOwnRenames ==
    \A h \in Handle :
        meant[h] \notin ThingIds /\ StillThere(h) /\ ~Renaming(h) =>
            LET label == concepts[h].label
            IN  IF meant[h] \in RuleIds THEN label = names[meant[h]]
                ELSE label = Label(ScopeName(meant[h]), names[meant[h]])

\* The server takes a request to be about what its caller means, and every
\* concept among the arguments for what it is, unless one of them was renamed
\* or deleted without its handle knowing, or was being renamed at the time, or
\* its handle has renamed another by mistake.
ReachesWhatItMeant ==
    \A i \in DOMAIN calls :
        LET call == calls[i]
        IN  /\ First(i) /\ ~call.raced
            /\ \A h \in HandlesOf(call.caller, call.args) : StillThere(h)
            => /\ call.caller \in Handle /\ call.request.on # OnManager
                    /\ call.request.message # "getRelatesForRoleLabel" =>
                        Subject(call.request.on) = meant[call.caller]
               /\ \A h \in ToSet(call.args) \cap Handle :
                        \E reference \in References(call.request) :
                            Denotes(reference) = meant[h]

\* What a caller gets is of the class the method declares, whatever classes
\* the server's answers are of, except from getSubtypes() of attribute types,
\* getInstances() of the root cast to a value type and getSupertype() of a
\* root, which throws.
OfDeclaredClass(call, got) ==
    \/ got = Null /\ ~ByStream(call)
    \/ Throws(got) /\ call.name = "getSupertype"
    \/ got # Null /\ ~Throws(got) /\ Is(got, MethodOf(call).declares)
    \/ call.name = "getSubtypes" /\ Is(concepts[call.caller], "AttributeType")
    \/ call.name = "getInstances" /\ concepts[call.caller].root

\* The players of a relation are all there, each under the role the server
\* gave with it, and no role is there twice.
PlayersUnderTheirRole(list, map) ==
    /\ {<<map[k].role.label, {p.iid : p \in ToSet(map[k].players)}>> : k \in DOMAIN map}
       = {<<Label(e.role.scope, e.role.label),
            {d.player.iid : d \in {d \in ToSet(list) : d.role = e.role}}>> : e \in ToSet(list)}
    /\ \A k, m \in DOMAIN map : k # m => map[k].role # map[m].role

AnswersAreDeclared ==
    \A i \in DOMAIN calls :
        LET call == calls[i]
            declared == MethodOf(call).declares
        IN  call.stage = "answered" =>
              CASE declared = "RolePlayers" -> PlayersUnderTheirRole(call.answer, Outcome(call))
                [] call.name = "isDeleted" \/ call.stale
                   \/ declared \in {"void", "boolean", "string", "Rule"} -> TRUE
                [] OTHER -> \A got \in Outcome(call) : OfDeclaredClass(call, got)

\* isDeleted() of a role, a thing or a rule tells whether the server had it
\* when it looked, unless its label had changed or had been given to another;
\* that of the other types tells the opposite (ThingTypeImpl.ts:201).
DeletedAsAnswered ==
    \A i \in DOMAIN calls :
        LET call == calls[i]
        IN  call.stage = "answered" /\ call.name = "isDeleted" /\ ~Halfway(call)
            /\ ~call.stale =>
                Outcome(call) = {IF Is(concepts[call.caller], "ThingType") THEN call.existed
                                 ELSE ~call.existed}

\* The subtypes of a type are among what getSubtypes() gives, as the test in
\* test/behaviour/concept/type/attributetype/AttributeTypeSteps.ts:63 expects.
SubtypesContained ==
    \A i \in DOMAIN calls :
        LET call == calls[i]
        IN  call.stage = "answered" /\ call.name = "getSubtypes" /\ ~call.stale =>
                \A t \in TypesBelow(meant[call.caller]) :
                    \E got \in Outcome(call) : got.label = Label(ScopeName(t), names[t])
=============================================================================
