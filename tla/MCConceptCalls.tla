--------------------------- MODULE MCConceptCalls ----------------------------
(* A small schema: a person, friendships with the role friend, nicknames. *)
EXTENDS ConceptCalls

CONSTANTS h1, h2

Type(encoding, valueType, super, scope, root, name) ==
    [encoding |-> encoding, valueType |-> valueType, super |-> super, scope |-> scope,
     root |-> root, name |-> name]

MCSchema ==
    "thing" :> Type("THING_TYPE", "OBJECT", Null, Null, TRUE, "thing")
    @@ "attribute" :> Type("ATTRIBUTE_TYPE", "OBJECT", "thing", Null, TRUE, "attribute")
    @@ "nickname" :> Type("ATTRIBUTE_TYPE", "STRING", "attribute", Null, FALSE, "a")
    @@ "person" :> Type("ENTITY_TYPE", "OBJECT", "thing", Null, FALSE, "b")
    @@ "friendship" :> Type("RELATION_TYPE", "OBJECT", "thing", Null, FALSE, "c")
    @@ "friend" :> Type("ROLE_TYPE", "OBJECT", Null, "friendship", FALSE, "d")
    @@ "visit" :> Type("RELATION_TYPE", "OBJECT", "thing", Null, FALSE, "v")
    @@ "visitor" :> Type("ROLE_TYPE", "OBJECT", Null, "visit", FALSE, "d")

MCInstance ==
    "p1" :> "person" @@ "p2" :> "person" @@ "f1" :> "friendship" @@ "n1" :> "nickname"
MCRule == "rule" :> "b" @@ "other" :> "r"
MCNames == {"b", "e", "v"}

\* The second setLabel() of h1 may race with the first, and with that of h2.
MCMaxRenames == h1 :> 2 @@ h2 :> 1
MCNoRenames == h1 :> 0 @@ h2 :> 0

MCAssignments ==
    {h1 :> "friend" @@ h2 :> "friendship", h1 :> "person" @@ h2 :> "person",
     h1 :> "person" @@ h2 :> "nickname", h1 :> "p1" @@ h2 :> "attribute",
     h1 :> "f1" @@ h2 :> "friend", h1 :> "n1" @@ h2 :> "p1",
     h1 :> "rule" @@ h2 :> "rule", h1 :> "rule" @@ h2 :> "other",
     h1 :> "visit" @@ h2 :> "person", h1 :> "n1" @@ h2 :> "thing"}
=============================================================================
