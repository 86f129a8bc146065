------------------------- MODULE MCSchemaValidation -------------------------
(***************************************************************************)
(* Inputs for SchemaValidation.  The schemas have the shapes of those in   *)
(* schemas/*.json: the keywords of a type stand beside it, a reference     *)
(* stands alone, FALSE occurs under additionalProperties only.  Beyond     *)
(* them: a type that is none, an object in an enum, unknown keywords in    *)
(* the list form of items, and exactly one of a type and a reference.      *)
(***************************************************************************)
EXTENDS SchemaValidation, TLC

S(chars) == [kind |-> "string", chars |-> chars]
N(halves, float) == [kind |-> "number", halves |-> halves, float |-> float]

\* null, true, 1, 1.0, 0.5, "" and "xy".
Scalars == {[kind |-> "null"], [kind |-> "boolean", is |-> TRUE], N(2, FALSE), N(2, TRUE),
            N(1, TRUE), S(<<>>), S(<<"x", "y">>)}
Few == {[kind |-> "null"], N(2, FALSE), S(<<"x", "y">>)}

Arrays(items) == {[kind |-> "array", items |-> s] : s \in UNION {[1 .. n -> items] : n \in 0 .. 2}}
Objects(items) ==
    {[kind |-> "object", pairs |-> s] : s \in UNION {[1 .. n -> {"a", "b"} \X items] : n \in 0 .. 2}}

MCDocuments == Scalars \cup Arrays(Scalars) \cup Objects(Scalars) \cup
               {[kind |-> "object", pairs |-> <<<<"a", doc>>>>] :
                  doc \in Arrays(Few) \cup Objects(Few)} \cup
               {[kind |-> "array", items |-> <<[kind |-> "object", pairs |-> <<>>]>>]}

Type(name) == "type" :> <<name>>
Ref(file, def) == "$ref" :> [file |-> file, def |-> def]
Unknown == Type("object") @@ "minProperties" :> 1

Leaves ==
    {Type("string") @@ "minLength" :> 1, Type("string") @@ "maxLength" :> 1,
     Type("string") @@ "pattern" :> {<<"x", "y">>}, Type("string") @@ "enum" :> <<S(<<>>)>>,
     "const" :> S(<<"x", "y">>), Type("integer") @@ "minimum" :> 2,
     Type("number") @@ "maximum" :> 1, Type("boolean"), "type" :> <<"string", "null">>,
     "type" :> <<"integer", "null">> @@ "minimum" :> 3, Type("date"), "const" :> N(2, FALSE),
     "enum" :> <<N(2, TRUE), S(<<>>)>>,
     "enum" :> <<[kind |-> "object", fields |-> "a" :> N(2, FALSE)], S(<<>>)>>}
Ends == {Type("string") @@ "minLength" :> 1, Type("integer"), Ref("", "d"), Ref("other", ""),
         Ref("other", "d"), Type("array") @@ "items" :> Type("integer")}
Choices ==
    {"anyOf" :> <<branch, Type("string")>> : branch \in Ends \cup {Ref("other", "no")}} \cup
    {"allOf" :> <<branch, Type("string")>> : branch \in Ends} \cup
    {"oneOf" :> <<Type("number"), branch>> : branch \in {Type("string"), Type("integer")}} \cup
    {"oneOf" :> <<Type("object"), Ref("other", "d")>>}
Closed == {"required" :> r @@ "additionalProperties" :> more :
             r \in SUBSET {"a", "b"}, more \in {Never, Type("integer"), Ref("other", "")}}
Structures ==
    {Type("object") @@ "properties" :> ("a" :> end) @@ closed : end \in Ends, closed \in Closed} \cup
    {Type("object") @@ "required" :> {"a"}, Unknown} \cup
    {Type("array") @@ "items" :> end @@ "minItems" :> 1 : end \in Ends \cup Leaves} \cup
    {Type("array") @@ "uniqueItems" :> TRUE @@ "maxItems" :> 2,
     Type("array") @@ "tuple" :> <<Type("integer"), Type("string")>>,
     Type("array") @@ "tuple" :> <<Unknown, Type("string")>>}

Roots == Leaves \cup Ends \cup Choices \cup Structures

\* The file referred to is supported, or has a keyword the validator does not know at the
\* root or under a definition that may not be the one referred to, or is missing.
Others == {"other" :> (Type("object") @@ "$defs" :> ("d" :> Type("null"))),
           "other" :> (Unknown @@ "$defs" :> ("d" :> Type("object"))),
           "other" :> (Type("object") @@ "$defs" :> ("d" :> Unknown)), <<>>}

MCLibraries ==
    {"root" :> (root @@ "$defs" :> ("d" :> Type("string"))) @@ other : root \in Roots, other \in Others}
=============================================================================
