-------------------------- MODULE SchemaValidation --------------------------
(***************************************************************************)
(* validation.rs: a JSON artifact is parsed (parse_json_value_strict) and  *)
(* judged against one of the schemas embedded in the binary                *)
(* (validate_value), by a validator that knows a part of JSON Schema and   *)
(* refuses a schema file with a keyword outside of that part.              *)
(*                                                                         *)
(* A value is a record of a kind and its content: a number counts halves   *)
(* and says whether it is written as a float, a string is the sequence of  *)
(* its characters, an object is a function from its keys.  In a document,  *)
(* the text before it is parsed, an object is the sequence of its pairs.   *)
(* A schema is a function from its keywords; type is a sequence of names,  *)
(* required a set of names, a pattern the set of strings it matches,       *)
(* "items" one schema and "tuple" the list form of items.  const and enum  *)
(* hold values.  FALSE as a schema is the keyword "false".                 *)
(* Errors carry text only, so a judgement is a boolean.  Operators named   *)
(* after what they get wrong are faults, which a run of the check puts in  *)
(* the place of the operator after them.                                   *)
(***************************************************************************)
EXTENDS Integers, Sequences, FiniteSets, Functions

CONSTANTS
    Libraries,  \* EMBEDDED_SCHEMAS: the functions from file names to schemas
    Documents,  \* the texts of artifacts
    Root        \* the file an artifact is judged against

VARIABLES
    library, document,  \* the embedded schemas and the text
    verdict             \* of the call: "none" yet, "unparsed", "invalid", "ok"

vars == <<library, document, verdict>>

Init == library \in Libraries /\ document \in Documents /\ verdict = "none"

-----------------------------------------------------------------------------
(* Parsing.                                                                *)

Keys(doc) == {doc.pairs[i][1] : i \in DOMAIN doc.pairs}

Duplicated(doc) == Cardinality(Keys(doc)) # Len(doc.pairs)

RECURSIVE Parses(_)
Parses(doc) ==
    CASE doc.kind = "object" ->
           ~Duplicated(doc) /\ \A i \in DOMAIN doc.pairs : Parses(doc.pairs[i][2])
      [] doc.kind = "array" -> \A i \in DOMAIN doc.items : Parses(doc.items[i])
      [] OTHER -> TRUE

RECURSIVE Value(_)
Value(doc) ==
    CASE doc.kind = "object" ->
           LET last(k) == CHOOSE i \in DOMAIN doc.pairs :
                            /\ doc.pairs[i][1] = k
                            /\ \A j \in DOMAIN doc.pairs : doc.pairs[j][1] = k => j <= i
           IN [kind |-> "object",
               fields |-> [k \in Keys(doc) |-> Value(doc.pairs[last(k)][2])]]
      [] doc.kind = "array" ->
           [kind |-> "array", items |-> [i \in DOMAIN doc.items |-> Value(doc.items[i])]]
      [] OTHER -> doc

-----------------------------------------------------------------------------
(* Loading: every keyword of the file is known, wherever it stands.        *)

Never == [x \in {"false"} |-> TRUE]
Has(schema, keyword) == keyword \in DOMAIN schema

SupportedKeywords ==
    {"$schema", "$id", "$ref", "$defs", "title", "description", "default", "examples",
     "type", "const", "enum", "required", "properties", "additionalProperties", "items",
     "minItems", "maxItems", "uniqueItems", "minimum", "maximum", "minLength", "maxLength",
     "pattern", "allOf", "anyOf", "oneOf"}

\* What is descended into: not the elements of the list form of items.
SubschemasIn(keyword, content) ==
    CASE keyword \in {"properties", "$defs", "allOf", "anyOf", "oneOf"} -> Range(content)
      [] keyword \in {"items", "additionalProperties"} -> {content}
      [] OTHER -> {}

\* An object among the values of an enum is read as a schema, and so on within it.
ValuesIn(keyword, value) ==
    CASE keyword \in {"properties", "$defs"} /\ value.kind = "object" -> Range(value.fields)
      [] keyword \in {"items", "additionalProperties"} -> {value}
      [] keyword \in {"allOf", "anyOf", "oneOf", "required", "enum"} /\ value.kind = "array" ->
           Range(value.items)
      [] OTHER -> {}
RECURSIVE SupportedValue(_)
SupportedValue(value) == value.kind = "object" =>
    \A keyword \in DOMAIN value.fields :
      /\ keyword \in SupportedKeywords
      /\ \A child \in ValuesIn(keyword, value.fields[keyword]) : SupportedValue(child)

SupportedRoot(schema) == DOMAIN schema \subseteq SupportedKeywords \cup {"tuple"}
RECURSIVE Supported(_)
Supported(schema) ==
    \/ schema = Never
    \/ /\ DOMAIN schema \subseteq SupportedKeywords \cup {"tuple"}
       /\ Has(schema, "enum") => \A value \in Range(schema["enum"]) : SupportedValue(value)
       /\ \A keyword \in DOMAIN schema :
            \A child \in SubschemasIn(keyword, schema[keyword]) : Supported(child)

Loads(file) == file \in DOMAIN library /\ Supported(library[file])

\* A reference names a definition, of its own file or of another, or a whole file.
Target(file, reference) == IF reference.file = "" THEN file ELSE reference.file
Resolves(file, reference) ==
    /\ Loads(Target(file, reference))
    /\ \/ reference.def = ""
       \/ LET root == library[Target(file, reference)]
          IN Has(root, "$defs") /\ reference.def \in DOMAIN root["$defs"]
Resolved(file, reference) ==
    LET root == library[Target(file, reference)]
    IN IF reference.def = "" THEN root ELSE root["$defs"][reference.def]

-----------------------------------------------------------------------------
(* The validator.                                                          *)

InRange(schema, low, high, n) ==
    (Has(schema, low) => n >= schema[low]) /\ (Has(schema, high) => n <= schema[high])

IntegerAsWritten(value) == value.kind = "number" /\ ~value.float
IsInteger(value) == value.kind = "number" /\ value.halves % 2 = 0

RECURSIVE Accepts(_, _, _)

AcceptsObject(file, schema, value) ==
    /\ value.kind = "object"
    /\ Has(schema, "required") => schema["required"] \subseteq DOMAIN value.fields
    /\ LET defined == IF Has(schema, "properties") THEN DOMAIN schema["properties"] ELSE {}
       IN /\ \A key \in defined \cap DOMAIN value.fields :
               Accepts(file, schema["properties"][key], value.fields[key])
          /\ Has(schema, "additionalProperties") =>
               \A key \in DOMAIN value.fields \ defined :
                 /\ schema["additionalProperties"] # Never
                 /\ Accepts(file, schema["additionalProperties"], value.fields[key])

AcceptsArray(file, schema, value) ==
    /\ value.kind = "array"
    /\ InRange(schema, "minItems", "maxItems", Len(value.items))
    /\ Has(schema, "items") =>
         \A i \in DOMAIN value.items : Accepts(file, schema["items"], value.items[i])
    /\ Has(schema, "tuple") =>
         \A i \in DOMAIN value.items \cap DOMAIN schema["tuple"] :
           Accepts(file, schema["tuple"][i], value.items[i])
    /\ Has(schema, "uniqueItems") => IsInjective(value.items)  \* as they are written

AcceptsType(file, schema, type, value) ==
    CASE type = "object" -> AcceptsObject(file, schema, value)
      [] type = "array" -> AcceptsArray(file, schema, value)
      [] type = "string" ->
           /\ value.kind = "string"
           /\ InRange(schema, "minLength", "maxLength", Len(value.chars))
      [] type = "integer" ->
           IsInteger(value) /\ InRange(schema, "minimum", "maximum", value.halves)
      [] type = "number" ->
           value.kind = "number" /\ InRange(schema, "minimum", "maximum", value.halves)
      [] type \in {"boolean", "null"} -> value.kind = type
      [] OTHER -> TRUE  \* a name that is no type asks for nothing

\* What stands beside a reference is not looked at, nor is oneOf beside anyOf; the
\* keywords of a type count only where the type is named.
Accepts(file, schema, value) ==
    IF Has(schema, "$ref")
    THEN /\ Resolves(file, schema["$ref"])
         /\ Accepts(Target(file, schema["$ref"]), Resolved(file, schema["$ref"]), value)
    ELSE /\ Has(schema, "const") => value = schema["const"]
         /\ Has(schema, "enum") => \E i \in DOMAIN schema["enum"] : value = schema["enum"][i]
         /\ Has(schema, "pattern") =>
              value.kind = "string" /\ value.chars \in schema["pattern"]
         /\ Has(schema, "type") =>
              \E i \in DOMAIN schema["type"] : AcceptsType(file, schema, schema["type"][i], value)
         /\ Has(schema, "allOf") =>
              \A i \in DOMAIN schema["allOf"] : Accepts(file, schema["allOf"][i], value)
         /\ Has(schema, "anyOf") =>
              \E i \in DOMAIN schema["anyOf"] : Accepts(file, schema["anyOf"][i], value)
         /\ ~Has(schema, "anyOf") /\ Has(schema, "oneOf") =>
              Cardinality({i \in DOMAIN schema["oneOf"] :
                             Accepts(file, schema["oneOf"][i], value)}) = 1

\* One call of validate_owner_map_json_text, or of its like: TOML texts hold no duplicate
\* keys once they are parsed.
Validate ==
    /\ verdict = "none"
    /\ verdict' = CASE ~Parses(document) -> "unparsed"
                    [] Loads(Root) /\ Accepts(Root, library[Root], Value(document)) -> "ok"
                    [] OTHER -> "invalid"
    /\ UNCHANGED <<library, document>>

Next == Validate

Spec == Init /\ [][Next]_vars

-----------------------------------------------------------------------------
(* JSON Schema: every keyword constrains the values of its own kind, FALSE *)
(* accepts nothing, no value is of a type that is none of the seven, two   *)
(* numbers are equal when their values are, and a keyword the validator    *)
(* does not know, such as minProperties, constrains too.                   *)

RECURSIVE Equal(_, _)
Equal(one, other) ==
    /\ one.kind = other.kind
    /\ CASE one.kind = "number" -> one.halves = other.halves
         [] one.kind = "array" ->
              /\ Len(one.items) = Len(other.items)
              /\ \A i \in DOMAIN one.items : Equal(one.items[i], other.items[i])
         [] one.kind = "object" ->
              /\ DOMAIN one.fields = DOMAIN other.fields
              /\ \A key \in DOMAIN one.fields : Equal(one.fields[key], other.fields[key])
         [] OTHER -> one = other

RECURSIVE Standard(_, _, _)

IsOfType(value, type) ==
    \/ value.kind = type
    \/ type = "integer" /\ value.kind = "number" /\ value.halves = 2 * (value.halves \div 2)

StandardNumber(schema, value) == InRange(schema, "minimum", "maximum", value.halves)
StandardString(schema, value) ==
    /\ InRange(schema, "minLength", "maxLength", Len(value.chars))
    /\ Has(schema, "pattern") => value.chars \in schema["pattern"]
StandardArray(file, schema, value) ==
    /\ InRange(schema, "minItems", "maxItems", Len(value.items))
    /\ Has(schema, "uniqueItems") =>
         \A i, j \in DOMAIN value.items : Equal(value.items[i], value.items[j]) => i = j
    /\ \A i \in DOMAIN value.items :
         /\ Has(schema, "items") => Standard(file, schema["items"], value.items[i])
         /\ Has(schema, "tuple") /\ i \in DOMAIN schema["tuple"] =>
              Standard(file, schema["tuple"][i], value.items[i])
StandardObject(file, schema, value) ==
    /\ Has(schema, "minProperties") => Cardinality(DOMAIN value.fields) >= schema["minProperties"]
    /\ Has(schema, "required") => \A key \in schema["required"] : key \in DOMAIN value.fields
    /\ \A key \in DOMAIN value.fields :
         IF Has(schema, "properties") /\ key \in DOMAIN schema["properties"]
         THEN Standard(file, schema["properties"][key], value.fields[key])
         ELSE Has(schema, "additionalProperties") =>
                Standard(file, schema["additionalProperties"], value.fields[key])

Standard(file, schema, value) ==
    /\ schema # Never
    /\ Has(schema, "$ref") =>
         LET there == Target(file, schema["$ref"])
         IN /\ there \in DOMAIN library
            /\ schema["$ref"].def \in {""} \cup DOMAIN library[there]["$defs"]
            /\ Standard(there, Resolved(file, schema["$ref"]), value)
    /\ Has(schema, "type") =>
         \E i \in DOMAIN schema["type"] : IsOfType(value, schema["type"][i])
    /\ Has(schema, "const") => Equal(value, schema["const"])
    /\ Has(schema, "enum") => \E candidate \in Range(schema["enum"]) : Equal(value, candidate)
    /\ value.kind = "number" => StandardNumber(schema, value)
    /\ value.kind = "string" => StandardString(schema, value)
    /\ value.kind = "array" => StandardArray(file, schema, value)
    /\ value.kind = "object" => StandardObject(file, schema, value)
    /\ Has(schema, "allOf") =>
         \A branch \in Range(schema["allOf"]) : Standard(file, branch, value)
    /\ Has(schema, "anyOf") =>
         \E branch \in Range(schema["anyOf"]) : Standard(file, branch, value)
    /\ Has(schema, "oneOf") =>
         \E i \in DOMAIN schema["oneOf"] :
           \A j \in DOMAIN schema["oneOf"] :
             i = j <=> Standard(file, schema["oneOf"][j], value)

\* Nothing written in an artifact is overridden before it is judged: each pair of each object
\* is the one the validator sees.
RECURSIVE Seen(_, _)
Seen(doc, value) ==
    CASE doc.kind # value.kind -> FALSE
      [] doc.kind = "object" ->
           \A i \in DOMAIN doc.pairs : Seen(doc.pairs[i][2], value.fields[doc.pairs[i][1]])
      [] doc.kind = "array" -> \A i \in DOMAIN doc.items : Seen(doc.items[i], value.items[i])
      [] OTHER -> doc = value

\* Where the validator is known to depart from the standard.  A type that is none of the
\* seven; a keyword it does not know in the list form of items, which it applies but does not
\* look through; a choice of exactly one while some file has such a keyword, whose refusal
\* makes a branch fail that the standard counts.
Types == {"object", "array", "string", "integer", "number", "boolean", "null"}
AllSupported == \A file \in DOMAIN library : Supported(library[file])
RECURSIVE Understood(_)
Understood(schema) ==
    /\ Has(schema, "type") => Range(schema["type"]) \subseteq Types
    /\ Has(schema, "oneOf") => AllSupported
    /\ Has(schema, "tuple") =>
         \A element \in Range(schema["tuple"]) : Supported(element) /\ Understood(element)
    /\ \A keyword \in DOMAIN schema :
         \A child \in SubschemasIn(keyword, schema[keyword]) : Understood(child)

\* Numbers that are equal but not written alike (1 and 1.0), among those of the artifact and
\* of the const and enum of the schemas: const, enum and uniqueItems compare what is written.
RECURSIVE Numbers(_)
Numbers(value) ==
    CASE value.kind = "number" -> {value}
      [] value.kind = "array" -> UNION {Numbers(item) : item \in Range(value.items)}
      [] value.kind = "object" -> UNION {Numbers(field) : field \in Range(value.fields)}
      [] OTHER -> {}
RECURSIVE NumbersNamed(_)
NumbersNamed(schema) ==
    UNION ((IF Has(schema, "const") THEN {Numbers(schema["const"])} ELSE {}) \cup
           (IF Has(schema, "enum") THEN {Numbers(v) : v \in Range(schema["enum"])} ELSE {}) \cup
           {UNION {NumbersNamed(child) : child \in SubschemasIn(keyword, schema[keyword])} :
              keyword \in DOMAIN schema} \cup
           (IF Has(schema, "tuple") THEN {NumbersNamed(e) : e \in Range(schema["tuple"])} ELSE {}))
OneSpelling ==
    LET all == Numbers(Value(document)) \cup UNION {NumbersNamed(library[f]) : f \in DOMAIN library}
    IN \A m, n \in all : m.halves = n.halves => m = n

Agrees == OneSpelling /\ \A file \in DOMAIN library : Understood(library[file])

\* An artifact that is accepted is accepted for all that is written in it, and where the
\* departures above do not occur it satisfies its schema as the standard reads it, keywords
\* the validator does not know and files it refers to included: one unknown keyword in a file
\* that is reached is enough to refuse (load_schema), and the branches of anyOf that fail for
\* that reason can only make it accept less.
Sound == verdict = "ok" =>
    /\ Seen(document, Value(document))
    /\ Agrees => Standard(Root, library[Root], Value(document))

\* Where every file is in the part of the standard the validator knows, and the departures
\* above do not occur, an artifact without duplicate keys that satisfies its schema is
\* accepted: a number written as a float where it is a whole one included.
Complete == verdict = "invalid" /\ AllSupported /\ Agrees =>
    ~Standard(Root, library[Root], Value(document))
=============================================================================
