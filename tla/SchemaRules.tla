----------------------------- MODULE SchemaRules -----------------------------
(***************************************************************************)
(* The argument contracts of tools: how a definition becomes a canonical   *)
(* schema (internal/schema/tool_schema.go), and how the guardrails hold    *)
(* the arguments of a call against it (validateSchema in                   *)
(* internal/paldron/paldron.go).                                           *)
(*                                                                         *)
(* A schema is a function from places to nodes, a value one from paths to  *)
(* what is found there.  A path is a sequence of the names and indices     *)
(* that lead to it; the place of an index is Items.  The order in which    *)
(* the validator visits the arguments decides only which message is        *)
(* printed.                                                                *)
(***************************************************************************)
EXTENDS Integers, Sequences

CONSTANTS Definitions,  \* tool definitions; see DefinitionType
          Values,       \* arguments of calls; see ValueType
          Types,        \* types as they may be written
          Names,        \* names of arguments as they may be written
          Texts,        \* strings an argument may be
          LowerTrim,    \* strings.ToLower after strings.TrimSpace
          Trim,         \* strings.TrimSpace
          Indices,      \* indices of arrays
          Items,        \* the place of the elements of an array
          NoBound       \* no minimum, or no maximum

Keywords == {"type", "properties", "required", "items", "enum",
             "minimum", "maximum", "additionalProperties"}

(* The words legacyProperty and ParseLegacyArgsSchema look for.            *)
Words == {"integer", "number", "boolean", "optional"}

Bounds == Int \cup {NoBound}

Node == [type : Types, required : SUBSET Names, additional : {"nil", "open", "closed"},
         enum : SUBSET Texts, minimum : Bounds, maximum : Bounds]

(* A schema has a node for its root.                                       *)
IsSchema(S) == <<>> \in DOMAIN S /\ S \in [DOMAIN S -> Node]

(* An entry of the legacy format: a text that describes the argument, an   *)
(* object with a schema, or what decodes as neither and, under a keyword,  *)
(* not as the keyword's value.                                             *)
Entry ==
  [form : {"text"}, words : SUBSET Words, choices : SUBSET Texts]
  \cup [form : {"schema"}, node : Node] \cup [form : {"junk"}]

DefinitionType(d) ==
  CASE d.form \in {"typed", "structured"} -> IsSchema(d.schema)
    [] d.form = "legacy" ->
         DOMAIN d.entries \subseteq Names \cup Keywords /\ d.entries \in [DOMAIN d.entries -> Entry]
    [] OTHER -> d.form = "unreadable"

(* What JSON holds at a path; a number counts halves.                      *)
Found == [kind : {"string"}, text : Texts] \cup [kind : {"number"}, halves : Int]
           \cup [kind : {"boolean", "null", "object", "array"}]

(* Only objects and arrays have parts.                                     *)
ValueType(v) ==
  /\ <<>> \in DOMAIN v /\ DOMAIN v \subseteq Seq(Names \cup Indices)
  /\ v \in [DOMAIN v -> Found] /\ v[<<>>].kind = "object"
  /\ \A p \in DOMAIN v : \A k \in 0 .. Len(p) - 1 :
       LET q == SubSeq(p, 1, k)
       IN  /\ q \in DOMAIN v
           /\ \/ v[q].kind = "object" /\ p[k + 1] \in Names
              \/ v[q].kind = "array" /\ p[k + 1] \in Indices

Lowered == {LowerTrim[t] : t \in Types}

ASSUME SchemaRulesAssumption ==
  /\ {"", "any", "string", "integer", "number", "boolean", "object", "array"} \subseteq Types
  /\ LowerTrim \in [Types -> Types]
  /\ \A t \in Lowered \cup {"any", "string", "integer", "number", "boolean", "object", "array"} :
       LowerTrim[t] = t
  /\ Trim \in [Names -> Names]
  /\ \A n \in Names : Trim[Trim[n]] = Trim[n]
  /\ Names \cap Indices = {}
  /\ NoBound \notin Int
  /\ \A d \in Definitions : DefinitionType(d)
  /\ \A v \in Values : ValueType(v)

VARIABLES stage,       \* "defined", "registered", "walking" or "done"
          definition,  \* the tool definition
          contract,    \* the schema as registered, then as validated
          value,       \* the arguments of the call
          pending,     \* paths the validator has still to visit
          verdict

vars == <<stage, definition, contract, value, pending, verdict>>

(* The place of a path in a schema.                                        *)
At(p) == [i \in DOMAIN p |-> IF p[i] \in Indices THEN Items ELSE p[i]]

Children(p) == {q \in DOMAIN value : Len(q) = Len(p) + 1 /\ SubSeq(q, 1, Len(p)) = p}

-----------------------------------------------------------------------------
(* Definitions and their canonical schemas.                                *)

Blank == [type |-> "", required |-> {}, additional |-> "nil", enum |-> {},
          minimum |-> NoBound, maximum |-> NoBound]

(* Mutant: an object is closed only where the author wrote its type.       *)
CanonicalNodeWritten(n) ==
  LET type == IF LowerTrim[n.type] = "" THEN "object" ELSE LowerTrim[n.type]
  IN  [n EXCEPT !.type = type,
                !.required = {Trim[r] : r \in n.required} \ {""},
                !.additional = IF @ = "nil" /\ LowerTrim[n.type] = "object" THEN "closed" ELSE @]

(* Mutant: the type is compared before its letters are lowered.            *)
CanonicalNodeAsWritten(n) ==
  [n EXCEPT !.type = IF @ = "" THEN "object" ELSE @,
            !.required = {Trim[r] : r \in n.required} \ {""},
            !.additional = IF @ = "nil" /\ n.type \in {"", "object"} THEN "closed" ELSE @]

(* One level of Canonical.  Required names are a sorted list without       *)
(* duplicates in the code, a set here; so is the enumeration.              *)
CanonicalNode(n) ==
  LET type == IF LowerTrim[n.type] = "" THEN "object" ELSE LowerTrim[n.type]
  IN  [n EXCEPT !.type = type,
                !.required = {Trim[r] : r \in n.required} \ {""},
                !.additional = IF @ = "nil" /\ type = "object" THEN "closed" ELSE @]

(* Canonical, which goes through the properties and the items.             *)
Canonical(S) == [p \in DOMAIN S |-> CanonicalNode(S[p])]

(* ObjectSchema, before it is made canonical.                              *)
ObjectSchema(properties, required) ==
  [p \in {<<>>} \cup {<<a>> : a \in DOMAIN properties} |->
     IF p = <<>>
     THEN [Blank EXCEPT !.type = "object", !.additional = "closed", !.required = required]
     ELSE properties[p[1]]]

EmptyObject == ObjectSchema(<<>>, {})

(* isStructuredJSONSchema.                                                 *)
IsStructured(entries) == DOMAIN entries \cap Keywords # {}

(* legacyProperty: the first of the types whose word is in the text.       *)
LegacyProperty(e) ==
  [Blank EXCEPT !.enum = e.choices,
                !.type = IF "integer" \in e.words THEN "integer"
                         ELSE IF "number" \in e.words THEN "number"
                         ELSE IF "boolean" \in e.words THEN "boolean"
                         ELSE "string"]

(* A legacy object read as a schema, which fails as a whole if what is     *)
(* under a keyword does not decode: a text does under "type" (and is not   *)
(* "object"), a schema under "items".                                      *)
ReadAsSchema(entries) ==
  LET found == DOMAIN entries \cap Keywords
      decodes == {<<"type", "text">>, <<"items", "schema">>}
  IN  IF \E k \in found : <<k, entries[k].form>> \notin decodes THEN EmptyObject
      ELSE [p \in {<<>>} \cup {<<Items>> : k \in found \cap {"items"}} |->
              IF p = <<>> THEN [Blank EXCEPT !.type = IF "type" \in found THEN "string" ELSE ""]
              ELSE entries["items"].node]

(* The schema a definition stands for, before it is made canonical:        *)
(* Parameters if there are any, else ParseLegacyArgsSchema.                *)
Adapted(d) ==
  CASE d.form \in {"typed", "structured"} -> d.schema
    [] d.form = "unreadable" -> EmptyObject
    [] d.form = "legacy" /\ IsStructured(d.entries) -> ReadAsSchema(d.entries)
    [] OTHER ->
         LET Property(e) == CASE e.form = "text" -> LegacyProperty(e)
                              [] e.form = "schema" -> e.node
                              [] OTHER -> [Blank EXCEPT !.type = "string"]
         IN  ObjectSchema([a \in DOMAIN d.entries |-> Property(d.entries[a])],
                          {a \in DOMAIN d.entries : /\ d.entries[a].form = "text"
                                                    /\ "optional" \notin d.entries[a].words})

CanonicalSchema(d) == Canonical(Adapted(d))

-----------------------------------------------------------------------------
(* Registration and validation.                                            *)

Init ==
  /\ stage = "defined"
  /\ definition \in Definitions
  /\ contract = EmptyObject
  /\ value \in Values
  /\ pending = {}
  /\ verdict = "none"

(* RegisterDefinition, or RegisterSchema for a legacy text: both end in    *)
(* RegisterJSONSchema, which makes the schema canonical once more.         *)
Register ==
  /\ stage = "defined"
  /\ stage' = "registered"
  /\ contract' = Canonical(CanonicalSchema(definition))
  /\ UNCHANGED <<definition, value, pending, verdict>>

Finish(v) == stage' = "done" /\ pending' = {} /\ verdict' = v

Refuse == Finish("deny") /\ UNCHANGED <<definition, contract, value>>

(* Goes on with the paths in next, or accepts the call if there are none.  *)
Proceed(next) ==
  /\ IF next = {} THEN Finish("allow")
     ELSE stage' = "walking" /\ pending' = next /\ UNCHANGED verdict
  /\ UNCHANGED <<definition, value>>

(* Mutant: unknown names are looked for among the arguments themselves.    *)
ObjectRefusesAtRoot(S, p) ==
  \/ \E n \in S[At(p)].required : Append(p, n) \notin DOMAIN value
  \/ p = <<>> /\ S[<<>>].additional = "closed" /\ \E q \in Children(p) : At(q) \notin DOMAIN S

(* Mutant: the names that are required are those of the root.              *)
ObjectRefusesByRoot(S, p) ==
  \/ \E n \in S[<<>>].required : Append(p, n) \notin DOMAIN value
  \/ S[At(p)].additional = "closed" /\ \E q \in Children(p) : At(q) \notin DOMAIN S

(* validateObject: a required name is missing, or a name is unknown and    *)
(* the object is closed.                                                   *)
ObjectRefuses(S, p) ==
  \/ \E n \in S[At(p)].required : Append(p, n) \notin DOMAIN value
  \/ S[At(p)].additional = "closed" /\ \E q \in Children(p) : At(q) \notin DOMAIN S

(* The children the schema has something to say about.                     *)
Described(S, p) == {q \in Children(p) : At(q) \in DOMAIN S}

(* validateSchema: validateObject for the root, whatever its type.         *)
ValidateSchema ==
  /\ stage = "registered"
  /\ contract' = Canonical(contract)
  /\ IF ObjectRefuses(contract', <<>>)
     THEN Finish("deny") /\ UNCHANGED <<definition, value>>
     ELSE Proceed(Described(contract', <<>>))

WithinBounds(n, x) == /\ n.minimum # NoBound => x >= 2 * n.minimum
                      /\ n.maximum # NoBound => x <= 2 * n.maximum

(* validateJSONValue, without what is below the value.                     *)
ValueFits(n, v) ==
  /\ n.enum # {} => v.kind = "string" /\ v.text \in n.enum
  /\ CASE n.type \in {"", "any"} -> TRUE
       [] n.type = "integer" ->
            v.kind = "number" /\ v.halves % 2 = 0 /\ WithinBounds(n, v.halves)
       [] n.type = "number" -> v.kind = "number" /\ WithinBounds(n, v.halves)
       [] n.type \in {"string", "boolean", "object", "array"} -> v.kind = n.type
       [] OTHER -> FALSE

(* An argument that does not fit.                                          *)
RefuseValue(p) ==
  /\ \/ ~ValueFits(contract[At(p)], value[p])
     \/ contract[At(p)].type = "object" /\ ObjectRefuses(contract, p)
  /\ Refuse

(* An argument that fits and has no parts, or none the schema looks into.  *)
AcceptValue(p) ==
  /\ ValueFits(contract[At(p)], value[p])
  /\ contract[At(p)].type \notin {"object", "array"}
  /\ Proceed(pending \ {p})
  /\ UNCHANGED contract

(* An object or an array, whose parts are next.                            *)
EnterValue(p) ==
  /\ ValueFits(contract[At(p)], value[p])
  /\ \/ contract[At(p)].type = "object" /\ ~ObjectRefuses(contract, p)
     \/ contract[At(p)].type = "array"
  /\ Proceed((pending \ {p}) \cup Described(contract, p))
  /\ UNCHANGED contract

ValidateJSONValue(p) == RefuseValue(p) \/ AcceptValue(p) \/ EnterValue(p)

Done == stage = "done" /\ UNCHANGED vars

Next ==
  \/ Register
  \/ ValidateSchema
  \/ \E p \in pending : ValidateJSONValue(p)
  \/ Done

Spec == Init /\ [][Next]_vars

-----------------------------------------------------------------------------
(* What a definition means, said of what its author wrote.                 *)

CanonicalNodes ==
  {n \in Node : /\ n.type \in (Lowered \ {""}) \cup {"object"}
                /\ n.type = "object" => n.additional # "nil"
                /\ \A r \in n.required : r # "" /\ Trim[r] = r}

TypeOK ==
  /\ stage \in {"defined", "registered", "walking", "done"}
  /\ definition \in Definitions
  /\ value \in Values
  /\ <<>> \in DOMAIN contract
  /\ contract \in [DOMAIN contract -> CanonicalNodes]
  /\ pending \subseteq {p \in DOMAIN value : p # <<>> /\ At(p) \in DOMAIN contract}
  /\ verdict \in {"none", "allow", "deny"}
  /\ stage = "walking" <=> pending # {}
  /\ stage = "done" <=> verdict # "none"

(* What `paldron schema` shows of a tool is what its calls are held        *)
(* against, although the schema is made canonical again when it is         *)
(* registered and whenever a call is checked (tool_schema.go:42-120,       *)
(* paldron.go:60-68, 203-205).                                             *)
ContractIsPublished ==
  stage # "defined" => contract = CanonicalSchema(definition)

Untyped(t) == LowerTrim[t] = ""

(* The author's schema treats the value at p as an object.                 *)
ObjectAt(S, p) == p = <<>> \/ LowerTrim[S[At(p)].type] = "object" \/ Untyped(S[At(p)].type)

(* Names nobody declared are welcome there: the author says so, or gave    *)
(* the root a type that is not object's.                                   *)
OpenAt(S, p) ==
  \/ S[At(p)].additional = "open"
  \/ S[At(p)].additional = "nil" /\ LowerTrim[S[At(p)].type] \notin {"", "object"}

(* What is below p is not the schema's concern.                            *)
LeavesOpen(S, p) ==
  \/ ObjectAt(S, p) /\ OpenAt(S, p)
  \/ LowerTrim[S[At(p)].type] = "any"
  \/ LowerTrim[S[At(p)].type] = "array" /\ Append(At(p), Items) \notin DOMAIN S

(* In a call that is allowed every argument, at every depth, has been      *)
(* declared by the author of the tool, unless he opened something around   *)
(* it: objects are closed by default (tool_schema.go:25-27, 40-61,         *)
(* paldron.go:214-226).                                                    *)
AcceptedIsDeclared ==
  verdict = "allow" =>
    LET S == Adapted(definition)
    IN  \A p \in DOMAIN value :
          \/ At(p) \in DOMAIN S
          \/ \E k \in 0..(Len(p) - 1) :
               LET q == SubSeq(p, 1, k) IN At(q) \in DOMAIN S /\ LeavesOpen(S, q)

(* The value at p is of its type (there is none of null), one of the       *)
(* enumeration and within the bounds.                                      *)
OfItsType(n, v) ==
  LET t == LowerTrim[n.type]
  IN  /\ \/ t = "any"
         \/ v.kind = t /\ t # "null"
         \/ t = "" /\ v.kind = "object"
         \/ t = "integer" /\ v.kind = "number" /\ v.halves % 2 = 0
      /\ n.enum # {} => v.kind = "string" /\ v.text \in n.enum
      /\ t \in {"integer", "number"} => WithinBounds(n, v.halves)

(* Everything around p is an object or an array the schema describes.      *)
Reached(S, p) ==
  /\ At(p) \in DOMAIN S
  /\ \A k \in 0 .. Len(p) - 1 :
       LET q == SubSeq(p, 1, k)
       IN  At(q) \in DOMAIN S /\ (ObjectAt(S, q) \/ LowerTrim[S[At(q)].type] = "array")

(* The value at p is what the schema says; the root is an object anyway.   *)
Meets(S, p) ==
  /\ p = <<>> \/ OfItsType(S[At(p)], value[p])
  /\ ObjectAt(S, p) =>
       /\ \A r \in S[At(p)].required : Trim[r] = "" \/ Append(p, Trim[r]) \in DOMAIN value
       /\ OpenAt(S, p) \/ \A q \in Children(p) : At(q) \in DOMAIN S

Conforms(S) == \A p \in DOMAIN value : Reached(S, p) => Meets(S, p)

(* The legacy format: each argument is described, and none that is not     *)
(* optional is missing; what a text describes is of the kind it names.     *)
ConformsToLegacy(entries) ==
  /\ \A q \in Children(<<>>) : q[1] \in DOMAIN entries
  /\ \A a \in DOMAIN entries :
       entries[a].form = "text" /\ "optional" \notin entries[a].words =>
         Trim[a] = "" \/ <<Trim[a]>> \in DOMAIN value
  /\ \A a \in DOMAIN entries :
       <<a>> \in DOMAIN value /\ entries[a].form = "text" =>
         LET v == value[<<a>>] e == entries[a]
         IN  /\ IF e.words \cap {"integer", "number"} # {} THEN v.kind = "number"
                ELSE v.kind = IF "boolean" \in e.words THEN "boolean" ELSE "string"
             /\ "integer" \in e.words => v.halves % 2 = 0
             /\ e.choices # {} => v.kind = "string" /\ v.text \in e.choices

(* The validator allows exactly the calls that conform to what the author  *)
(* of the tool wrote, at every depth and whatever order it takes.  A       *)
(* legacy definition with an argument named like a keyword of JSON Schema  *)
(* is read as a schema, and then allows nothing or everything              *)
(* (tool_schema.go:105-193, paldron.go:203-292).                           *)
VerdictIsConformance ==
  stage = "done" =>
    LET d == definition
        legacy == d.form = "legacy" /\ DOMAIN d.entries \cap Keywords = {}
    IN  verdict = "allow" <=>
          /\ Conforms(Adapted(d))
          /\ legacy => ConformsToLegacy(d.entries)
==============================================================================
