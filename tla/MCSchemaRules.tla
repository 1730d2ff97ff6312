---------------------------- MODULE MCSchemaRules ----------------------------
(***************************************************************************)
(* SchemaRules for TLC: schemas of up to three levels, with an argument a  *)
(* that has properties or items, and values with two names, a nested       *)
(* object or an array.                                                     *)
(***************************************************************************)
EXTENDS SchemaRules

MCTypes == {"", " Object", "object", "Any", "any", "string", "Integer", "integer",
            "number", "boolean", "array", "null", "date"}

MCLowerTrim ==
  [t \in MCTypes |-> CASE t = " Object" -> "object" [] t = "Any" -> "any"
                      [] t = "Integer" -> "integer" [] OTHER -> t]

MCNames == {"", " ", "a", " a", "b"}

MCTrim == [n \in MCNames |-> CASE n = " a" -> "a" [] n = " " -> "" [] OTHER -> n]

Number(type) == [Blank EXCEPT !.type = type, !.minimum = 1, !.maximum = 2]

Leaves ==
  {[Blank EXCEPT !.type = t] : t \in {"any", "string", "number", "boolean", "null", "date"}}
  \cup {[Blank EXCEPT !.type = t, !.enum = {"x"}] : t \in {"", "string", "integer"}}
  \cup {Number("Integer"), Number("number")}

Containers ==
  [type : {"", " Object", "object", "Any", "array"}, required : {{}, {" a", " "}, {"b"}},
   additional : {"nil", "open", "closed"}, enum : {{}}, minimum : {NoBound}, maximum : {NoBound}]

Roots == Containers \cup {[Blank EXCEPT !.type = "string", !.required = {"b"}]}

PlainRoots == {Blank, [Blank EXCEPT !.required = {" a"}]}

Schema(root, a) == [p \in {<<>>, <<"a">>} |-> IF p = <<>> THEN root ELSE a]

(* A schema whose argument a has a part.                                   *)
Nested(root, a, step, part) ==
  [p \in {<<>>, <<"a">>, <<"a", step>>} |->
     CASE p = <<>> -> root [] p = <<"a">> -> a [] OTHER -> part]

MCSchemas ==
  {Schema(r, a) : r \in Roots, a \in {Number("Integer"), [Blank EXCEPT !.type = "any"]}}
  \cup {Schema(r, a) : r \in PlainRoots, a \in Leaves}
  \cup {Nested(Blank, a, step, part) : a \in Containers, step \in {"a", Items},
          part \in {Number("Integer"), [Blank EXCEPT !.type = "string", !.enum = {"x"}]}}

Text(words, choices) == [form |-> "text", words |-> words, choices |-> choices]

Entries ==
  {Text(w, {}) : w \in SUBSET Words} \cup {Text({}, {"x"}), Text({"integer"}, {"x"})}
  \cup {[form |-> "schema", node |-> Number("Integer")], [form |-> "junk"]}

Legacy(entries) == [form |-> "legacy", entries |-> entries]

MCDefinitions ==
  {[form |-> "typed", schema |-> s] : s \in MCSchemas}
  \cup {[form |-> "structured", schema |-> Schema(Blank, [Blank EXCEPT !.type = "any"])],
        [form |-> "unreadable"]}
  \cup {Legacy([a \in names |-> e]) : names \in {{"a"}, {" a"}, {" "}, {"a", "b"}}, e \in Entries}
  \cup {Legacy([a \in {"a", k} |-> e]) : k \in {"type", "items"}, e \in Entries}

String(t) == [kind |-> "string", text |-> t]

Scalars ==
  {String("x"), String("y"), [kind |-> "boolean"], [kind |-> "null"]}
  \cup {[kind |-> "number", halves |-> h] : h \in {0, 2, 3, 4, 6}}

(* The arguments with something found at a and at b.                       *)
Arguments(parts) ==
  [p \in {<<>>} \cup DOMAIN parts |-> IF p = <<>> THEN [kind |-> "object"] ELSE parts[p]]

(* A container at a, with scalars in it.                                   *)
Within(kind, steps, s) ==
  Arguments([p \in {<<"a">>} \cup {<<"a", i>> : i \in steps} |->
               IF Len(p) = 1 THEN [kind |-> kind] ELSE s[p[2]]])

MCValues ==
  {Arguments(<<>>)}
  \cup {Arguments([p \in paths |-> s]) : paths \in {{<<"a">>}, {<<"b">>}, {<<"a">>, <<"b">>}}, s \in Scalars}
  \cup UNION {{Within("object", names, s) : s \in [names -> {String("x"), [kind |-> "number", halves |-> 2]}]} :
                 names \in SUBSET {"a", "b"}}
  \cup UNION {{Within("array", indices, s) : s \in [indices -> {String("x"), [kind |-> "number", halves |-> 2]}]} :
                 indices \in {{}, {"0"}, {"0", "1"}}}
==============================================================================
