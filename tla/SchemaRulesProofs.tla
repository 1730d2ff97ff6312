-------------------------- MODULE SchemaRulesProofs --------------------------
(***************************************************************************)
(* Proofs about SchemaRules, for any set of definitions and any arguments  *)
(* of calls, of any depth: the types, that the contract calls are held     *)
(* against is the published one however often it is made canonical, and    *)
(* that the verdict is what the author of the tool wrote.                  *)
(*                                                                         *)
(* The last rests on the walk (WalkInv): the validator comes only to       *)
(* values everything around which is described and entered (Near), and     *)
(* whatever it can come to is as its author wants it or is still ahead,    *)
(* below a pending path.  When nothing is pending, nothing is ahead.       *)
(***************************************************************************)
EXTENDS SchemaRules, TLAPS, SequenceTheorems, WellFoundedInduction

(* Trimming and lowering stay within their sets and need be done once.     *)
LEMMA TextFacts ==
  /\ \A n \in Names : Trim[n] \in Names /\ Trim[Trim[n]] = Trim[n]
  /\ \A t \in Types : LowerTrim[t] \in Types /\ LowerTrim[LowerTrim[t]] = LowerTrim[t]
  /\ LowerTrim["object"] = "object"
  /\ "object" \in Types
<1>1. Trim \in [Names -> Names] /\ \A n \in Names : Trim[Trim[n]] = Trim[n]
  BY SchemaRulesAssumption
<1>2. LowerTrim \in [Types -> Types] /\ \A t \in Lowered \cup {"object"} : LowerTrim[t] = t
  BY SchemaRulesAssumption
<1>3. "object" \in Types
  BY SchemaRulesAssumption
<1> QED
  BY <1>1, <1>2, <1>3 DEF Lowered

(* One level of Canonical yields a canonical node.                         *)
LEMMA NodeBecomesCanonical ==
  ASSUME NEW n \in Node
  PROVE  CanonicalNode(n) \in CanonicalNodes
<1> DEFINE t == IF LowerTrim[n.type] = "" THEN "object" ELSE LowerTrim[n.type]
           r == {Trim[m] : m \in n.required} \ {""}
           c == CanonicalNode(n)
<1>1. t \in (Lowered \ {""}) \cup {"object"} /\ t \in Types
  <2> DEFINE u == LowerTrim[n.type]
  <2>1. u \in Lowered /\ u \in Types
    BY TextFacts DEF Lowered, Node
  <2> HIDE DEF u
  <2>2. CASE u = ""
    <3>1. t = "object"
      BY <2>2 DEF u
    <3> QED  BY <3>1, TextFacts
  <2>3. CASE u # ""
    <3>1. t = u
      BY <2>3 DEF u
    <3>2. u \in Lowered \ {""}
      BY <2>1, <2>3
    <3>3. t \in Lowered \ {""} /\ t \in Types
      BY <2>1, <3>1, <3>2
    <3> HIDE DEF t
    <3> DEFINE L == Lowered \ {""}
    <3>4. t \in L
      BY <3>3
    <3> HIDE DEF L
    <3>5. t \in L \cup {"object"}
      BY <3>4
    <3> QED  BY <3>3, <3>5 DEF L
  <2> QED  BY <2>2, <2>3
<1>2. r \subseteq Names /\ \A m \in r : m # "" /\ Trim[m] = m
  <2>1. \A m \in n.required : m \in Names
    BY DEF Node
  <2>2. ASSUME NEW m \in r
        PROVE  m \in Names /\ m # "" /\ Trim[m] = m
    <3>1. PICK k \in n.required : m = Trim[k] /\ m # ""
      OBVIOUS
    <3> QED  BY <2>1, <3>1, TextFacts
  <2> HIDE DEF r
  <2> QED  BY <2>2
<1>3. /\ c.type = t
      /\ c.required = r
      /\ c.additional = IF n.additional = "nil" /\ t = "object" THEN "closed" ELSE n.additional
      /\ c \in Node
  BY <1>1, <1>2 DEF CanonicalNode, Node
<1> QED
  BY <1>1, <1>2, <1>3 DEF CanonicalNodes, Node

(* A canonical node stays as it is.                                        *)
LEMMA CanonicalNodeIsFixed ==
  ASSUME NEW n \in CanonicalNodes
  PROVE  CanonicalNode(n) = n
<1> DEFINE t == IF LowerTrim[n.type] = "" THEN "object" ELSE LowerTrim[n.type]
           r == {Trim[m] : m \in n.required} \ {""}
<1>1. n \in Node /\ n.type # "" /\ LowerTrim[n.type] = n.type
  <2>1. n \in Node /\ (n.type = "object" \/ (n.type \in Lowered /\ n.type # ""))
    BY DEF CanonicalNodes
  <2>2. ASSUME n.type \in Lowered PROVE LowerTrim[n.type] = n.type
    <3>1. PICK u \in Types : n.type = LowerTrim[u]
      BY <2>2 DEF Lowered
    <3> QED  BY <3>1, TextFacts
  <2> QED  BY <2>1, <2>2, TextFacts
<1>2. t = n.type
  BY <1>1
<1>3. r = n.required
  <2>1. \A m \in n.required : Trim[m] = m /\ m # ""
    BY DEF CanonicalNodes
  <2> DEFINE R == n.required
  <2>2. \A m \in R : Trim[m] = m /\ m # ""
    BY <2>1
  <2> HIDE DEF R
  <2>3. {Trim[m] : m \in R} \ {""} = R
    BY <2>2
  <2> QED  BY <2>3 DEF R
<1>4. n.additional = IF n.additional = "nil" /\ t = "object" THEN "closed" ELSE n.additional
  BY <1>2 DEF CanonicalNodes
<1> QED
  BY <1>1, <1>2, <1>3, <1>4 DEF CanonicalNode, Node

(* Canonical makes every node of a schema canonical.                       *)
LEMMA SchemaBecomesCanonical ==
  ASSUME NEW S, IsSchema(S)
  PROVE  /\ DOMAIN Canonical(S) = DOMAIN S
         /\ <<>> \in DOMAIN S
         /\ Canonical(S) \in [DOMAIN S -> CanonicalNodes]
<1>1. \A p \in DOMAIN S : CanonicalNode(S[p]) \in CanonicalNodes
  BY NodeBecomesCanonical DEF IsSchema
<1> QED
  BY <1>1 DEF Canonical, IsSchema

(* Making a schema canonical twice is making it canonical once.            *)
LEMMA CanonicalTwice ==
  ASSUME NEW S, S \in [DOMAIN S -> CanonicalNodes]
  PROVE  Canonical(S) = S
<1>1. \A p \in DOMAIN S : CanonicalNode(S[p]) = S[p]
  BY CanonicalNodeIsFixed
<1> QED
  BY <1>1 DEF Canonical

(* Nodes the code starts from.                                             *)
LEMMA BlankIsNode ==
  /\ Blank \in Node
  /\ \A R \in SUBSET Names :
       [Blank EXCEPT !.type = "object", !.additional = "closed", !.required = R] \in Node
  /\ [Blank EXCEPT !.type = "string"] \in Node
  /\ [Blank EXCEPT !.type = ""] \in Node
<1>1. {"", "object", "string"} \subseteq Types
  BY SchemaRulesAssumption
<1> QED
  BY <1>1 DEF Blank, Node, Bounds

(* ObjectSchema yields a schema.                                           *)
LEMMA ObjectSchemaIsSchema ==
  ASSUME NEW F, F \in [DOMAIN F -> Node], NEW R \in SUBSET Names
  PROVE  IsSchema(ObjectSchema(F, R))
<1> DEFINE P == {<<>>} \cup {<<a>> : a \in DOMAIN F}
           N(p) == IF p = <<>>
                   THEN [Blank EXCEPT !.type = "object", !.additional = "closed", !.required = R]
                   ELSE F[p[1]]
<1>1. \A p \in P : N(p) \in Node
  <2> SUFFICES ASSUME NEW p \in P PROVE N(p) \in Node
    OBVIOUS
  <2>1. CASE p = <<>>
    BY <2>1, BlankIsNode
  <2>2. CASE p # <<>>
    <3>1. PICK a \in DOMAIN F : p = <<a>>
      BY <2>2
    <3> QED  BY <3>1, <2>2
  <2> QED  BY <2>1, <2>2
<1>2. ObjectSchema(F, R) = [p \in P |-> N(p)]
  BY DEF ObjectSchema
<1> HIDE DEF N, P
<1>3. <<>> \in P
  BY DEF P
<1> QED
  BY <1>1, <1>2, <1>3 DEF IsSchema

(* The empty object is a schema, and canonical.                            *)
LEMMA EmptyObjectIsSchema == IsSchema(EmptyObject)
<1>1. <<>> \in [DOMAIN <<>> -> Node]
  OBVIOUS
<1> QED
  BY <1>1, ObjectSchemaIsSchema DEF EmptyObject

(* What legacyProperty makes of a text is a node.                          *)
LEMMA LegacyPropertyIsNode ==
  ASSUME NEW e \in Entry, e.form = "text"
  PROVE  LegacyProperty(e) \in Node
<1>1. e.choices \in SUBSET Texts
  BY DEF Entry
<1>2. {"string", "integer", "number", "boolean"} \subseteq Types
  BY SchemaRulesAssumption
<1> DEFINE t == IF "integer" \in e.words THEN "integer"
                ELSE IF "number" \in e.words THEN "number"
                ELSE IF "boolean" \in e.words THEN "boolean"
                ELSE "string"
<1>3. t \in Types
  BY <1>2
<1>4. LegacyProperty(e) = [Blank EXCEPT !.enum = e.choices, !.type = t]
  BY DEF LegacyProperty
<1> HIDE DEF t
<1> QED
  BY <1>1, <1>3, <1>4 DEF Blank, Node, Bounds

(* Every definition stands for a schema.                                   *)
LEMMA AdaptedIsSchema ==
  ASSUME NEW d \in Definitions
  PROVE  IsSchema(Adapted(d))
<1>1. DefinitionType(d)
  BY SchemaRulesAssumption
<1>2. CASE d.form \in {"typed", "structured"}
  BY <1>1, <1>2 DEF DefinitionType, Adapted
<1>3. CASE d.form = "legacy" /\ IsStructured(d.entries)
  <2>1. IsSchema(ReadAsSchema(d.entries))
    <3> DEFINE E == d.entries
               found == DOMAIN E \cap Keywords
               decodes == {<<"type", "text">>, <<"items", "schema">>}
               root == [Blank EXCEPT !.type = IF "type" \in found THEN "string" ELSE ""]
               places == {<<>>} \cup {<<Items>> : k \in found \cap {"items"}}
               S == [p \in places |-> IF p = <<>> THEN root ELSE E["items"].node]
    <3>1. CASE \E k \in found : <<k, E[k].form>> \notin decodes
      BY <3>1, EmptyObjectIsSchema DEF ReadAsSchema
    <3>2. CASE \A k \in found : <<k, E[k].form>> \in decodes
      <4>1. root \in Node
        <5>1. CASE "type" \in found
          BY <5>1, BlankIsNode
        <5>2. CASE "type" \notin found
          BY <5>2, BlankIsNode
        <5> QED  BY <5>1, <5>2
      <4>2. ASSUME "items" \in found PROVE E["items"].node \in Node
        <5>1. E["items"] \in Entry
          BY <1>1, <1>3, <4>2 DEF DefinitionType
        <5>2. E["items"].form = "schema"
          BY <3>2, <4>2
        <5> QED  BY <5>1, <5>2 DEF Entry
      <4>3. \A p \in places : S[p] \in Node
        <5>1. \A p \in places : p # <<>> => "items" \in found
          OBVIOUS
        <5> QED  BY <4>1, <4>2, <5>1
      <4>4. IsSchema(S)
        BY <4>3 DEF IsSchema
      <4>5. ReadAsSchema(E) = S
        BY <3>2 DEF ReadAsSchema
      <4> QED  BY <4>4, <4>5
    <3> QED  BY <3>1, <3>2
  <2> QED  BY <1>3, <2>1 DEF Adapted
<1>4. CASE d.form = "legacy" /\ ~IsStructured(d.entries)
  <2> DEFINE E == d.entries
             Property(e) == CASE e.form = "text" -> LegacyProperty(e)
                              [] e.form = "schema" -> e.node
                              [] OTHER -> [Blank EXCEPT !.type = "string"]
             F == [a \in DOMAIN E |-> Property(E[a])]
             R == {a \in DOMAIN E : E[a].form = "text" /\ "optional" \notin E[a].words}
  <2>1. E \in [DOMAIN E -> Entry] /\ DOMAIN E \subseteq Names \cup Keywords
    BY <1>1, <1>4 DEF DefinitionType
  <2>2. R \in SUBSET Names
    BY <2>1, <1>4 DEF IsStructured
  <2>3. \A e \in Entry : Property(e) \in Node
    <3> SUFFICES ASSUME NEW e \in Entry PROVE Property(e) \in Node
      OBVIOUS
    <3>1. CASE e.form = "text"
      BY <3>1, LegacyPropertyIsNode
    <3>2. CASE e.form = "schema"
      <4>1. e.node \in Node
        BY <3>2 DEF Entry
      <4> QED  BY <4>1, <3>2
    <3>3. CASE e.form \notin {"text", "schema"}
      BY <3>3, BlankIsNode
    <3> QED  BY <3>1, <3>2, <3>3
  <2> HIDE DEF Property
  <2>4. F \in [DOMAIN F -> Node]
    BY <2>1, <2>3
  <2>5. Adapted(d) = ObjectSchema(F, R)
    BY <1>4 DEF Adapted, Property
  <2> HIDE DEF E, F, R
  <2> QED  BY <2>2, <2>4, <2>5, ObjectSchemaIsSchema
<1>5. CASE d.form = "unreadable"
  BY <1>5, EmptyObjectIsSchema DEF Adapted
<1> QED
  BY <1>1, <1>2, <1>3, <1>4, <1>5 DEF DefinitionType

(* The published schema is canonical.                                      *)
LEMMA PublishedIsCanonical ==
  ASSUME NEW d \in Definitions
  PROVE  /\ <<>> \in DOMAIN CanonicalSchema(d)
         /\ CanonicalSchema(d) \in [DOMAIN CanonicalSchema(d) -> CanonicalNodes]
         /\ Canonical(CanonicalSchema(d)) = CanonicalSchema(d)
<1>1. IsSchema(Adapted(d))
  BY AdaptedIsSchema
<1>2. /\ <<>> \in DOMAIN CanonicalSchema(d)
      /\ CanonicalSchema(d) \in [DOMAIN CanonicalSchema(d) -> CanonicalNodes]
  BY <1>1, SchemaBecomesCanonical DEF CanonicalSchema
<1> QED
  BY <1>2, CanonicalTwice

(* The contract before a tool is registered.                               *)
LEMMA EmptyObjectIsCanonical ==
  <<>> \in DOMAIN EmptyObject /\ EmptyObject \in [DOMAIN EmptyObject -> CanonicalNodes]
<1> DEFINE n == [Blank EXCEPT !.type = "object", !.additional = "closed", !.required = {}]
<1>1. n \in CanonicalNodes
  <2>1. n \in Node
    BY BlankIsNode
  <2>2. n.type = "object" /\ n.additional = "closed" /\ n.required = {}
    BY DEF Blank
  <2> HIDE DEF n
  <2> QED  BY <2>1, <2>2 DEF CanonicalNodes
<1>2. EmptyObject = [p \in {<<>>} |-> n]
  BY DEF EmptyObject, ObjectSchema
<1> HIDE DEF n
<1> QED
  BY <1>1, <1>2

-----------------------------------------------------------------------------

IInv == TypeOK /\ ContractIsPublished

(* Both hold at the start.                                                 *)
LEMMA InitEstablishes == Init => IInv
BY EmptyObjectIsCanonical DEF Init, IInv, TypeOK, ContractIsPublished

(* The parts of a value are not the value.                                 *)
LEMMA DescribedIsBelow ==
  ASSUME TypeOK, NEW p \in DOMAIN value
  PROVE  Described(contract, p) \subseteq
           {q \in DOMAIN value : q # <<>> /\ At(q) \in DOMAIN contract}
<1>1. ValueType(value)
  BY SchemaRulesAssumption DEF TypeOK
<1>2. \A q \in DOMAIN value : q \in Seq(Names \cup Indices)
  BY <1>1 DEF ValueType
<1>3. Len(p) \in Nat
  BY <1>2
<1>4. \A q \in Children(p) : q \in DOMAIN value /\ q # <<>>
  BY <1>3 DEF Children
<1> QED
  BY <1>4 DEF Described

(* The validator's steps keep both.                                        *)
LEMMA ValidationPreserves ==
  ASSUME IInv, NEW p \in pending, ValidateJSONValue(p)
  PROVE  IInv'
<1> USE DEF IInv, ContractIsPublished
<1>1. p \in DOMAIN value /\ stage = "walking"
  BY DEF TypeOK
<1>2. CASE RefuseValue(p)
  BY <1>1, <1>2 DEF RefuseValue, Refuse, Finish, TypeOK
<1>3. ASSUME NEW next \in SUBSET {q \in DOMAIN value : q # <<>> /\ At(q) \in DOMAIN contract},
             Proceed(next), UNCHANGED contract
      PROVE  IInv'
  BY <1>1, <1>3 DEF Proceed, Finish, TypeOK, At
<1>4. CASE AcceptValue(p)
  <2>1. pending \ {p} \in SUBSET {q \in DOMAIN value : q # <<>> /\ At(q) \in DOMAIN contract}
    BY DEF TypeOK
  <2> QED  BY <1>3, <1>4, <2>1 DEF AcceptValue
<1>5. CASE EnterValue(p)
  <2> DEFINE next == (pending \ {p}) \cup Described(contract, p)
  <2>1. next \in SUBSET {q \in DOMAIN value : q # <<>> /\ At(q) \in DOMAIN contract}
    BY <1>1, DescribedIsBelow DEF TypeOK
  <2>2. Proceed(next) /\ UNCHANGED contract
    BY <1>5 DEF EnterValue
  <2> HIDE DEF next
  <2> QED  BY <1>3, <2>1, <2>2
<1> QED
  BY <1>2, <1>4, <1>5 DEF ValidateJSONValue

(* So do registration and the start of a validation, which make the        *)
(* contract canonical again.                                               *)
LEMMA StepPreserves == IInv /\ [Next]_vars => IInv'
<1> SUFFICES ASSUME IInv, [Next]_vars PROVE IInv'
  OBVIOUS
<1> USE DEF IInv, ContractIsPublished
<1>1. CASE Register
  <2>1. definition \in Definitions
    BY DEF TypeOK
  <2>2. contract' = CanonicalSchema(definition)
    BY <1>1, <2>1, PublishedIsCanonical DEF Register
  <2>3. CanonicalSchema(definition)' = CanonicalSchema(definition)
    BY <1>1 DEF Register, CanonicalSchema, Adapted
  <2>4. pending = {} /\ verdict = "none"
    BY <1>1 DEF Register, TypeOK
  <2> QED  BY <1>1, <2>1, <2>2, <2>3, <2>4, PublishedIsCanonical DEF Register, TypeOK
<1>2. CASE ValidateSchema
  <2>1. contract' = contract
    BY <1>2, CanonicalTwice DEF ValidateSchema, TypeOK
  <2>2. <<>> \in DOMAIN value
    BY SchemaRulesAssumption DEF TypeOK, ValueType
  <2>3. pending = {} /\ verdict = "none" /\ stage = "registered"
    BY <1>2 DEF ValidateSchema, TypeOK
  <2>4. CASE Finish("deny") /\ UNCHANGED <<definition, value>>
    BY <2>1, <2>3, <2>4 DEF Finish, TypeOK
  <2>5. CASE Proceed(Described(contract', <<>>))
    <3> DEFINE next == Described(contract, <<>>)
    <3>1. next \subseteq {q \in DOMAIN value : q # <<>> /\ At(q) \in DOMAIN contract}
      BY <2>2, DescribedIsBelow
    <3>2. Proceed(next)
      BY <2>1, <2>5
    <3> HIDE DEF next
    <3> QED  BY <2>1, <2>3, <3>1, <3>2 DEF Proceed, Finish, TypeOK, At
  <2> QED  BY <1>2, <2>4, <2>5 DEF ValidateSchema
<1>3. CASE \E p \in pending : ValidateJSONValue(p)
  BY <1>3, ValidationPreserves
<1>4. CASE UNCHANGED vars
  BY <1>4 DEF vars, TypeOK, At
<1> QED
  BY <1>1, <1>2, <1>3, <1>4 DEF Next, Done

(* The types of a tool's contract and of the walk through a call's         *)
(* arguments, for any schemas and values.                                  *)
THEOREM TypeCorrect == Spec => []TypeOK
<1>1. IInv => TypeOK
  BY DEF IInv
<1> QED
  BY <1>1, InitEstablishes, StepPreserves, PTL DEF Spec

(* What is published of a tool is what its calls are held against.         *)
THEOREM ContractPublished == Spec => []ContractIsPublished
<1>1. IInv => ContractIsPublished
  BY DEF IInv
<1> QED
  BY <1>1, InitEstablishes, StepPreserves, PTL DEF Spec

-----------------------------------------------------------------------------
(* Paths.                                                                  *)

Steps == Names \cup Indices
Paths == Seq(Steps)

(* The path to what is k steps down on the way to p.                       *)
Upto(p, k) == SubSeq(p, 1, k)

(* A non-empty set of naturals has a least member.                         *)
LEMMA LeastMember ==
  ASSUME NEW T, T \subseteq Nat, T # {}
  PROVE  \E m \in T : \A k \in T : m <= k
<1> DEFINE R == OpToRel(<, Nat)
<1>1. IsWellFoundedOn(R, Nat)
  BY NatLessThanWellFounded
<1>2. PICK m \in T : \A k \in T : ~(<<k, m>> \in R)
  <2> HIDE DEF R
  <2> QED  BY <1>1, WFMin
<1>3. \A k \in T : k < m => <<k, m>> \in R
  BY DEF OpToRel
<1> HIDE DEF R
<1>4. \A k \in T : ~(k < m)
  BY <1>2, <1>3
<1> QED
  BY <1>4

(* What is above a path, and above that.                                   *)
LEMMA UptoFacts ==
  ASSUME NEW p \in Paths, NEW k \in 0 .. Len(p)
  PROVE  /\ Len(p) \in Nat
         /\ Upto(p, k) \in Paths
         /\ Len(Upto(p, k)) = k
         /\ DOMAIN Upto(p, k) = 1 .. k
         /\ \A i \in 1 .. k : Upto(p, k)[i] = p[i]
         /\ Upto(p, Len(p)) = p
         /\ Upto(p, 0) = <<>>
<1>1. Len(p) \in Nat /\ \A i \in 1 .. Len(p) : p[i] \in Steps
  BY LenProperties, ElementOfSeq DEF Paths
<1>2. \A i \in 1 .. k : p[i] \in Steps
  BY <1>1
<1>3. /\ SubSeq(p, 1, k) \in Seq(Steps)
      /\ Len(SubSeq(p, 1, k)) = IF 1 <= k THEN k - 1 + 1 ELSE 0
      /\ \A i \in 1 .. k - 1 + 1 : SubSeq(p, 1, k)[i] = p[1 + i - 1]
  BY <1>1, <1>2, SubSeqProperties
<1>4. Len(SubSeq(p, 1, k)) = k
  BY <1>1, <1>3
<1>5. DOMAIN SubSeq(p, 1, k) = 1 .. k
  BY <1>3, <1>4, LenProperties
<1>6. \A i \in 1 .. k : SubSeq(p, 1, k)[i] = p[i]
  BY <1>1, <1>3
<1>7. SubSeq(p, 1, Len(p)) = p
  BY SubSeqFull DEF Paths
<1>8. SubSeq(p, 1, 0) = <<>>
  BY SubSeqEmpty
<1> QED
  BY <1>1, <1>3, <1>4, <1>5, <1>6, <1>7, <1>8 DEF Upto, Paths

(* Going up twice is going up once.                                        *)
LEMMA UptoUpto ==
  ASSUME NEW p \in Paths, NEW k \in 0 .. Len(p), NEW j \in 0 .. k
  PROVE  Upto(Upto(p, k), j) = Upto(p, j)
<1> DEFINE u == Upto(p, k)
<1>1. Len(p) \in Nat /\ u \in Paths /\ Len(u) = k /\ \A i \in 1 .. k : u[i] = p[i]
  BY UptoFacts
<1> HIDE DEF u
<1>2. j \in 0 .. Len(u) /\ j \in 0 .. Len(p)
  BY <1>1
<1>3. Upto(u, j) \in Paths /\ Len(Upto(u, j)) = j /\ \A i \in 1 .. j : Upto(u, j)[i] = u[i]
  BY <1>1, <1>2, UptoFacts
<1>4. Upto(p, j) \in Paths /\ Len(Upto(p, j)) = j /\ \A i \in 1 .. j : Upto(p, j)[i] = p[i]
  BY <1>2, UptoFacts
<1>5. \A i \in 1 .. j : Upto(u, j)[i] = Upto(p, j)[i]
  BY <1>1, <1>3, <1>4
<1>6. Upto(u, j) = Upto(p, j)
  BY <1>3, <1>4, <1>5, SeqEqual DEF Paths
<1> QED
  BY <1>6 DEF u

(* The place of an element of an array, and the root's.                    *)
LEMMA PlaceOfElement ==
  ASSUME NEW p \in Paths, NEW k \in 1 .. Len(p), p[k] \in Indices
  PROVE  At(Upto(p, k)) = Append(At(Upto(p, k - 1)), Items)
<1> DEFINE X == Steps \cup {Items}
           u == Upto(p, k)
           w == Upto(p, k - 1)
           a == At(w)
<1>1. Len(p) \in Nat /\ k \in 0 .. Len(p) /\ k - 1 \in 0 .. Len(p)
  BY LenProperties DEF Paths
<1>2. DOMAIN u = 1 .. k /\ \A i \in 1 .. k : u[i] = p[i] /\ p[i] \in Steps
  BY <1>1, UptoFacts, ElementOfSeq DEF Paths
<1>3. DOMAIN w = 1 .. k - 1 /\ \A i \in 1 .. k - 1 : w[i] = p[i] /\ p[i] \in Steps
  BY <1>1, <1>2, UptoFacts
<1>4. At(u) = [i \in 1 .. k |-> IF u[i] \in Indices THEN Items ELSE u[i]]
  BY <1>2 DEF At
<1>5. a = [i \in 1 .. k - 1 |-> IF w[i] \in Indices THEN Items ELSE w[i]]
  BY <1>3 DEF At
<1> HIDE DEF u, w
<1>6. a \in [1 .. k - 1 -> X]
  BY <1>3, <1>5
<1>7. At(u) \in [1 .. k -> X]
  BY <1>2, <1>4
<1>8. \A i \in 1 .. k - 1 : At(u)[i] = a[i]
  BY <1>2, <1>3, <1>4, <1>5
<1>9. At(u)[k] = Items
  BY <1>2, <1>4
<1> HIDE DEF X, a
<1>10. a \in Seq(X) /\ Len(a) = k - 1
  BY <1>1, <1>6
<1>11. At(u) \in Seq(X) /\ Len(At(u)) = k
  BY <1>1, <1>7
<1>12. Items \in X
  BY DEF X
<1>13. /\ Append(a, Items) \in Seq(X)
       /\ Len(Append(a, Items)) = k
       /\ \A i \in 1 .. k - 1 : Append(a, Items)[i] = a[i]
       /\ Append(a, Items)[k] = Items
  BY <1>10, <1>12, AppendProperties
<1>14. \A i \in 1 .. k : At(u)[i] = Append(a, Items)[i]
  BY <1>8, <1>9, <1>13
<1>15. At(u) = Append(a, Items)
  BY <1>11, <1>13, <1>14, SeqEqual
<1> QED
  BY <1>15 DEF u, w, a

(* Arguments lie on the way to their parts.                                *)
LEMMA ValueFacts ==
  ASSUME NEW v \in Values
  PROVE  /\ <<>> \in DOMAIN v
         /\ DOMAIN v \subseteq Paths
         /\ v[<<>>].kind = "object"
         /\ \A p \in DOMAIN v :
              /\ v[p] \in Found
              /\ \A k \in 0 .. Len(p) : Upto(p, k) \in DOMAIN v
              /\ \A k \in 0 .. Len(p) - 1 :
                   \/ v[Upto(p, k)].kind = "object" /\ p[k + 1] \in Names
                   \/ v[Upto(p, k)].kind = "array" /\ p[k + 1] \in Indices
<1>1. ValueType(v)
  BY SchemaRulesAssumption
<1>2. /\ <<>> \in DOMAIN v /\ DOMAIN v \subseteq Paths /\ v[<<>>].kind = "object"
      /\ \A p \in DOMAIN v : v[p] \in Found
  BY <1>1 DEF ValueType, Paths, Steps
<1>3. ASSUME NEW p \in DOMAIN v, NEW k \in 0 .. Len(p) - 1
      PROVE  /\ Upto(p, k) \in DOMAIN v
             /\ \/ v[Upto(p, k)].kind = "object" /\ p[k + 1] \in Names
                \/ v[Upto(p, k)].kind = "array" /\ p[k + 1] \in Indices
  BY <1>1 DEF ValueType, Upto
<1>4. ASSUME NEW p \in DOMAIN v, NEW k \in 0 .. Len(p)
      PROVE  Upto(p, k) \in DOMAIN v
  <2>1. Len(p) \in Nat /\ Upto(p, Len(p)) = p
    <3>1. p \in Paths
      BY <1>2
    <3>2. Len(p) \in Nat
      BY <3>1, LenProperties DEF Paths
    <3> QED  BY <3>1, <3>2, UptoFacts
  <2>2. CASE k = Len(p)
    BY <2>1, <2>2
  <2>3. CASE k # Len(p)
    BY <1>3, <2>1, <2>3
  <2> QED  BY <2>2, <2>3
<1> QED
  BY <1>2, <1>3, <1>4

(* The children of what lies on the way to p.                              *)
LEMMA ChildrenFacts ==
  ASSUME value \in Values, NEW p \in DOMAIN value
  PROVE  /\ \A k \in 0 .. Len(p) - 1 : Upto(p, k + 1) \in Children(Upto(p, k))
         /\ \A q \in Children(p) : /\ q \in DOMAIN value /\ Len(q) = Len(p) + 1 /\ Len(p) \in Nat
                                   /\ Upto(q, Len(p)) = p
<1>1. p \in Paths /\ Len(p) \in Nat
  BY ValueFacts, LenProperties DEF Paths
<1>2. ASSUME NEW k \in 0 .. Len(p) - 1
      PROVE  Upto(p, k + 1) \in Children(Upto(p, k))
  <2>1. k \in 0 .. Len(p) /\ k + 1 \in 0 .. Len(p) /\ k \in 0 .. k + 1
    BY <1>1
  <2>2. Len(Upto(p, k)) = k /\ Len(Upto(p, k + 1)) = k + 1
    BY <1>1, <2>1, UptoFacts
  <2>3. Upto(Upto(p, k + 1), k) = Upto(p, k)
    BY <1>1, <2>1, UptoUpto
  <2>4. Upto(p, k + 1) \in DOMAIN value
    BY <2>1, ValueFacts
  <2>5. SubSeq(Upto(p, k + 1), 1, Len(Upto(p, k))) = Upto(p, k)
    BY <2>2, <2>3 DEF Upto
  <2> QED
    BY <2>2, <2>4, <2>5 DEF Children
<1>3. \A q \in Children(p) : q \in DOMAIN value /\ Len(q) = Len(p) + 1 /\ Upto(q, Len(p)) = p
  BY DEF Children, Upto
<1> QED
  BY <1>1, <1>2, <1>3

-----------------------------------------------------------------------------
(* What the author wrote, and its canonical form.                          *)

Known == {"string", "number", "boolean", "object", "array"}

(* The canonical node of a node.                                           *)
LEMMA CanonicalFields ==
  ASSUME NEW n \in Node
  PROVE  /\ CanonicalNode(n).type = IF LowerTrim[n.type] = "" THEN "object" ELSE LowerTrim[n.type]
         /\ CanonicalNode(n).required = {Trim[r] : r \in n.required} \ {""}
         /\ CanonicalNode(n).enum = n.enum
         /\ CanonicalNode(n).minimum = n.minimum /\ CanonicalNode(n).maximum = n.maximum
         /\ CanonicalNode(n).additional = "closed" <=>
              ~(\/ n.additional = "open"
                \/ n.additional = "nil" /\ LowerTrim[n.type] \notin {"", "object"})
<1>1. n.additional \in {"nil", "open", "closed"}
  BY DEF Node
<1> QED
  BY <1>1 DEF CanonicalNode, Node

(* validateJSONValue asks of a value what the author's node says.          *)
LEMMA FitsIsType ==
  ASSUME NEW n \in Node, NEW v \in Found
  PROVE  ValueFits(CanonicalNode(n), v) <=> OfItsType(n, v)
<1> DEFINE t == LowerTrim[n.type]
           c == CanonicalNode(n)
           B == WithinBounds(n, v.halves)
           E == n.enum # {} => v.kind = "string" /\ v.text \in n.enum
<1> SUFFICES ValueFits(c, v) <=> OfItsType(n, v)
  OBVIOUS
<1>1. v.kind \in Known \cup {"null"}
  BY DEF Found, Known
<1>2. /\ c.type = IF t = "" THEN "object" ELSE t
      /\ c.enum = n.enum
      /\ WithinBounds(c, v.halves) = B
  BY CanonicalFields DEF WithinBounds
<1> HIDE DEF c, B
<1>3. ValueFits(c, v) <=>
        /\ E
        /\ CASE c.type \in {"", "any"} -> TRUE
             [] c.type = "integer" -> v.kind = "number" /\ v.halves % 2 = 0 /\ B
             [] c.type = "number" -> v.kind = "number" /\ B
             [] c.type \in {"string", "boolean", "object", "array"} -> v.kind = c.type
             [] OTHER -> FALSE
  BY <1>2 DEF ValueFits
<1>4. OfItsType(n, v) <=>
        /\ \/ t = "any"
           \/ v.kind = t /\ t # "null"
           \/ t = "" /\ v.kind = "object"
           \/ t = "integer" /\ v.kind = "number" /\ v.halves % 2 = 0
        /\ E
        /\ t \in {"integer", "number"} => B
  BY DEF OfItsType, B
<1>0. E \in BOOLEAN /\ B \in BOOLEAN
  BY DEF E, B, WithinBounds
<1> HIDE DEF t, E
<1>5. CASE t = ""
  BY <1>0, <1>1, <1>2, <1>3, <1>4, <1>5 DEF Known
<1>6. CASE t = "any"
  BY <1>0, <1>1, <1>2, <1>3, <1>4, <1>6 DEF Known
<1>7. CASE t = "integer"
  BY <1>0, <1>1, <1>2, <1>3, <1>4, <1>7 DEF Known
<1>8. CASE t = "number"
  BY <1>0, <1>1, <1>2, <1>3, <1>4, <1>8 DEF Known
<1>9. CASE t \in {"string", "boolean", "object", "array"}
  BY <1>0, <1>1, <1>2, <1>3, <1>4, <1>9 DEF Known
<1>10. CASE t \notin {"", "any", "integer", "number", "string", "boolean", "object", "array"}
  BY <1>0, <1>1, <1>2, <1>3, <1>4, <1>10 DEF Known
<1> QED
  BY <1>5, <1>6, <1>7, <1>8, <1>9, <1>10

(* validateObject refuses exactly what the author's object does not take.  *)
LEMMA RefusesIsMissingOrUnknown ==
  ASSUME NEW S, IsSchema(S), NEW p, At(p) \in DOMAIN S
  PROVE  ObjectRefuses(Canonical(S), p) <=>
           ~ /\ \A r \in S[At(p)].required : Trim[r] = "" \/ Append(p, Trim[r]) \in DOMAIN value
             /\ OpenAt(S, p) \/ \A q \in Children(p) : At(q) \in DOMAIN S
<1> DEFINE n == S[At(p)]
           c == CanonicalNode(n)
<1>1. n \in Node
  BY DEF IsSchema
<1>2. Canonical(S)[At(p)] = c /\ DOMAIN Canonical(S) = DOMAIN S
  BY DEF Canonical
<1>3. /\ c.required = {Trim[r] : r \in n.required} \ {""}
      /\ c.additional = "closed" <=> ~OpenAt(S, p)
  BY <1>1, CanonicalFields DEF OpenAt
<1>4. (\E m \in c.required : Append(p, m) \notin DOMAIN value)
        <=> ~ \A r \in n.required : Trim[r] = "" \/ Append(p, Trim[r]) \in DOMAIN value
  BY <1>3
<1> HIDE DEF n, c
<1> QED
  BY <1>2, <1>3, <1>4 DEF ObjectRefuses, n

(* What the validator enters.                                              *)
Enters(S, p) == ObjectAt(S, p) \/ LowerTrim[S[At(p)].type] = "array"

(* What has the canonical type of an object or an array was so written.    *)
LEMMA EntersIsObjectOrArray ==
  ASSUME NEW S, IsSchema(S), NEW p, p # <<>>, At(p) \in DOMAIN S
  PROVE  /\ Canonical(S)[At(p)].type = "object" <=> ObjectAt(S, p)
         /\ Canonical(S)[At(p)].type \in {"object", "array"} <=> Enters(S, p)
<1>1. S[At(p)] \in Node
  BY DEF IsSchema
<1>2. Canonical(S)[At(p)] = CanonicalNode(S[At(p)])
  BY DEF Canonical
<1> DEFINE t == LowerTrim[S[At(p)].type]
           c == Canonical(S)[At(p)].type
<1>3. c = IF t = "" THEN "object" ELSE t
  <2>1. CanonicalNode(S[At(p)]).type = IF t = "" THEN "object" ELSE t
    BY <1>1, CanonicalFields
  <2> QED  BY <1>2, <2>1
<1>4. ObjectAt(S, p) <=> t = "object" \/ t = ""
  BY DEF ObjectAt, Untyped
<1>5. Enters(S, p) <=> t = "object" \/ t = "" \/ t = "array"
  BY <1>4 DEF Enters
<1> HIDE DEF t, c
<1>6. c = "object" <=> t = "object" \/ t = ""
  BY <1>3
<1>7. c = "array" <=> t = "array"
  BY <1>3
<1> QED
  BY <1>4, <1>5, <1>6, <1>7 DEF c

(* The validator's checks of one value, together.                          *)
LEMMA ChecksAreMeets ==
  ASSUME NEW S, IsSchema(S), value \in Values, NEW p \in DOMAIN value, At(p) \in DOMAIN S
  PROVE  LET C == Canonical(S)
         IN  /\ p = <<>> => (~ObjectRefuses(C, p) <=> Meets(S, p))
             /\ p # <<>> =>
                  ((/\ ValueFits(C[At(p)], value[p])
                    /\ C[At(p)].type = "object" => ~ObjectRefuses(C, p)) <=> Meets(S, p))
<1> DEFINE C == Canonical(S)
<1>1. S[At(p)] \in Node /\ C[At(p)] = CanonicalNode(S[At(p)])
  BY DEF IsSchema, Canonical
<1>2. value[p] \in Found
  BY ValueFacts
<1>3. ValueFits(C[At(p)], value[p]) <=> OfItsType(S[At(p)], value[p])
  BY <1>1, <1>2, FitsIsType
<1>4. ~ObjectRefuses(C, p) <=>
           /\ \A r \in S[At(p)].required : Trim[r] = "" \/ Append(p, Trim[r]) \in DOMAIN value
           /\ OpenAt(S, p) \/ \A q \in Children(p) : At(q) \in DOMAIN S
  BY RefusesIsMissingOrUnknown
<1>5. p # <<>> => (C[At(p)].type = "object" <=> ObjectAt(S, p))
  BY EntersIsObjectOrArray
<1>6. p = <<>> => ObjectAt(S, p)
  BY DEF ObjectAt
<1> HIDE DEF C
<1>7. Meets(S, p) <=> /\ p = <<>> \/ OfItsType(S[At(p)], value[p])
                      /\ ObjectAt(S, p) => ~ObjectRefuses(C, p)
  BY <1>4 DEF Meets
<1>8. p = <<>> => (~ObjectRefuses(C, p) <=> Meets(S, p))
  BY <1>6, <1>7
<1>9. p # <<>> => ((/\ ValueFits(C[At(p)], value[p])
                    /\ C[At(p)].type = "object" => ~ObjectRefuses(C, p)) <=> Meets(S, p))
  BY <1>3, <1>5, <1>7
<1> QED
  BY <1>8, <1>9 DEF C

-----------------------------------------------------------------------------
(* The walk.                                                               *)

Written == Adapted(definition)

(* p, or something on the way to it, has still to be visited.              *)
Ahead(p, P) == \E k \in 0 .. Len(p) : Upto(p, k) \in P

(* What the validator can come to, and what is as the author wants it.     *)
Near == {p \in DOMAIN value : Reached(Written, p)}
Fine == {p \in DOMAIN value : Meets(Written, p)}

(* All that the validator can come to is fine, except what is ahead.       *)
Walk ==
  /\ pending \subseteq Near
  /\ stage = "walking" \/ verdict = "allow" => \A p \in Near : p \in Fine \/ Ahead(p, pending)
  /\ verdict = "deny" => ~(Near \subseteq Fine)

WalkInv == IInv /\ Walk

(* What the contract and the author's schema have to do with each other.   *)
LEMMA ContractFacts ==
  ASSUME IInv
  PROVE  /\ IsSchema(Written)
         /\ value \in Values
         /\ stage # "defined" => contract = Canonical(Written) /\ DOMAIN contract = DOMAIN Written
<1>1. definition \in Definitions /\ value \in Values
  BY DEF IInv, TypeOK
<1>2. IsSchema(Written)
  BY <1>1, AdaptedIsSchema DEF Written
<1>3. stage # "defined" => contract = Canonical(Written)
  BY DEF IInv, ContractIsPublished, CanonicalSchema, Written
<1>4. DOMAIN Canonical(Written) = DOMAIN Written
  BY DEF Canonical
<1> QED
  BY <1>1, <1>2, <1>3, <1>4

(* A path is reached if it is described and everything on the way to it is *)
(* entered.                                                                *)
LEMMA ReachedFacts ==
  ASSUME NEW S, NEW p
  PROVE  Reached(S, p) <=>
           /\ At(p) \in DOMAIN S
           /\ \A k \in 0 .. Len(p) - 1 : At(Upto(p, k)) \in DOMAIN S /\ Enters(S, Upto(p, k))
BY DEF Reached, Upto, Enters

(* What is described of a value the validator enters is reached.           *)
LEMMA DescribedIsReached ==
  ASSUME value \in Values, NEW S, NEW C, DOMAIN C = DOMAIN S,
         NEW p \in DOMAIN value, Reached(S, p), Enters(S, p)
  PROVE  \A q \in Described(C, p) : Reached(S, q)
<1> SUFFICES ASSUME NEW q \in Described(C, p)
             PROVE  Reached(S, q)
  OBVIOUS
<1>1. q \in Children(p) /\ At(q) \in DOMAIN S
  BY DEF Described
<1>2. q \in DOMAIN value /\ Len(q) = Len(p) + 1 /\ Len(p) \in Nat /\ Upto(q, Len(p)) = p
  BY <1>1, ChildrenFacts
<1>3. ASSUME NEW k \in 0 .. Len(q) - 1
      PROVE  At(Upto(q, k)) \in DOMAIN S /\ Enters(S, Upto(q, k))
  <2>1. CASE k = Len(p)
    BY <1>2, <2>1, ReachedFacts
  <2>2. CASE k # Len(p)
    <3>1. k \in 0 .. Len(p) - 1 /\ Len(p) \in 0 .. Len(q) /\ k \in 0 .. Len(p)
      BY <1>2, <2>2
    <3>2. q \in Paths
      BY <1>2, ValueFacts
    <3>3. Upto(Upto(q, Len(p)), k) = Upto(q, k)
      BY <3>1, <3>2, UptoUpto
    <3> QED  BY <1>2, <3>1, <3>3, ReachedFacts
  <2> QED  BY <2>1, <2>2
<1> QED
  BY <1>1, <1>3, ReachedFacts

(* Entering a value that is as it should be replaces it by its parts.      *)
LEMMA EnteringGoesOn ==
  ASSUME value \in Values, NEW S, NEW C, DOMAIN C = DOMAIN S,
         NEW p \in DOMAIN value, Meets(S, p), NEW P,
         NEW r \in DOMAIN value, Reached(S, r), Meets(S, r) \/ Ahead(r, P)
  PROVE  Meets(S, r) \/ Ahead(r, (P \ {p}) \cup Described(C, p))
<1> SUFFICES ASSUME ~Meets(S, r), NEW k \in 0 .. Len(r), Upto(r, k) \in P
             PROVE  Ahead(r, (P \ {p}) \cup Described(C, p))
  BY DEF Ahead
<1>1. CASE Upto(r, k) # p
  BY <1>1 DEF Ahead
<1>2. CASE Upto(r, k) = p
  <2>1. r \in Paths /\ Len(r) \in Nat
    BY ValueFacts, LenProperties DEF Paths
  <2>2. k # Len(r)
    BY <1>2, <2>1, UptoFacts
  <2>3. k \in 0 .. Len(r) - 1 /\ k + 1 \in 0 .. Len(r)
    BY <2>1, <2>2
  <2>4. Upto(r, k + 1) \in Children(p)
    BY <1>2, <2>3, ChildrenFacts
  <2>5. At(Upto(r, k + 1)) \in DOMAIN S
    <3>1. CASE k + 1 = Len(r)
      <4>1. Upto(r, k + 1) = r
        BY <2>1, <2>3, <3>1, UptoFacts
      <4> QED  BY <4>1, ReachedFacts
    <3>2. CASE k + 1 # Len(r)
      <4>1. k + 1 \in 0 .. Len(r) - 1
        BY <2>1, <2>3, <3>2
      <4> QED  BY <4>1, ReachedFacts
    <3> QED  BY <3>1, <3>2
  <2>6. Upto(r, k + 1) \in Described(C, p)
    BY <2>4, <2>5 DEF Described
  <2> QED  BY <2>3, <2>6 DEF Ahead
<1> QED
  BY <1>1, <1>2

(* A value that has no parts the schema speaks of can be left.             *)
LEMMA AcceptingGoesOn ==
  ASSUME value \in Values, NEW S,
         NEW p \in DOMAIN value, Meets(S, p), ~Enters(S, p), NEW P,
         NEW r \in DOMAIN value, Reached(S, r), Meets(S, r) \/ Ahead(r, P)
  PROVE  Meets(S, r) \/ Ahead(r, P \ {p})
<1> SUFFICES ASSUME ~Meets(S, r), NEW k \in 0 .. Len(r), Upto(r, k) \in P
             PROVE  Ahead(r, P \ {p})
  BY DEF Ahead
<1>1. CASE Upto(r, k) # p
  BY <1>1 DEF Ahead
<1>2. CASE Upto(r, k) = p
  <2>1. r \in Paths /\ Len(r) \in Nat
    BY ValueFacts, LenProperties DEF Paths
  <2>2. k # Len(r)
    BY <1>2, <2>1, UptoFacts
  <2>3. k \in 0 .. Len(r) - 1
    BY <2>1, <2>2
  <2> QED  BY <1>2, <2>3, ReachedFacts
<1> QED
  BY <1>1, <1>2

(* After the root everything below it is ahead.                            *)
LEMMA RootGoesOn ==
  ASSUME value \in Values, NEW S, NEW C, DOMAIN C = DOMAIN S, Meets(S, <<>>),
         NEW r \in DOMAIN value, Reached(S, r)
  PROVE  Meets(S, r) \/ Ahead(r, Described(C, <<>>))
<1> DEFINE P == {<<>>}
<1>1. <<>> \in DOMAIN value /\ r \in Paths /\ Len(r) \in Nat
  BY ValueFacts, LenProperties DEF Paths
<1>2. Ahead(r, P)
  <2>1. 0 \in 0 .. Len(r) /\ Upto(r, 0) = <<>>
    BY <1>1, UptoFacts
  <2> QED  BY <2>1 DEF Ahead
<1>3. (P \ {<<>>}) \cup Described(C, <<>>) = Described(C, <<>>)
  OBVIOUS
<1> HIDE DEF P
<1>4. Meets(S, r) \/ Ahead(r, (P \ {<<>>}) \cup Described(C, <<>>))
  BY <1>1, <1>2, EnteringGoesOn
<1> QED
  BY <1>3, <1>4

(* Nothing of this changes as the validator goes on.                       *)
LEMMA SameQuestion ==
  ASSUME UNCHANGED <<definition, value>>
  PROVE  Near' = Near /\ Fine' = Fine /\ Written' = Written
<1>1. Written' = Written
  BY DEF Written, Adapted
<1>2. Near' = Near
  BY <1>1 DEF Near
<1>3. Fine' = {p \in DOMAIN value : Meets(Written, p)}
  BY <1>1 DEF Fine, Meets, Children
<1> QED
  BY <1>1, <1>2, <1>3 DEF Fine

(* The walk goes on with what is ahead, or ends when nothing is.           *)
LEMMA ProceedKeepsWalk ==
  ASSUME WalkInv, NEW next, next \subseteq Near, Proceed(next), verdict = "none",
         \A p \in Near : p \in Fine \/ Ahead(p, next)
  PROVE  Walk'
<1>1. Near' = Near /\ Fine' = Fine
  BY SameQuestion DEF Proceed
<1>2. CASE next = {}
  <2>1. pending' = next /\ verdict' = "allow"
    BY <1>2 DEF Proceed, Finish
  <2> QED  BY <1>1, <2>1 DEF Walk, Ahead
<1>3. CASE next # {}
  <2>1. pending' = next /\ verdict' = "none"
    BY <1>3 DEF Proceed
  <2> QED  BY <1>1, <2>1 DEF Walk, Ahead
<1> QED
  BY <1>2, <1>3

(* A refusal has its reason.                                               *)
LEMMA RefusalKeepsWalk ==
  ASSUME WalkInv, Finish("deny"), UNCHANGED <<definition, value>>, ~(Near \subseteq Fine)
  PROVE  Walk'
<1>1. Near' = Near /\ Fine' = Fine
  BY SameQuestion
<1>2. pending' = {} /\ verdict' = "deny" /\ stage' = "done"
  BY DEF Finish
<1> QED
  BY <1>1, <1>2 DEF Walk

(* Each visit of the validator keeps the walk what it is.                  *)
LEMMA VisitKeepsWalk ==
  ASSUME WalkInv, NEW p \in pending, ValidateJSONValue(p)
  PROVE  Walk'
<1>1. /\ p \in DOMAIN value /\ p # <<>> /\ p \in Near
      /\ stage = "walking" /\ verdict = "none" /\ pending \subseteq Near
  BY DEF WalkInv, IInv, TypeOK, Walk
<1>2. /\ IsSchema(Written) /\ value \in Values
      /\ contract = Canonical(Written) /\ DOMAIN contract = DOMAIN Written
  BY <1>1, ContractFacts DEF WalkInv
<1>3. Reached(Written, p) /\ At(p) \in DOMAIN Written
  BY <1>1 DEF Near, Reached
<1>4. (/\ ValueFits(contract[At(p)], value[p])
       /\ contract[At(p)].type = "object" => ~ObjectRefuses(contract, p)) <=> Meets(Written, p)
  BY <1>1, <1>2, <1>3, ChecksAreMeets
<1>5. /\ contract[At(p)].type \in {"object", "array"} <=> Enters(Written, p)
  BY <1>1, <1>2, <1>3, EntersIsObjectOrArray
<1>6. ASSUME NEW r \in Near
      PROVE  r \in DOMAIN value /\ Reached(Written, r) /\ (Meets(Written, r) \/ Ahead(r, pending))
  BY <1>1 DEF WalkInv, Walk, Near, Fine
<1>7. CASE RefuseValue(p)
  <2>1. ~Meets(Written, p)
    BY <1>4, <1>7 DEF RefuseValue
  <2>2. ~(Near \subseteq Fine)
    BY <1>1, <2>1 DEF Fine
  <2> QED  BY <1>7, <2>2, RefusalKeepsWalk DEF RefuseValue, Refuse
<1>8. CASE AcceptValue(p)
  <2> DEFINE next == pending \ {p}
  <2>1. Meets(Written, p) /\ ~Enters(Written, p) /\ Proceed(next)
    BY <1>4, <1>5, <1>8 DEF AcceptValue
  <2>2. next \subseteq Near
    BY <1>1
  <2>3. ASSUME NEW r \in Near PROVE r \in Fine \/ Ahead(r, next)
    <3>1. Meets(Written, r) \/ Ahead(r, next)
      BY <1>1, <1>2, <1>6, <2>1, AcceptingGoesOn
    <3> QED  BY <1>6, <3>1 DEF Fine
  <2> HIDE DEF next
  <2> QED  BY <1>1, <2>1, <2>2, <2>3, ProceedKeepsWalk
<1>9. CASE EnterValue(p)
  <2> DEFINE next == (pending \ {p}) \cup Described(contract, p)
  <2>1. Meets(Written, p) /\ Enters(Written, p) /\ Proceed(next)
    BY <1>4, <1>5, <1>9 DEF EnterValue
  <2>2. next \subseteq Near
    <3>1. \A q \in Described(contract, p) : Reached(Written, q)
      BY <1>1, <1>2, <1>3, <2>1, DescribedIsReached
    <3>2. Described(contract, p) \subseteq DOMAIN value
      BY DEF Described, Children
    <3> QED  BY <1>1, <3>1, <3>2 DEF Near
  <2>3. ASSUME NEW r \in Near PROVE r \in Fine \/ Ahead(r, next)
    <3>1. Meets(Written, r) \/ Ahead(r, next)
      BY <1>1, <1>2, <1>6, <2>1, EnteringGoesOn
    <3> QED  BY <1>6, <3>1 DEF Fine
  <2> HIDE DEF next
  <2> QED  BY <1>1, <2>1, <2>2, <2>3, ProceedKeepsWalk
<1> QED
  BY <1>7, <1>8, <1>9 DEF ValidateJSONValue

(* So does the visit of the root.                                          *)
LEMMA RootKeepsWalk ==
  ASSUME WalkInv, ValidateSchema
  PROVE  Walk'
<1>1. stage = "registered" /\ verdict = "none"
  BY DEF WalkInv, IInv, TypeOK, ValidateSchema
<1>2. /\ IsSchema(Written) /\ value \in Values
      /\ contract = Canonical(Written) /\ DOMAIN contract = DOMAIN Written
  BY <1>1, ContractFacts DEF WalkInv
<1>3. contract' = contract
  BY CanonicalTwice DEF ValidateSchema, WalkInv, IInv, TypeOK
<1>4. /\ <<>> \in DOMAIN value /\ Len(<<>>) = 0
      /\ At(<<>>) = <<>> /\ <<>> \in DOMAIN Written
  BY <1>2, ValueFacts DEF At, IsSchema
<1>5. Reached(Written, <<>>) /\ Enters(Written, <<>>)
  <2>1. 0 .. Len(<<>>) - 1 = {}
    BY <1>4
  <2> QED  BY <1>4, <2>1 DEF Reached, Enters, ObjectAt
<1>6. ~ObjectRefuses(contract, <<>>) <=> Meets(Written, <<>>)
  BY <1>2, <1>4, ChecksAreMeets
<1>7. CASE ObjectRefuses(contract, <<>>)
  <2>1. <<>> \in Near /\ <<>> \notin Fine
    BY <1>4, <1>5, <1>6, <1>7 DEF Near, Fine
  <2> QED  BY <1>3, <1>7, <2>1, RefusalKeepsWalk DEF ValidateSchema
<1>8. CASE ~ObjectRefuses(contract, <<>>)
  <2> DEFINE next == Described(contract, <<>>)
  <2>1. Meets(Written, <<>>)
    BY <1>6, <1>8
  <2>2. Proceed(next)
    BY <1>3, <1>8 DEF ValidateSchema
  <2>3. next \subseteq Near
    <3>1. \A q \in Described(contract, <<>>) : Reached(Written, q)
      BY <1>2, <1>4, <1>5, DescribedIsReached
    <3>2. Described(contract, <<>>) \subseteq DOMAIN value
      BY DEF Described, Children
    <3> QED  BY <3>1, <3>2 DEF Near
  <2>4. ASSUME NEW r \in Near PROVE r \in Fine \/ Ahead(r, next)
    <3>1. r \in DOMAIN value /\ Reached(Written, r)
      BY DEF Near
    <3>2. Meets(Written, r) \/ Ahead(r, next)
      BY <1>2, <2>1, <3>1, RootGoesOn
    <3> QED  BY <3>1, <3>2 DEF Fine
  <2> HIDE DEF next
  <2> QED  BY <1>1, <2>2, <2>3, <2>4, ProceedKeepsWalk
<1> QED
  BY <1>7, <1>8

(* Nothing is pending before the walk.                                     *)
LEMMA WalkInit == Init => WalkInv
BY InitEstablishes DEF Init, WalkInv, Walk

(* Every step of the program keeps the walk what it is.                    *)
LEMMA WalkNext == WalkInv /\ [Next]_vars => WalkInv'
<1> SUFFICES ASSUME WalkInv, [Next]_vars PROVE WalkInv'
  OBVIOUS
<1>1. IInv'
  BY StepPreserves DEF WalkInv
<1>2. CASE Register
  <2>1. pending' = {} /\ verdict' = "none" /\ stage' = "registered"
    BY <1>2 DEF Register, WalkInv, IInv, TypeOK
  <2> QED  BY <1>1, <2>1 DEF WalkInv, Walk
<1>3. CASE ValidateSchema
  BY <1>1, <1>3, RootKeepsWalk DEF WalkInv
<1>4. CASE \E p \in pending : ValidateJSONValue(p)
  BY <1>1, <1>4, VisitKeepsWalk DEF WalkInv
<1>5. CASE UNCHANGED vars
  <2>1. Near' = Near /\ Fine' = Fine /\ UNCHANGED <<pending, stage, verdict>>
    BY <1>5, SameQuestion DEF vars
  <2> QED  BY <1>1, <2>1 DEF WalkInv, Walk, Ahead
<1> QED
  BY <1>2, <1>3, <1>4, <1>5 DEF Next, Done

(* An answer is yes if and only if all the validator can come to is fine.  *)
LEMMA AnswerIsConforms ==
  ASSUME WalkInv, stage = "done"
  PROVE  verdict \in {"allow", "deny"} /\ (verdict = "allow" <=> Conforms(Written))
<1>1. verdict \in {"allow", "deny"} /\ pending = {}
  BY DEF WalkInv, IInv, TypeOK
<1>2. Conforms(Written) <=> Near \subseteq Fine
  BY DEF Conforms, Near, Fine
<1>3. verdict = "allow" => Near \subseteq Fine
  BY <1>1 DEF WalkInv, Walk, Ahead
<1>4. verdict = "deny" => ~(Near \subseteq Fine)
  BY DEF WalkInv, Walk
<1> QED
  BY <1>1, <1>2, <1>3, <1>4

-----------------------------------------------------------------------------
(* Definitions in the legacy format.                                       *)

(* The root and its children.                                              *)
LEMMA RootFacts ==
  ASSUME value \in Values
  PROVE  /\ <<>> \in DOMAIN value /\ At(<<>>) = <<>>
         /\ \A S : <<>> \in DOMAIN S => Reached(S, <<>>)
         /\ \A q \in Children(<<>>) : q \in DOMAIN value /\ Len(q) = 1 /\ q[1] \in Names
                                      /\ At(q)[1] = q[1]
         /\ \A a \in Names : At(<<a>>) = <<a>> /\ Append(<<>>, a) = <<a>>
         /\ \A a : <<a>> \in DOMAIN value => a \in Names /\ Upto(<<a>>, 0) = <<>>
<1>1. <<>> \in DOMAIN value /\ At(<<>>) = <<>> /\ Len(<<>>) = 0 /\ value[<<>>].kind = "object"
  BY ValueFacts DEF At
<1>2. \A S : <<>> \in DOMAIN S => Reached(S, <<>>)
  <2>1. 0 .. Len(<<>>) - 1 = {}
    BY <1>1
  <2> QED  BY <1>1, <2>1 DEF Reached
<1>3. ASSUME NEW q \in DOMAIN value, Len(q) = 1
      PROVE  q[1] \in Names /\ Upto(q, 0) = <<>> /\ q[1] \notin Indices /\ DOMAIN q = 1 .. 1
  <2>1. q \in Paths
    BY ValueFacts
  <2>2. 0 \in 0 .. Len(q) /\ 0 \in 0 .. Len(q) - 1 /\ 0 + 1 = 1
    BY <1>3
  <2>3. Upto(q, 0) = <<>>
    BY <2>1, <2>2, UptoFacts
  <2>4. q[1] \in Names
    BY <1>1, <2>2, <2>3, ValueFacts
  <2>5. DOMAIN q = 1 .. Len(q)
    BY <2>1, LenProperties DEF Paths
  <2> QED  BY <1>3, <2>3, <2>4, <2>5, SchemaRulesAssumption
<1>4. ASSUME NEW q \in Children(<<>>)
      PROVE  q \in DOMAIN value /\ Len(q) = 1 /\ q[1] \in Names /\ At(q)[1] = q[1]
  <2>1. q \in DOMAIN value /\ Len(q) = 1
    BY <1>1 DEF Children
  <2>2. q[1] \in Names /\ q[1] \notin Indices /\ DOMAIN q = 1 .. 1
    BY <1>3, <2>1
  <2>3. At(q)[1] = IF q[1] \in Indices THEN Items ELSE q[1]
    BY <2>2 DEF At
  <2> QED  BY <2>1, <2>2, <2>3
<1>5. ASSUME NEW a \in Names
      PROVE  At(<<a>>) = <<a>> /\ Append(<<>>, a) = <<a>>
  <2>1. a \notin Indices
    BY SchemaRulesAssumption
  <2> QED  BY <2>1 DEF At
<1>6. ASSUME NEW a, <<a>> \in DOMAIN value
      PROVE  a \in Names /\ Upto(<<a>>, 0) = <<>>
  <2>1. Len(<<a>>) = 1 /\ <<a>>[1] = a
    OBVIOUS
  <2> QED  BY <1>3, <1>6, <2>1
<1> QED
  BY <1>1, <1>2, <1>4, <1>5, <1>6

(* A legacy definition without keywords: what each of its texts stands for,*)
(* and which of them are required.                                         *)
LEMMA LegacyIsObject ==
  ASSUME definition \in Definitions, definition.form = "legacy", ~IsStructured(definition.entries)
  PROVE  LET E == definition.entries
             S == Written
         IN  /\ DOMAIN E \subseteq Names
             /\ E \in [DOMAIN E -> Entry]
             /\ DOMAIN S = {<<>>} \cup {<<a>> : a \in DOMAIN E}
             /\ S[<<>>].additional = "closed"
             /\ S[<<>>].required =
                  {a \in DOMAIN E : E[a].form = "text" /\ "optional" \notin E[a].words}
             /\ \A a \in DOMAIN E : E[a].form = "text" => S[<<a>>] = LegacyProperty(E[a])
<1> DEFINE E == definition.entries
           Property(e) == CASE e.form = "text" -> LegacyProperty(e)
                            [] e.form = "schema" -> e.node
                            [] OTHER -> [Blank EXCEPT !.type = "string"]
           F == [a \in DOMAIN E |-> Property(E[a])]
           R == {a \in DOMAIN E : E[a].form = "text" /\ "optional" \notin E[a].words}
           root == [Blank EXCEPT !.type = "object", !.additional = "closed", !.required = R]
<1>1. E \in [DOMAIN E -> Entry] /\ DOMAIN E \subseteq Names
  <2>1. DefinitionType(definition)
    BY SchemaRulesAssumption
  <2> QED  BY <2>1 DEF DefinitionType, IsStructured
<1>2. Written = ObjectSchema(F, R)
  BY DEF Written, Adapted
<1>3. \A a \in DOMAIN E : E[a].form = "text" => F[a] = LegacyProperty(E[a])
  OBVIOUS
<1>4. root.additional = "closed" /\ root.required = R
  BY DEF Blank
<1>5. Written = [p \in {<<>>} \cup {<<a>> : a \in DOMAIN F} |-> IF p = <<>> THEN root ELSE F[p[1]]]
  BY <1>2 DEF ObjectSchema
<1>6. DOMAIN F = DOMAIN E
  OBVIOUS
<1> HIDE DEF F, root, R, E
<1>7. DOMAIN Written = {<<>>} \cup {<<a>> : a \in DOMAIN E} /\ Written[<<>>] = root
  BY <1>5, <1>6
<1>8. ASSUME NEW a \in DOMAIN E PROVE Written[<<a>>] = F[a]
  BY <1>5, <1>6
<1> QED
  BY <1>1, <1>3, <1>4, <1>7, <1>8 DEF E, R

(* What legacyProperty makes of a text is what the text says.              *)
LEMMA TextIsType ==
  ASSUME NEW e \in Entry, e.form = "text", NEW v \in Found, OfItsType(LegacyProperty(e), v)
  PROVE  /\ IF e.words \cap {"integer", "number"} # {} THEN v.kind = "number"
            ELSE v.kind = IF "boolean" \in e.words THEN "boolean" ELSE "string"
         /\ "integer" \in e.words => v.halves % 2 = 0
         /\ e.choices # {} => v.kind = "string" /\ v.text \in e.choices
<1> DEFINE t == IF "integer" \in e.words THEN "integer"
                ELSE IF "number" \in e.words THEN "number"
                ELSE IF "boolean" \in e.words THEN "boolean"
                ELSE "string"
           n == LegacyProperty(e)
           both == e.words \cap {"integer", "number"}
<1>1. n.enum = e.choices /\ n.type = t
  BY DEF LegacyProperty, Blank
<1>2. t \in {"integer", "number", "boolean", "string"}
  OBVIOUS
<1>3. LowerTrim[t] = t
  BY <1>2, SchemaRulesAssumption
<1>4. v.kind # "integer"
  BY DEF Found
<1>5. /\ \/ v.kind = t
         \/ t = "integer" /\ v.kind = "number" /\ v.halves % 2 = 0
      /\ e.choices # {} => v.kind = "string" /\ v.text \in e.choices
  BY <1>1, <1>2, <1>3 DEF OfItsType
<1> HIDE DEF n
<1>6. CASE "integer" \in e.words
  <2>1. t = "integer"
    BY <1>6
  <2>2. both # {}
    <3>1. "integer" \in both
      BY <1>6
    <3> HIDE DEF both
    <3> QED  BY <3>1
  <2> HIDE DEF t
  <2> QED  BY <1>4, <1>5, <1>6, <2>1, <2>2
<1>7. CASE "integer" \notin e.words /\ "number" \in e.words
  <2>1. t = "number"
    BY <1>7
  <2>2. both # {}
    <3>1. "number" \in both
      BY <1>7
    <3> HIDE DEF both
    <3> QED  BY <3>1
  <2> HIDE DEF t
  <2> QED  BY <1>5, <1>7, <2>1, <2>2
<1>8. CASE "integer" \notin e.words /\ "number" \notin e.words
  <2>1. /\ e.words \cap {"integer", "number"} = {}
        /\ t = IF "boolean" \in e.words THEN "boolean" ELSE "string"
    BY <1>8
  <2>2. t # "integer"
    BY <2>1
  <2> HIDE DEF t
  <2> QED  BY <1>5, <1>8, <2>1, <2>2
<1> QED
  BY <1>6, <1>7, <1>8

(* A call that conforms to the schema conforms to the legacy text.         *)
LEMMA LegacyConforms ==
  ASSUME definition \in Definitions, value \in Values, Conforms(Written),
         definition.form = "legacy", ~IsStructured(definition.entries)
  PROVE  ConformsToLegacy(definition.entries)
<1> DEFINE E == definition.entries
           S == Written
<1>1. /\ DOMAIN E \subseteq Names
      /\ E \in [DOMAIN E -> Entry]
      /\ DOMAIN S = {<<>>} \cup {<<a>> : a \in DOMAIN E}
      /\ S[<<>>].additional = "closed"
      /\ S[<<>>].required = {a \in DOMAIN E : E[a].form = "text" /\ "optional" \notin E[a].words}
      /\ \A a \in DOMAIN E : E[a].form = "text" => S[<<a>>] = LegacyProperty(E[a])
  BY LegacyIsObject
<1> HIDE DEF E, S
<1>2. Meets(S, <<>>) /\ ObjectAt(S, <<>>) /\ ~OpenAt(S, <<>>) /\ At(<<>>) = <<>>
  <2>1. Meets(S, <<>>) /\ At(<<>>) = <<>>
    BY <1>1, RootFacts DEF Conforms, S
  <2> QED  BY <1>1, <2>1 DEF ObjectAt, OpenAt
<1>3. ASSUME NEW q \in Children(<<>>) PROVE q[1] \in DOMAIN E
  <2>1. At(q) \in DOMAIN S /\ At(q)[1] = q[1] /\ q \in DOMAIN value /\ Len(q) = 1
    BY <1>2, RootFacts DEF Meets
  <2>2. At(q) # <<>>
    <3>1. q \in Paths
      BY <2>1, ValueFacts
    <3>2. q \in Seq(Steps) /\ Len(q) = 1
      BY <2>1, <3>1 DEF Paths
    <3>3. DOMAIN q = 1 .. 1
      BY <3>2, LenProperties
    <3>4. DOMAIN At(q) = DOMAIN q
      BY DEF At
    <3>5. 1 \in DOMAIN At(q)
      BY <3>3, <3>4
    <3> QED  BY <3>5
  <2>3. PICK a \in DOMAIN E : At(q) = <<a>>
    BY <1>1, <2>1, <2>2
  <2> QED  BY <2>1, <2>3
<1>4. ASSUME NEW a \in DOMAIN E, E[a].form = "text", "optional" \notin E[a].words
      PROVE  Trim[a] = "" \/ <<Trim[a]>> \in DOMAIN value
  <2>1. a \in S[<<>>].required
    BY <1>1, <1>4
  <2>2. Trim[a] = "" \/ Append(<<>>, Trim[a]) \in DOMAIN value
    BY <1>2, <2>1 DEF Meets
  <2>3. Append(<<>>, Trim[a]) = <<Trim[a]>>
    OBVIOUS
  <2> QED  BY <2>2, <2>3
<1>5. ASSUME NEW a \in DOMAIN E, <<a>> \in DOMAIN value, E[a].form = "text"
      PROVE  OfItsType(LegacyProperty(E[a]), value[<<a>>]) /\ value[<<a>>] \in Found /\ E[a] \in Entry
  <2>1. a \in Names /\ At(<<a>>) = <<a>> /\ Upto(<<a>>, 0) = <<>>
    BY <1>5, RootFacts
  <2>2. Reached(S, <<a>>)
    <3>1. \A k \in 0 .. Len(<<a>>) - 1 : k = 0
      OBVIOUS
    <3>2. At(<<a>>) \in DOMAIN S /\ <<>> \in DOMAIN S
      BY <1>1, <2>1
    <3>3. SubSeq(<<a>>, 1, 0) = <<>>
      BY <2>1 DEF Upto
    <3> QED  BY <1>2, <3>1, <3>2, <3>3 DEF Reached
  <2>3. Meets(S, <<a>>)
    BY <1>5, <2>2 DEF Conforms, S
  <2>4. <<a>> # <<>>
    OBVIOUS
  <2>5. OfItsType(S[At(<<a>>)], value[<<a>>])
    BY <2>3, <2>4 DEF Meets
  <2>6. S[At(<<a>>)] = LegacyProperty(E[a])
    BY <1>1, <1>5, <2>1
  <2>7. value[<<a>>] \in Found
    BY <1>5, ValueFacts
  <2> QED  BY <1>1, <2>5, <2>6, <2>7
<1>6. ASSUME NEW a \in DOMAIN E, <<a>> \in DOMAIN value, E[a].form = "text"
      PROVE  LET v == value[<<a>>] e == E[a]
             IN  /\ IF e.words \cap {"integer", "number"} # {} THEN v.kind = "number"
                    ELSE v.kind = IF "boolean" \in e.words THEN "boolean" ELSE "string"
                 /\ "integer" \in e.words => v.halves % 2 = 0
                 /\ e.choices # {} => v.kind = "string" /\ v.text \in e.choices
  BY <1>5, <1>6, TextIsType
<1>7. ConformsToLegacy(E)
  BY <1>3, <1>4, <1>6 DEF ConformsToLegacy
<1> QED
  BY <1>7 DEF E

-----------------------------------------------------------------------------
(* Arguments nobody declared.                                              *)

(* A value that is as its author wants it and has parts is an object or an *)
(* array, and what it is decides what its parts are called.                *)
LEMMA PartsHaveHolders ==
  ASSUME value \in Values, NEW S, IsSchema(S), NEW p \in DOMAIN value, NEW k \in 0 .. Len(p) - 1,
         At(Upto(p, k)) \in DOMAIN S, Meets(S, Upto(p, k)),
         LowerTrim[S[At(Upto(p, k))].type] # "any"
  PROVE  /\ Enters(S, Upto(p, k))
         /\ ~ObjectAt(S, Upto(p, k)) => p[k + 1] \in Indices
<1> DEFINE q == Upto(p, k)
           n == S[At(q)]
           t == LowerTrim[n.type]
           v == value[q]
<1>1. \/ v.kind = "object" /\ p[k + 1] \in Names
      \/ v.kind = "array" /\ p[k + 1] \in Indices
  BY ValueFacts
<1>2. CASE q = <<>>
  BY <1>2 DEF Enters, ObjectAt
<1>3. CASE q # <<>>
  <2>1. \/ t = "any"
        \/ v.kind = t
        \/ t = "" /\ v.kind = "object"
        \/ v.kind = "number"
    BY <1>3 DEF Meets, OfItsType
  <2>2. t # "any"
    OBVIOUS
  <2>3. ObjectAt(S, q) <=> t = "object" \/ t = ""
    BY <1>3 DEF ObjectAt, Untyped
  <2>4. Enters(S, q) <=> ObjectAt(S, q) \/ t = "array"
    BY DEF Enters
  <2> HIDE DEF q, v, t, n
  <2>5. Enters(S, q) /\ (~ObjectAt(S, q) => p[k + 1] \in Indices)
    BY <1>1, <2>1, <2>2, <2>3, <2>4
  <2> QED  BY <2>5 DEF q
<1> QED
  BY <1>2, <1>3

(* In a call that conforms, whatever is not declared is left open by       *)
(* something the author wrote around it: the last thing described on the   *)
(* way to it.                                                              *)
LEMMA UndeclaredIsOpen ==
  ASSUME value \in Values, NEW S, IsSchema(S), Conforms(S),
         NEW p \in DOMAIN value, At(p) \notin DOMAIN S
  PROVE  \E k \in 0 .. Len(p) - 1 : At(Upto(p, k)) \in DOMAIN S /\ LeavesOpen(S, Upto(p, k))
<1> DEFINE Declared(k) == At(Upto(p, k)) \in DOMAIN S
           T == {k \in 0 .. Len(p) : ~Declared(k)}
<1>1. p \in Paths /\ Len(p) \in Nat /\ Upto(p, Len(p)) = p
  <2>1. p \in Paths /\ Len(p) \in Nat
    BY ValueFacts, LenProperties DEF Paths
  <2> QED  BY <2>1, UptoFacts
<1>2. PICK m \in T : \A k \in T : m <= k
  <2>1. T \subseteq Nat /\ T # {}
    BY <1>1
  <2> HIDE DEF T
  <2> QED  BY <2>1, LeastMember
<1>3. m \in 1 .. Len(p)
  <2>1. Declared(0)
    BY <1>1, UptoFacts, RootFacts DEF IsSchema
  <2> QED  BY <1>1, <1>2, <2>1
<1>4. \A k \in 0 .. m - 1 : Declared(k)
  BY <1>1, <1>2, <1>3
<1>5. ASSUME NEW k \in 0 .. m - 1, \A j \in 0 .. k - 1 : Enters(S, Upto(p, j))
      PROVE  Upto(p, k) \in DOMAIN value /\ Meets(S, Upto(p, k))
  <2>1. k \in 0 .. Len(p)
    BY <1>1, <1>3
  <2>2. Upto(p, k) \in DOMAIN value /\ Len(Upto(p, k)) = k
    BY <1>1, <2>1, ValueFacts, UptoFacts
  <2>3. ASSUME NEW j \in 0 .. k - 1
        PROVE  At(Upto(Upto(p, k), j)) \in DOMAIN S /\ Enters(S, Upto(Upto(p, k), j))
    <3>1. j \in 0 .. k /\ j \in 0 .. m - 1
      OBVIOUS
    <3>2. Upto(Upto(p, k), j) = Upto(p, j)
      BY <1>1, <2>1, <3>1, UptoUpto
    <3> QED  BY <1>4, <1>5, <3>1, <3>2
  <2>4. Reached(S, Upto(p, k))
    BY <1>4, <2>2, <2>3, ReachedFacts
  <2> QED  BY <2>2, <2>4 DEF Conforms
<1>6. CASE \A k \in 0 .. m - 1 : Enters(S, Upto(p, k))
  <2> DEFINE k == m - 1
             q == Upto(p, k)
  <2>1. k \in 0 .. m - 1 /\ k \in 0 .. Len(p) - 1 /\ k + 1 = m
    BY <1>1, <1>3
  <2>2. Meets(S, q) /\ q \in DOMAIN value /\ At(q) \in DOMAIN S
    BY <1>4, <1>5, <1>6, <2>1
  <2>3. Upto(p, m) \in Children(q) /\ At(Upto(p, m)) \notin DOMAIN S
    BY <1>2, <2>1, ChildrenFacts
  <2>4. LeavesOpen(S, q)
    <3>1. CASE ObjectAt(S, q)
      BY <2>2, <2>3, <3>1 DEF Meets, LeavesOpen
    <3>2. CASE ~ObjectAt(S, q) /\ LowerTrim[S[At(q)].type] # "any"
      <4>1. p[m] \in Indices
        BY <2>1, <2>2, <3>2, PartsHaveHolders
      <4>2. LowerTrim[S[At(q)].type] = "array"
        BY <1>6, <2>1, <3>2 DEF Enters
      <4>3. At(Upto(p, m)) = Append(At(q), Items)
        BY <1>1, <1>3, <4>1, PlaceOfElement
      <4> QED  BY <2>3, <4>2, <4>3 DEF LeavesOpen
    <3>3. CASE LowerTrim[S[At(q)].type] = "any"
      BY <3>3 DEF LeavesOpen
    <3> QED  BY <3>1, <3>2, <3>3
  <2> QED  BY <2>1, <2>2, <2>4
<1>7. CASE \E k \in 0 .. m - 1 : ~Enters(S, Upto(p, k))
  <2> DEFINE U == {k \in 0 .. m - 1 : ~Enters(S, Upto(p, k))}
  <2>1. PICK k \in U : \A j \in U : k <= j
    <3>1. U \subseteq Nat /\ U # {}
      BY <1>7
    <3> HIDE DEF U
    <3> QED  BY <3>1, LeastMember
  <2>2. k \in 0 .. m - 1 /\ k \in 0 .. Len(p) - 1 /\ ~Enters(S, Upto(p, k))
    BY <1>1, <1>3, <2>1
  <2>3. \A j \in 0 .. k - 1 : Enters(S, Upto(p, j))
    BY <2>1, <2>2
  <2>4. Meets(S, Upto(p, k)) /\ At(Upto(p, k)) \in DOMAIN S
    BY <1>4, <1>5, <2>2, <2>3
  <2>5. LowerTrim[S[At(Upto(p, k))].type] = "any"
    BY <2>2, <2>4, PartsHaveHolders
  <2> QED  BY <2>2, <2>4, <2>5 DEF LeavesOpen
<1> QED
  BY <1>6, <1>7

-----------------------------------------------------------------------------

(* A call is allowed if and only if it conforms to what the author of the  *)
(* tool wrote, for any definition and any arguments, of any depth, and     *)
(* whatever order the validator takes.                                     *)
THEOREM VerdictsAreConformance == Spec => []VerdictIsConformance
<1>1. ASSUME WalkInv PROVE VerdictIsConformance
  <2> DEFINE d == definition
             legacy == d.form = "legacy" /\ DOMAIN d.entries \cap Keywords = {}
  <2>1. SUFFICES ASSUME stage = "done"
                 PROVE  verdict = "allow" <=> /\ Conforms(Adapted(d))
                                              /\ legacy => ConformsToLegacy(d.entries)
    BY DEF VerdictIsConformance
  <2>2. verdict = "allow" <=> Conforms(Adapted(d))
    BY <1>1, <2>1, AnswerIsConforms DEF Written
  <2>3. d \in Definitions /\ value \in Values
    BY <1>1 DEF WalkInv, IInv, TypeOK
  <2>4. Conforms(Adapted(d)) /\ legacy => ConformsToLegacy(d.entries)
    BY <2>3, LegacyConforms DEF Written, IsStructured
  <2> QED  BY <2>2, <2>4
<1> QED
  BY <1>1, WalkInit, WalkNext, PTL DEF Spec

(* No argument of an allowed call has escaped its author: it is declared,  *)
(* or something around it was left open.                                   *)
THEOREM AcceptedAreDeclared == Spec => []AcceptedIsDeclared
<1>1. ASSUME WalkInv PROVE AcceptedIsDeclared
  <2>1. SUFFICES ASSUME verdict = "allow", NEW p \in DOMAIN value, At(p) \notin DOMAIN Written
                 PROVE  \E k \in 0 .. Len(p) - 1 : /\ At(Upto(p, k)) \in DOMAIN Written
                                                   /\ LeavesOpen(Written, Upto(p, k))
    BY DEF AcceptedIsDeclared, Written, Upto
  <2>2. stage = "done" /\ value \in Values /\ IsSchema(Written)
    BY <1>1, <2>1, ContractFacts DEF WalkInv, IInv, TypeOK
  <2>3. Conforms(Written)
    BY <1>1, <2>1, <2>2, AnswerIsConforms
  <2> QED  BY <2>1, <2>2, <2>3, UndeclaredIsOpen
<1> QED
  BY <1>1, WalkInit, WalkNext, PTL DEF Spec

-----------------------------------------------------------------------------
(* The walk ends.                                                          *)

(* The arguments the validator may still come to: those that are pending   *)
(* and those below them.                                                   *)
ToCome == {q \in DOMAIN value : Ahead(q, pending)}

(* No pending path lies on the way to another, so that no argument is      *)
(* visited twice.                                                          *)
Apart == \A q \in pending : \A k \in 0 .. Len(q) : Upto(q, k) \in pending => Upto(q, k) = q

VisitInv == IInv /\ Apart

(* A path lies on the way to itself, and on the way to it lies all that    *)
(* lies on the way to something on the way.                                *)
LEMMA OnTheWay ==
  ASSUME value \in Values, NEW q \in DOMAIN value
  PROVE  /\ q \in Paths /\ Len(q) \in Nat /\ Len(q) \in 0 .. Len(q) /\ Upto(q, Len(q)) = q
         /\ \A k \in 0 .. Len(q) :
              /\ Upto(q, k) \in DOMAIN value /\ Len(Upto(q, k)) = k
              /\ \A j \in 0 .. k : j \in 0 .. Len(q) /\ Upto(Upto(q, k), j) = Upto(q, j)
<1>1. q \in Paths
  BY ValueFacts
<1>2. Len(q) \in Nat
  BY <1>1, LenProperties DEF Paths
<1>3. Len(q) \in 0 .. Len(q)
  BY <1>2
<1>4. Upto(q, Len(q)) = q
  BY <1>1, <1>3, UptoFacts
<1>5. ASSUME NEW k \in 0 .. Len(q)
      PROVE  Upto(q, k) \in DOMAIN value /\ Len(Upto(q, k)) = k
  BY <1>1, UptoFacts, ValueFacts
<1>6. ASSUME NEW k \in 0 .. Len(q), NEW j \in 0 .. k
      PROVE  j \in 0 .. Len(q) /\ Upto(Upto(q, k), j) = Upto(q, j)
  BY <1>1, <1>2, UptoUpto
<1> QED
  BY <1>1, <1>2, <1>3, <1>4, <1>5, <1>6

(* A visit replaces a pending path by some of its children, or by nothing. *)
LEMMA VisitReplaces ==
  ASSUME IInv, NEW p \in pending, ValidateJSONValue(p)
  PROVE  pending' \subseteq (pending \ {p}) \cup Children(p) /\ value' = value
<1>1. CASE RefuseValue(p)
  BY <1>1 DEF RefuseValue, Refuse, Finish
<1>2. CASE AcceptValue(p)
  BY <1>2 DEF AcceptValue, Proceed, Finish
<1>3. CASE EnterValue(p)
  <2> DEFINE next == (pending \ {p}) \cup Described(contract, p)
  <2>1. next \subseteq (pending \ {p}) \cup Children(p)
    BY DEF Described
  <2>2. Proceed(next)
    BY <1>3 DEF EnterValue
  <2> HIDE DEF next
  <2>3. pending' \subseteq next /\ value' = value
    BY <2>2 DEF Proceed, Finish
  <2> QED  BY <2>1, <2>3
<1> QED
  BY <1>1, <1>2, <1>3 DEF ValidateJSONValue

(* The children of a pending path are apart from each other and from the   *)
(* rest, and what is pending after the visit lies at or below what was.    *)
LEMMA VisitKeepsApart ==
  ASSUME VisitInv, NEW p \in pending, ValidateJSONValue(p)
  PROVE  /\ Apart'
         /\ ToCome' \subseteq ToCome
         /\ p \in ToCome /\ p \notin ToCome'
<1>1. value \in Values /\ pending \subseteq DOMAIN value /\ p \in DOMAIN value
  BY DEF VisitInv, IInv, TypeOK
<1>2. pending' \subseteq (pending \ {p}) \cup Children(p) /\ value' = value
  BY VisitReplaces DEF VisitInv
<1>3. ASSUME NEW a \in pending, NEW k \in 0 .. Len(a), Upto(a, k) \in pending
      PROVE  Upto(a, k) = a
  BY <1>3 DEF VisitInv, Apart
<1>4. ASSUME NEW a \in Children(p)
      PROVE  /\ a \in DOMAIN value /\ Len(a) = Len(p) + 1
             /\ Len(p) \in 0 .. Len(a) /\ Upto(a, Len(p)) = p
  BY <1>1, <1>4, ChildrenFacts
<1>5. ASSUME NEW a \in DOMAIN value, NEW k \in 0 .. Len(a), Upto(a, k) \in pending'
      PROVE  \E j \in 0 .. k : Upto(a, j) \in pending
  <2>1. CASE Upto(a, k) \in pending
    BY <2>1, <1>1, OnTheWay
  <2>2. CASE Upto(a, k) \in Children(p)
    <3> DEFINE b == Upto(a, k)
    <3>1. Len(b) = k /\ b \in Children(p) /\ Len(p) \in Nat
      BY <1>1, <2>2, OnTheWay
    <3>2. Len(p) \in 0 .. k /\ Upto(b, Len(p)) = p
      BY <1>4, <3>1
    <3>3. Upto(a, Len(p)) = p
      BY <1>1, <3>2, OnTheWay
    <3> QED  BY <3>2, <3>3
  <2> QED  BY <1>2, <1>5, <2>1, <2>2
<1>6. ASSUME NEW k \in 0 .. Len(p), Upto(p, k) \in pending'
      PROVE  FALSE
  <2>1. CASE Upto(p, k) \in pending \ {p}
    BY <1>3, <2>1
  <2>2. CASE Upto(p, k) \in Children(p)
    <3>1. Len(Upto(p, k)) = k /\ Len(Upto(p, k)) = Len(p) + 1 /\ Len(p) \in Nat
      BY <1>1, <1>4, <2>2, OnTheWay
    <3> QED  BY <3>1
  <2> QED  BY <1>2, <1>6, <2>1, <2>2
<1>7. ASSUME NEW a \in pending', NEW k \in 0 .. Len(a), Upto(a, k) \in pending'
      PROVE  Upto(a, k) = a
  <2>1. CASE a \in pending \ {p}
    <3>1. PICK j \in 0 .. k : Upto(a, j) \in pending
      BY <1>1, <1>5, <1>7, <2>1
    <3>2. j \in 0 .. Len(a) /\ Upto(a, j) = a /\ Len(Upto(a, j)) = j /\ Len(a) \in Nat
      BY <1>1, <1>3, <2>1, <3>1, OnTheWay
    <3>3. k = Len(a)
      BY <3>2
    <3> QED  BY <1>1, <2>1, <3>3, OnTheWay
  <2>2. CASE a \in Children(p)
    <3>1. /\ a \in DOMAIN value /\ Len(a) = Len(p) + 1 /\ Len(p) \in Nat
          /\ Len(p) \in 0 .. Len(a) /\ Upto(a, Len(p)) = p
      BY <1>1, <1>4, <2>2, OnTheWay
    <3>2. CASE k \in 0 .. Len(p)
      <4>1. Upto(p, k) = Upto(a, k)
        BY <1>1, <3>1, <3>2, OnTheWay
      <4> QED  BY <1>6, <1>7, <3>2, <4>1
    <3>3. CASE k = Len(a)
      BY <1>1, <3>1, <3>3, OnTheWay
    <3> QED  BY <3>1, <3>2, <3>3
  <2> QED  BY <1>2, <2>1, <2>2
<1>8. Apart'
  BY <1>7 DEF Apart, Upto
<1>9. ToCome' \subseteq ToCome
  <2>1. ASSUME NEW a \in ToCome' PROVE a \in ToCome
    <3>1. PICK k \in 0 .. Len(a) : a \in DOMAIN value /\ Upto(a, k) \in pending'
      BY <1>2 DEF ToCome, Ahead, Upto
    <3>2. PICK j \in 0 .. k : Upto(a, j) \in pending
      BY <1>5, <3>1
    <3>3. j \in 0 .. Len(a)
      BY <1>1, <3>1, OnTheWay
    <3> QED  BY <3>1, <3>2, <3>3 DEF ToCome, Ahead
  <2> QED  BY <2>1
<1>10. p \in ToCome
  BY <1>1, OnTheWay DEF ToCome, Ahead
<1>11. p \notin ToCome'
  BY <1>6 DEF ToCome, Ahead, Upto
<1> QED
  BY <1>8, <1>9, <1>10, <1>11

(* The children of the root are apart, and nothing is pending before.      *)
LEMMA ApartNext == VisitInv /\ [Next]_vars => VisitInv'
<1> SUFFICES ASSUME VisitInv, [Next]_vars PROVE Apart'
  BY StepPreserves DEF VisitInv
<1>1. value \in Values /\ <<>> \in DOMAIN value
  BY ValueFacts DEF VisitInv, IInv, TypeOK
<1>2. CASE Register
  BY <1>2 DEF Register, VisitInv, Apart, Upto
<1>3. CASE ValidateSchema
  <2>1. pending' \subseteq Children(<<>>)
    BY <1>3 DEF ValidateSchema, Proceed, Finish, Described
  <2>2. ASSUME NEW a \in pending', NEW k \in 0 .. Len(a), Upto(a, k) \in pending'
        PROVE  Upto(a, k) = a
    <3>1. a \in DOMAIN value /\ Len(a) = Len(<<>>) + 1 /\ Len(Upto(a, k)) = Len(<<>>) + 1
      BY <1>1, <2>1, <2>2, ChildrenFacts
    <3>2. k = Len(a)
      BY <1>1, <3>1, OnTheWay
    <3> QED  BY <1>1, <3>1, <3>2, OnTheWay
  <2> QED  BY <2>2 DEF Apart, Upto
<1>4. CASE \E p \in pending : ValidateJSONValue(p)
  BY <1>4, VisitKeepsApart
<1>5. CASE UNCHANGED vars
  BY <1>5 DEF vars, VisitInv, Apart, Upto
<1> QED
  BY <1>2, <1>3, <1>4, <1>5 DEF Next, Done

(* Each visit takes an argument for ever from those that may still come,   *)
(* and brings none back.                                                   *)
Closes == stage = "walking" => ToCome' \subseteq ToCome /\ ToCome' # ToCome

(* The validator cannot run for ever on finite arguments, whatever order   *)
(* it takes: every visit closes an argument (paldron.go:207-292).          *)
THEOREM WalkProgresses == Spec => [][Closes]_vars
<1>1. Init => VisitInv
  BY InitEstablishes DEF Init, VisitInv, Apart
<1>2. ASSUME VisitInv, [Next]_vars PROVE [Closes]_vars
  <2>1. SUFFICES ASSUME stage = "walking", ~ UNCHANGED vars
                 PROVE  ToCome' \subseteq ToCome /\ ToCome' # ToCome
    BY DEF Closes
  <2>2. PICK p \in pending : ValidateJSONValue(p)
    BY <1>2, <2>1 DEF Next, Register, ValidateSchema, Done
  <2> QED  BY <1>2, <2>2, VisitKeepsApart
<1> QED
  BY <1>1, <1>2, ApartNext, PTL DEF Spec
==============================================================================
