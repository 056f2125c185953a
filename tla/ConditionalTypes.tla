-------------------------- MODULE ConditionalTypes -------------------------
(***************************************************************************)
(* The TypeScript types the generator writes for schemas with conditions   *)
(* (render.mjs): `allOf` clauses with if/then/else and `not`, `oneOf` of   *)
(* required fields, references to definitions.  When the conditions test   *)
(* required fields with finitely many values, the type is a matrix with    *)
(* one branch per combination of those values; beyond a limit, or on other *)
(* fields, each clause becomes (if & then) | (not if & else), where "not"  *)
(* is pushed inwards by negateCondition because the language has no        *)
(* negated types.                                                          *)
(*                                                                         *)
(* A type is modelled by the values it admits, among the values of         *)
(* Universe, and by whether its text is the word "unknown", on which the   *)
(* code decides.  A schema is a record of its keywords; sub-schema lists   *)
(* are sequences, enum and required are sets.                              *)
(***************************************************************************)
EXTENDS Naturals, Sequences, FiniteSets, TLC

CONSTANTS
  Universe,        \* values: [atom, fields]; an object has the atom "object"
  AtomType,        \* atom -> "string", "boolean" or "array"
  Definitions,     \* $defs
  MaxCombinations  \* branches of a matrix at most; 128 in the code

IsObject(v) == v.atom = "object"
Empty == <<>>      \* the schema without keywords

Has(schema, keyword) == keyword \in DOMAIN schema
Children(schema, keyword) == IF Has(schema, keyword) THEN schema[keyword] ELSE <<>>
Properties(schema) == IF Has(schema, "properties") THEN schema.properties ELSE Empty
Required(schema) == IF Has(schema, "required") THEN schema.required ELSE {}
PropertyOr(properties, name, otherwise) ==
  IF name \in DOMAIN properties THEN properties[name] ELSE otherwise
resolvedSchema(schema) ==
  IF Has(schema, "$ref") THEN Definitions[schema["$ref"]] ELSE schema

----------------------------------------------------------------------------
(* What a schema means, by the JSON Schema rules. *)

RECURSIVE Valid(_, _)
Valid(schema, v) ==
  LET kids(keyword) == Children(schema, keyword)
      holds(keyword) == {i \in DOMAIN kids(keyword) : Valid(kids(keyword)[i], v)}
      branch == IF Has(schema, "if") /\ Valid(schema["if"], v) THEN "then" ELSE "else" IN
  /\ Has(schema, "$ref") => Valid(resolvedSchema(schema), v)
  /\ Has(schema, "const") => v.atom = schema.const
  /\ Has(schema, "enum") => v.atom \in schema.enum
  /\ Has(schema, "type") =>
       IF IsObject(v) THEN schema.type = "object" ELSE AtomType[v.atom] = schema.type
  /\ Has(schema, "pattern") => v.atom \in schema.pattern
  /\ IsObject(v) =>
       /\ Required(schema) \subseteq DOMAIN v.fields
       /\ \A n \in DOMAIN Properties(schema) \cap DOMAIN v.fields :
            Valid(Properties(schema)[n], v.fields[n])
  /\ holds("allOf") = DOMAIN kids("allOf")
  /\ Has(schema, "anyOf") => holds("anyOf") # {}
  /\ Has(schema, "oneOf") => Cardinality(holds("oneOf")) = 1
  /\ Has(schema, "not") => ~Valid(schema["not"], v)
  /\ (Has(schema, "if") /\ Has(schema, branch)) => Valid(schema[branch], v)

----------------------------------------------------------------------------
(* Types. *)

Unknown == [isUnknown |-> TRUE, values |-> Universe]
Type(values) == [isUnknown |-> FALSE, values |-> values]
Literals(atoms) == Type({v \in Universe : v.atom \in atoms})

intersection(types) ==
  LET usable == {t \in types : ~t.isUnknown} IN
  IF usable = {} THEN Unknown
  ELSE Type({v \in Universe : \A t \in usable : v \in t.values})
union(types) == Type(UNION {t.values : t \in types})

\* { readonly n: T; readonly m?: U }, open to further properties.
ObjectType(types, required) ==
  Type({v \in Universe : IsObject(v) /\ \A n \in DOMAIN types :
          IF n \in DOMAIN v.fields THEN v.fields[n] \in types[n].values ELSE n \notin required})
\* A mutant: optional instead of forbidden.
forbiddenFields_Optional(names) == ObjectType([n \in names |-> Unknown], {})
forbiddenFields(names) == ObjectType([n \in names |-> Type({})], {})

finiteValues(schema) ==
  IF Has(schema, "enum") THEN schema.enum
  ELSE IF Has(schema, "const") THEN {schema.const} ELSE {}

\* Exclude<T, A | B> takes literals out of a union of literals, nothing out of string.
Exclude(type, original, atoms) ==
  Type(IF finiteValues(original) # {} THEN type.values \ Literals(atoms).values
       ELSE type.values)

schemaWithoutApplicators(schema) ==
  [k \in DOMAIN schema \ {"allOf", "anyOf", "oneOf", "not", "if", "then", "else"} |-> schema[k]]

----------------------------------------------------------------------------
(* Conditions under an assignment of values to paths. *)

RECURSIVE conditionValuePaths(_, _)
conditionValuePaths(condition, prefix) ==
  LET negated == IF Has(condition, "not") THEN condition["not"] ELSE Empty
      kids == Children(condition, "anyOf") \o Children(condition, "allOf") IN
  (IF /\ prefix # <<>>
      /\ Has(condition, "const") \/ Has(condition, "enum") \/ Has(negated, "const")
     THEN {prefix} ELSE {})
  \cup UNION {conditionValuePaths(Properties(condition)[n], Append(prefix, n)) :
                n \in DOMAIN Properties(condition)}
  \cup UNION {conditionValuePaths(kids[i], prefix) : i \in DOMAIN kids}
  \cup (IF Has(negated, "const") THEN {} ELSE
        IF Has(condition, "not") THEN conditionValuePaths(negated, prefix) ELSE {})

\* The schema at a path whose every segment is a required property, or none.
RECURSIVE sourceSchemaAtPath(_, _)
sourceSchemaAtPath(schema, path) ==
  LET current == resolvedSchema(schema) IN
  IF path = <<>> THEN {current}
  ELSE IF Head(path) \in DOMAIN Properties(current) \cap Required(current)
       THEN sourceSchemaAtPath(Properties(current)[Head(path)], Tail(path))
       ELSE {}

\* A mutant: a condition on an unassigned path counts as met.
all_UndefinedIsTrue(truths) == IF "false" \in truths THEN "false" ELSE "true"

\* Three-valued conjunction and disjunction.
all(truths) == IF "false" \in truths THEN "false"
               ELSE IF "undefined" \in truths THEN "undefined" ELSE "true"
any(truths) == IF "true" \in truths THEN "true"
               ELSE IF "undefined" \in truths THEN "undefined" ELSE "false"
Truth(b) == IF b THEN "true" ELSE "false"

IsPrefixOf(p, q) == Len(p) <= Len(q) /\ SubSeq(q, 1, Len(p)) = p

RECURSIVE evaluateCondition(_, _, _)
evaluateCondition(condition, assignment, prefix) ==
  LET assigned == prefix \in DOMAIN assignment
      inner == IF Has(condition, "not")
                 THEN evaluateCondition(condition["not"], assignment, prefix) ELSE "undefined"
      each(keyword) == {evaluateCondition(condition[keyword][i], assignment, prefix) :
                          i \in DOMAIN condition[keyword]}
      present(n) == \E p \in DOMAIN assignment : IsPrefixOf(Append(prefix, n), p)
      results == {IF present(n) THEN "true" ELSE "undefined" : n \in Required(condition)}
                 \cup {evaluateCondition(Properties(condition)[n], assignment, Append(prefix, n)) :
                         n \in DOMAIN Properties(condition)} IN
  CASE Has(condition, "const") /\ assigned -> Truth(assignment[prefix] = condition.const)
    [] ~Has(condition, "const") /\ Has(condition, "enum") /\ assigned ->
         Truth(assignment[prefix] \in condition.enum)
    [] OTHER ->
         IF inner # "undefined" THEN Truth(inner = "false")
         ELSE IF Has(condition, "anyOf") THEN any(each("anyOf"))
         ELSE IF Has(condition, "allOf") THEN all(each("allOf"))
         ELSE IF results = {} THEN "undefined" ELSE all(results)

RECURSIVE At(_, _)
At(v, path) ==
  IF path = <<>> THEN v.atom
  ELSE IF IsObject(v) /\ Head(path) \in DOMAIN v.fields
       THEN At(v.fields[Head(path)], Tail(path)) ELSE "object"

assignmentConstraint(path, atom) == Type({v \in Universe : At(v, path) = atom})

requiredOnlyTrigger(condition) == Required(condition) # {} /\ DOMAIN condition = {"required"}

----------------------------------------------------------------------------
(* schemaType and the functions it recurses through.  "fallback" is the set *)
(* with the schema a `not` excludes from, or the empty set.                 *)

RECURSIVE schemaType(_, _, _, _), negateCondition(_, _, _)

negateCondition(condition, originalSchema, inherited) ==
  LET original == resolvedSchema(originalSchema)
      originalType == schemaType(original, Empty, {}, {})
      each(keyword) == {negateCondition(condition[keyword][i], originalSchema, inherited) :
                          i \in DOMAIN condition[keyword]}
      child(n) == PropertyOr(inherited, n, PropertyOr(Properties(original), n, Empty))
      negated(n) == negateCondition(Properties(condition)[n], child(n),
                                    Properties(resolvedSchema(child(n)))) IN
  CASE Has(condition, "const") -> Exclude(originalType, original, {condition.const})
    [] Has(condition, "enum") -> Exclude(originalType, original, condition.enum)
    [] Has(condition, "not") -> schemaType(condition["not"], inherited, {}, {originalSchema})
    [] Has(condition, "anyOf") -> intersection(each("anyOf"))
    [] Has(condition, "allOf") -> union(each("allOf"))
    [] Has(condition, "properties") \/ Has(condition, "required") ->
         union({forbiddenFields({n}) : n \in Required(condition)}
               \cup {ObjectType([m \in {n} |-> negated(n)], {n}) :
                       n \in {m \in DOMAIN Properties(condition) : ~negated(m).isUnknown}})
    [] OTHER -> Unknown

\* (if & then) | (not if & else)
fallbackConditionalType(clause, properties) ==
  LET typed(keyword) == IF Has(clause, keyword)
                          THEN schemaType(clause[keyword], properties, {}, {}) ELSE Unknown
      asObject == [type |-> "object", properties |-> properties] IN
  union({intersection({typed("if"), typed("then")}),
         intersection({negateCondition(clause["if"], asObject, properties), typed("else")})})

\* What a clause adds to one branch of the matrix: {} when the branch is
\* impossible, otherwise the set with the type to intersect.
clausePart(clause, assignment, properties) ==
  LET typed(schema) == schemaType(schema, properties, {}, {})
      truth(schema) == evaluateCondition(schema, assignment, <<>>)
      condition == clause["if"]
      consequence == IF Has(clause, "then") THEN truth(clause["then"]) ELSE "true"
      selected == IF truth(condition) = "true" THEN "then" ELSE "else" IN
  CASE ~Has(clause, "if") /\ Has(clause, "not") ->
         (CASE truth(clause["not"]) = "true" -> {}
            [] truth(clause["not"]) = "undefined" -> {typed(clause)}
            [] OTHER -> {Unknown})
    [] ~Has(clause, "if") /\ ~Has(clause, "not") -> {typed(clause)}
    [] Has(clause, "if") /\ truth(condition) = "undefined" ->
         (CASE requiredOnlyTrigger(condition) /\ consequence = "false" ->
                 {forbiddenFields(condition.required)}
            [] requiredOnlyTrigger(condition) /\ consequence = "true" -> {Unknown}
            [] OTHER -> {fallbackConditionalType(clause, properties)})
    [] Has(clause, "if") /\ truth(condition) # "undefined" ->
         IF ~Has(clause, selected) THEN {Unknown}
         ELSE IF truth(clause[selected]) = "false" THEN {} ELSE {typed(clause[selected])}

\* The matrix, as a set with one type, or {} when there is none.
conditionalMatrixType(schema, properties) ==
  LET clauses == Children(schema, "allOf")
      paths == UNION {UNION {conditionValuePaths(clauses[i][k], <<>>) :
                               k \in {"if", "not"} \cap DOMAIN clauses[i]} : i \in DOMAIN clauses}
      values(p) == UNION {finiteValues(s) : s \in sourceSchemaAtPath(schema, p)}
      discriminants == {p \in paths : values(p) # {}}
      assignments == {f \in [discriminants -> UNION {values(p) : p \in discriminants}] :
                        \A p \in discriminants : f[p] \in values(p)}
      parts(f) == {clausePart(clauses[i], f, properties) : i \in DOMAIN clauses}
      branch(f) == intersection(UNION parts(f) \cup
                     {assignmentConstraint(p, f[p]) : p \in discriminants}) IN
  IF \/ \A i \in DOMAIN clauses : ~Has(clauses[i], "if")
     \/ discriminants = {} \/ Cardinality(assignments) > MaxCombinations
    THEN {}
    ELSE {union({branch(f) : f \in {g \in assignments : {} \notin parts(g)}})}

\* The part of the type that comes from the schema's own keywords.
baseType(schema, inherited, forbidden) ==
  LET effective == Properties(schema) @@ inherited
      own == IF Has(schema, "properties") THEN Properties(schema)
             ELSE [n \in Required(schema) |-> PropertyOr(effective, n, Empty)]
      field(n) ==
        LET original == PropertyOr(inherited, n, own[n]) IN
        schemaType(own[n], Properties(resolvedSchema(original)), {}, {original}) IN
  CASE Has(schema, "$ref") -> Type(schemaType(resolvedSchema(schema), Empty, {}, {}).values)
    [] Has(schema, "const") \/ Has(schema, "enum") -> Literals(finiteValues(schema))
    [] Has(schema, "type") /\ schema.type # "object" ->
         Type({v \in Universe : ~IsObject(v) /\ AtomType[v.atom] = schema.type})
    [] OTHER ->
         IF \/ {"type", "properties", "required"} \cap DOMAIN schema = {} /\ forbidden = {}
            \/ /\ DOMAIN own \cup forbidden = {}  \* a Record of unknown says nothing
               /\ {"allOf", "oneOf", "anyOf"} \cap DOMAIN schema # {}
         THEN Unknown
         ELSE ObjectType([n \in DOMAIN own \cup forbidden |->
                            IF n \in DOMAIN own THEN field(n) ELSE Type({})],
                         Required(schema))

schemaType(schema, inherited, forbidden, fallback) ==
  LET effective == Properties(schema) @@ inherited
      child(keyword, i, forbids) ==
        schemaType(schema[keyword][i], effective, forbids, fallback)
      matrix == conditionalMatrixType(schema, effective)
      exclusive == UNION {Required(Children(schema, "oneOf")[i]) :
                            i \in DOMAIN Children(schema, "oneOf")} IN
  intersection(
    {baseType(schema, inherited, forbidden)}
    \cup (IF matrix # {} THEN matrix
          ELSE {child("allOf", i, {}) : i \in DOMAIN Children(schema, "allOf")})
    \cup (IF Has(schema, "oneOf")
            THEN {union({child("oneOf", i, exclusive \ Required(schema["oneOf"][i])) :
                           i \in DOMAIN schema["oneOf"]})} ELSE {})
    \cup (IF Has(schema, "anyOf")
            THEN {union({child("anyOf", i, {}) : i \in DOMAIN schema["anyOf"]})} ELSE {})
    \cup (IF Has(schema, "not")
            THEN {negateCondition(schema["not"],
                    IF fallback # {} THEN CHOOSE s \in fallback : TRUE
                    ELSE schemaWithoutApplicators(schema), effective)} ELSE {})
    \cup (IF Has(schema, "if") /\ matrix = {}
            THEN {fallbackConditionalType(schema, effective)} ELSE {}))

----------------------------------------------------------------------------
(* Properties of a schema. *)

\* A program that is handed a valid document can hold it in the generated type:
\* no condition, negation or matrix branch shuts out what the schema allows.
TypeAdmitsValid(schema) ==
  {v \in Universe : Valid(schema, v)} \subseteq schemaType(schema, Empty, {}, {}).values

\* The type checker refuses what the conditions of the schema refuse, for every
\* document whose fields have the right types (schemas without patterns, which
\* the language cannot express).
TypeExcludesInvalid(schema) ==
  LET welltyped == {v \in Universe : Valid(schemaWithoutApplicators(schema), v)} IN
  \A v \in schemaType(schema, Empty, {}, {}).values \cap welltyped : Valid(schema, v)

=============================================================================
