--------------------------- MODULE ContractSource --------------------------
(***************************************************************************)
(* What the generator does with a contract it has read: it validates the   *)
(* contract against its schema (validateProtocolSource), validates the     *)
(* narrative overlay, and assembles the intermediate representation every  *)
(* artefact embeds (buildContractIr).  The representation looks things up  *)
(* by name with no check of its own: a name the validator let through      *)
(* would be missing from all artefacts without a word, because an undefined *)
(* value vanishes when it is printed as JSON.                              *)
(*                                                                         *)
(* A contract is a record; a part that is missing or is not of the shape   *)
(* the code asks for is not in its set "parts".  Tables of objects,        *)
(* limits, state machines and definitions are functions on names; what a   *)
(* definition holds is the set of its properties.                          *)
(***************************************************************************)
EXTENDS Naturals, Sequences

VARIABLE subject   \* what is handed to a pure stage, here a contract with its
                   \* schema and a narrative overlay

NoSource == "null"   \* the source of a rule that does not apply
EmptyText == ""
NoLimit == "0"       \* a limit the validator takes for none

Values(s) == {s[i] : i \in DOMAIN s}
IsInjective(s) == \A i, j \in DOMAIN s : s[i] = s[j] => i = j
\* What a lookup by name finds: one value, or none (undefined in the code).
Lookup(table, name) == {table[n] : n \in DOMAIN table \cap {name}}

\* The parts validateProtocolSource asks to be objects or arrays.
ContractParts == {"protocol", "objects", "limits", "assuranceRequirements",
                  "assuranceRequirements.authorization", "errors",
                  "operationKindApplicability", "stateMachines", "crossObjectBindings"}
EntryParts == {"envelopeRequiredFields", "resolvedObjectTypes", "permissionEvidence",
               "conditionalEvidence", "stateMachines", "errorCodes", "limitKeys",
               "chargeableSuccess", "pricing"}
RequiredDefinitions == {"serviceDefinitionVersion", "offerVersion", "listingMandate",
                        "runtimeCapability", "taskAgreementVersion"}

----------------------------------------------------------------------------
(* validateProtocolSource.  Each conjunct is a check that throws.           *)

ErrorCodes(contract) == {e.code : e \in Values(contract.errors)}

\* Every error is well typed and named once, and the schema's enum has as many
\* entries as there are codes, all of them codes.
ErrorsAgree(contract, schema) ==
  /\ \A e \in Values(contract.errors) : e.typed
  /\ \A i, j \in DOMAIN contract.errors :
       contract.errors[i].code = contract.errors[j].code => i = j
  /\ Len(schema.errorCode) = Len(contract.errors)
  /\ Values(schema.errorCode) \subseteq ErrorCodes(contract)

ObjectsResolve(contract, schema) ==
  \A o \in DOMAIN contract.objects : contract.objects[o] \in DOMAIN schema.defs

Kinds(schema) == {v.kind : v \in Values(schema.variants)}

KindsAgree(contract, schema) ==
  /\ \A v \in Values(schema.variants) : v.typed
  /\ \A i, j \in DOMAIN schema.variants :
       schema.variants[i].kind = schema.variants[j].kind => i = j
  /\ DOMAIN contract.operationKindApplicability = Kinds(schema)

\* Objects an entry names as evidence: always, or under a condition.
ConditionalObjects(entry) == UNION entry.conditionalEvidence

\* A mutant: the field is not looked for.
RuleResolves_ObjectOnly(rule, contract, schema) ==
  IF rule.applicable THEN rule.object \in DOMAIN contract.objects
  ELSE rule.object = NoSource /\ rule.field = NoSource

\* chargeableSuccess and pricing: a field of the definition of a known object,
\* or nothing at all.
RuleResolves(rule, contract, schema) ==
  IF rule.applicable
    THEN /\ rule.object \in DOMAIN contract.objects
         /\ rule.field \in schema.defs[contract.objects[rule.object]]
    ELSE rule.object = NoSource /\ rule.field = NoSource

EntryResolves(entry, variant, contract, schema) ==
  /\ entry.parts = EntryParts
  /\ entry.envelopeRequiredFields = variant.required
  /\ entry.resolvedObjectTypes \cup entry.permissionEvidence \cup ConditionalObjects(entry)
       \subseteq DOMAIN contract.objects
  /\ IsInjective(entry.errorCodes) /\ Values(entry.errorCodes) \subseteq ErrorCodes(contract)
  /\ IsInjective(entry.limitKeys)
  /\ \A k \in Values(entry.limitKeys) : Lookup(contract.limits, k) \ {NoLimit} # {}
  /\ \A m \in entry.stateMachines :
       Lookup(contract.stateMachines, m.name) = {m.authority}
  /\ RuleResolves(entry.chargeableSuccess, contract, schema)
  /\ RuleResolves(entry.pricing, contract, schema)

Accepted(contract, schema) ==
  /\ contract.parts = ContractParts
  /\ ErrorsAgree(contract, schema)
  /\ ObjectsResolve(contract, schema)
  /\ KindsAgree(contract, schema)
  /\ \A v \in Values(schema.variants) :
       EntryResolves(contract.operationKindApplicability[v.kind], v, contract, schema)
  /\ RequiredDefinitions \subseteq DOMAIN schema.defs

\* A mutant: names are not checked.
NarrativeAccepted_AnyName(narrative, contract, schema) ==
  \A n \in narrative : n.key \in {"summary", "description"} /\ n.text # EmptyText

\* validateNarrative: only known operations and objects, only non-empty texts
\* under summary and description.  An overlay is a set of entries.
NarrativeAccepted(narrative, contract, schema) ==
  \A n \in narrative :
    /\ \/ n.group = "operations" /\ n.name \in Kinds(schema)
       \/ n.group = "objects" /\ n.name \in DOMAIN contract.objects
    /\ n.key \in {"summary", "description"}
    /\ n.text # EmptyText

----------------------------------------------------------------------------
(* buildContractIr. *)

SchemaForObject(o, contract, schema) ==
  UNION {Lookup(schema.defs, d) : d \in Lookup(contract.objects, o)}

RuleSchema(rule, contract, schema) ==
  (UNION SchemaForObject(rule.object, contract, schema)) \cap {rule.field}

NarrativeOf(group, name, narrative) ==
  {[key |-> n.key, text |-> n.text] : n \in {m \in narrative : m.group = group /\ m.name = name}}

Operation(variant, contract, schema, narrative) ==
  LET entry == contract.operationKindApplicability[variant.kind]
      codes == ErrorCodes(contract) IN
  [kind |-> variant.kind,
   required |-> variant.required,
   resolvedObjects |-> [o \in entry.resolvedObjectTypes |-> SchemaForObject(o, contract, schema)],
   errors |-> [i \in DOMAIN entry.errorCodes |-> codes \cap {entry.errorCodes[i]}],
   limits |-> [k \in Values(entry.limitKeys) |-> Lookup(contract.limits, k)],
   evidence |-> [o \in entry.permissionEvidence \cup ConditionalObjects(entry) |->
                   SchemaForObject(o, contract, schema)],
   chargeableSuccess |-> [rule |-> entry.chargeableSuccess,
                          schema |-> RuleSchema(entry.chargeableSuccess, contract, schema)],
   pricing |-> [rule |-> entry.pricing,
                schema |-> RuleSchema(entry.pricing, contract, schema)],
   machines |-> [m \in {x.name : x \in entry.stateMachines} |->
                   Lookup(contract.stateMachines, m)],
   narrative |-> NarrativeOf("operations", variant.kind, narrative)]

Ir(contract, schema, narrative) ==
  [operations |-> [i \in DOMAIN schema.variants |->
                     Operation(schema.variants[i], contract, schema, narrative)],
   objects |-> [o \in DOMAIN contract.objects |->
                  [reference |-> contract.objects[o],
                   narrative |-> NarrativeOf("objects", o, narrative)]],
   errors |-> contract.errors,
   limits |-> contract.limits,
   stateMachines |-> contract.stateMachines]

----------------------------------------------------------------------------
(* Properties of a contract, its schema and an overlay. *)

AllFound(table) == \A n \in DOMAIN table : table[n] # {}

OperationIsComplete(op) ==
  /\ AllFound(op.resolvedObjects) /\ AllFound(op.evidence)
  /\ AllFound(op.errors) /\ AllFound(op.limits) /\ AllFound(op.machines)
  /\ \A r \in {op.chargeableSuccess, op.pricing} : r.rule.applicable => r.schema # {}

\* Whatever contract the validator lets through, every name the intermediate
\* representation looks up is there: no artefact silently lacks an object's
\* schema, an error, a limit, a state machine or the source of a price.
IrIsComplete(contract, schema, narrative) ==
  Accepted(contract, schema) =>
    LET ir == Ir(contract, schema, narrative) IN
    /\ \A i \in DOMAIN ir.operations : OperationIsComplete(ir.operations[i])
    /\ \A o \in DOMAIN ir.objects : SchemaForObject(o, contract, schema) # {}

\* An accepted overlay is in the artefacts, all of it: no entry of it is dropped
\* on the way, and what it does not mention stays without a text.
NarrativeIsShown(contract, schema, narrative) ==
  (Accepted(contract, schema) /\ NarrativeAccepted(narrative, contract, schema)) =>
    LET ir == Ir(contract, schema, narrative)
        shown == (UNION {{[group |-> "operations", name |-> ir.operations[i].kind,
                           key |-> t.key, text |-> t.text] : t \in ir.operations[i].narrative} :
                         i \in DOMAIN ir.operations})
                 \cup (UNION {{[group |-> "objects", name |-> o, key |-> t.key, text |-> t.text] :
                                t \in ir.objects[o].narrative} : o \in DOMAIN ir.objects})
    IN shown = narrative

\* What a run has read: every name in a contract that the validator lets through
\* is resolved in the representation the artefacts are rendered from, and every
\* text of the narrative overlay is shown (ir.mjs:8-84).
SubjectIrIsComplete ==
  subject.stage = "contract" =>
    /\ IrIsComplete(subject.contract, subject.schema, subject.narrative)
    /\ NarrativeIsShown(subject.contract, subject.schema, subject.narrative)

=============================================================================
