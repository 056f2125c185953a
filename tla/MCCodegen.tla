----------------------------- MODULE MCCodegen -----------------------------
(***************************************************************************)
(* A small instance of the generator.  The tree machine runs over two      *)
(* contents of the contract that ContractSource accepts.  Beside it, while *)
(* nothing has happened in the tree yet, contracts are handed to the       *)
(* validator and schemas to the renderer, one at a time: both are pure     *)
(* functions of what a run has read.                                       *)
(***************************************************************************)
EXTENDS GeneratedTree, ContractSource, ConditionalTypes

allVars == <<vars, subject>>

----------------------------------------------------------------------------
(* Contracts: a valid one with up to two departures from it. *)

Dimensions == {"parts", "objects", "errors", "errorCode", "variants", "kinds", "defs",
               "required", "resolved", "permission", "conditional", "errorCodes",
               "limitKeys", "limits", "machines", "pricing", "success", "narrative"}
Ordinary == [d \in Dimensions |-> 1]
Pick(f, d, options) == options[f[d]]

Rule(object, field) == [applicable |-> TRUE, object |-> object, field |-> field]
NoRule == [applicable |-> FALSE, object |-> NoSource, field |-> NoSource]
PlainEntry(required) ==
  [parts |-> EntryParts, envelopeRequiredFields |-> required, resolvedObjectTypes |-> {},
   permissionEvidence |-> {}, conditionalEvidence |-> {}, stateMachines |-> {},
   errorCodes |-> <<>>, limitKeys |-> <<>>, chargeableSuccess |-> NoRule, pricing |-> NoRule]

ContractOf(f) ==
  [parts |-> Pick(f, "parts", <<ContractParts, ContractParts \ {"stateMachines"},
                               ContractParts \ {"crossObjectBindings"}>>),
   objects |-> Pick(f, "objects",
     <<[Service |-> "serviceDefinitionVersion", Offer |-> "offerVersion"],
       [Service |-> "serviceDefinitionVersion", Offer |-> "nowhere"],
       [Service |-> "serviceDefinitionVersion"]>>),
   limits |-> [requestBytes |-> Pick(f, "limits", <<"64 KiB", NoLimit, "0 B">>),
               invocationSeconds |-> "90 s"],
   stateMachines |-> [invocation |-> "ledger"],
   errors |-> Pick(f, "errors",
     <<<<[code |-> "A", typed |-> TRUE], [code |-> "B", typed |-> TRUE]>>,
       <<[code |-> "A", typed |-> TRUE], [code |-> "A", typed |-> TRUE]>>,
       <<[code |-> "A", typed |-> FALSE], [code |-> "B", typed |-> TRUE]>>>>),
   operationKindApplicability |->
     [k \in Pick(f, "kinds", <<{"INVOCATION", "TASK"}, {"INVOCATION"},
                               {"INVOCATION", "TASK", "QUOTE"}>>) |->
        IF k # "INVOCATION" THEN PlainEntry(<<"kind">>) ELSE
        [PlainEntry(<<"kind", "invocationId">>) EXCEPT
           !.envelopeRequiredFields =
             Pick(f, "required", <<@, <<"invocationId", "kind">>, <<"kind">>>>),
           !.resolvedObjectTypes =
             Pick(f, "resolved", <<{"Service"}, {"Service", "Offer"}, {"Ghost"}>>),
           !.permissionEvidence = Pick(f, "permission", <<{"Offer"}, {}, {"Offer", "Ghost"}>>),
           !.conditionalEvidence =
             Pick(f, "conditional", <<{{}, {"Service"}}, {{"Offer"}}, {{}, {"Ghost"}}>>),
           !.stateMachines = Pick(f, "machines",
             <<{[name |-> "invocation", authority |-> "ledger"]},
               {[name |-> "invocation", authority |-> "seller"]},
               {[name |-> "payment", authority |-> "ledger"]}>>),
           !.errorCodes = Pick(f, "errorCodes", <<<<"A", "B">>, <<"A", "A">>, <<"A", "C">>>>),
           !.limitKeys = Pick(f, "limitKeys",
             <<<<"requestBytes">>, <<"requestBytes", "requestBytes">>, <<"seconds">>>>),
           !.pricing = Pick(f, "pricing",
             <<Rule("Offer", "price"), Rule("Offer", "colour"), Rule("Ghost", "price")>>),
           !.chargeableSuccess = Pick(f, "success",
             <<Rule("Service", "success"), NoRule, [NoRule EXCEPT !.object = "Service"]>>)]]]

SchemaOf(f) ==
  [defs |-> [d \in (RequiredDefinitions \cup Pick(f, "defs", <<{}, {"errorCode"}, {}>>))
                   \ Pick(f, "defs", <<{}, {}, {"listingMandate"}>>) |->
               CASE d = "offerVersion" -> {"price"}
                 [] d = "serviceDefinitionVersion" -> {"success"}
                 [] OTHER -> {}],
   errorCode |-> Pick(f, "errorCode", <<<<"A", "B">>, <<"A">>, <<"A", "C">>>>),
   variants |-> LET variant(k, required, typed) == [kind |-> k, required |-> required, typed |-> typed] IN
     <<variant("INVOCATION", <<"kind", "invocationId">>, TRUE)>> \o
     Pick(f, "variants", <<<<variant("TASK", <<"kind">>, TRUE)>>,
                           <<variant("INVOCATION", <<"kind", "invocationId">>, TRUE)>>,
                           <<variant("TASK", <<"kind">>, FALSE)>>>>)]

NarrativeFor(f) ==
  LET text(group, name, key) == [group |-> group, name |-> name, key |-> key, text |-> "prose"] IN
  Pick(f, "narrative", <<{text("operations", "TASK", "summary"), text("objects", "Offer", "description")},
                         {text("operations", "QUOTE", "summary")},
                         {text("objects", "Offer", "price")}>>)

ContractSubjects ==
  {[stage |-> "contract", contract |-> ContractOf(f), schema |-> SchemaOf(f),
    narrative |-> NarrativeFor(f)] :
     f \in {[Ordinary EXCEPT ![d] = i, ![e] = j] :
              d \in Dimensions, e \in Dimensions, i \in 1..3, j \in 1..3}}

----------------------------------------------------------------------------
(* Schemas: the shapes of the conditions of commerce-0.1.schema.json over   *)
(* one object with two finite fields, two optional ones and a nested field. *)

MCAtomType == [HOSTED |-> "string", DIRECT |-> "string", OPEN |-> "string", PAID |-> "string",
               DONE |-> "string", NONE |-> "string", WALLET |-> "string", x |-> "string"]
MCDefinitions ==
  [assurance |-> [type |-> "object", required |-> {"authorization"},
                  properties |-> [authorization |-> [enum |-> {"NONE", "WALLET"}]]]]

AtomValue(a) == [atom |-> a, fields |-> <<>>]
ObjectValue(f) == [atom |-> "object", fields |-> f]
Objects(options) ==
  UNION {{ObjectValue(f) : f \in {g \in [D -> UNION {options[n] : n \in D}] :
                                    \A n \in D : g[n] \in options[n]}} : D \in SUBSET DOMAIN options}
Assurances == Objects([authorization |-> {AtomValue("NONE"), AtomValue("WALLET")}])
Documents ==
  Objects([mode |-> {AtomValue("HOSTED"), AtomValue("DIRECT")},
           state |-> {AtomValue("OPEN"), AtomValue("PAID"), AtomValue("DONE")},
           intent |-> {AtomValue("x")}, receipt |-> {AtomValue("x")}, assurance |-> Assurances])
MCUniverse == {AtomValue(a) : a \in DOMAIN MCAtomType} \cup Assurances \cup Documents

If(condition, consequence) == [if |-> condition, then |-> consequence]
IfElse(condition, consequence, otherwise) ==
  [if |-> condition, then |-> consequence, else |-> otherwise]
Needs(names) == [required |-> names]
Lacks(names) == [not |-> [anyOf |-> <<Needs({"intent"}), Needs({"receipt"})>>]]
State(schema) == [properties |-> [state |-> schema]]
Hosted == [properties |-> [mode |-> [const |-> "HOSTED"]]]
Wallet(required) ==
  IF required
    THEN [required |-> {"assurance"},
          properties |-> [assurance |-> [required |-> {"authorization"},
                            properties |-> [authorization |-> [const |-> "WALLET"]]]]]
    ELSE [properties |-> [assurance |-> [properties |-> [authorization |-> [const |-> "WALLET"]]]]]

Clauses ==
  <<If(State([enum |-> {"PAID", "DONE"}]), Needs({"intent"})),
    IfElse(Hosted, Needs({"receipt"}), [not |-> Needs({"receipt"})]),
    IfElse(State([const |-> "OPEN"]), Needs({"intent", "receipt"}), Lacks({"intent", "receipt"})),
    If([required |-> {"mode", "state"},
        properties |-> [mode |-> [const |-> "DIRECT"], state |-> [const |-> "DONE"]]],
       Needs({"receipt"})),
    If(Needs({"intent"}), State([enum |-> {"PAID", "DONE"}])),
    If(Needs({"receipt"}), [properties |-> [mode |-> [const |-> "DIRECT"],
                                            state |-> [not |-> [const |-> "OPEN"]]]]),
    IfElse([required |-> {"mode"}, properties |-> [mode |-> [const |-> "DIRECT"]]],
           [properties |-> [state |-> [not |-> [enum |-> {"PAID"}]]],
            not |-> [anyOf |-> <<Needs({"intent"}), Needs({"receipt"})>>]],
           [not |-> Needs({"intent"})]),
    [not |-> Wallet(TRUE)],
    If(Wallet(TRUE), Needs({"receipt"})),
    \* the tenth, with a pattern no value matches
    If(Wallet(FALSE), [properties |-> [receipt |-> [pattern |-> {}]]]),
    IfElse(State([enum |-> {"OPEN"}]), [properties |-> [mode |-> [const |-> "HOSTED"]]],
           [properties |-> [mode |-> [const |-> "DIRECT"]]]),
    If(Needs({"receipt"}), Wallet(TRUE))>>

DocumentSchema(required, clauses) ==
  [type |-> "object", required |-> required, allOf |-> clauses,
   properties |-> [mode |-> [enum |-> {"HOSTED", "DIRECT"}],
                   state |-> [enum |-> {"OPEN", "PAID", "DONE"}],
                   intent |-> [type |-> "string"], receipt |-> [type |-> "string"],
                   assurance |-> ("$ref" :> "assurance")]]
EitherEvidence == <<Needs({"intent"}), Needs({"receipt"})>>

SchemaSubjects ==
  LET handed(s, numbers) == [stage |-> "schema", schema |-> s, patterns |-> 10 \in numbers] IN
  {handed(DocumentSchema(required, <<Clauses[ij[1]], Clauses[ij[2]]>>), {ij[1], ij[2]}) :
     required \in {{"mode", "state", "assurance"}, {"mode", "assurance"}, {"state"}, {}},
     ij \in {xy \in (1..Len(Clauses)) \X (1..Len(Clauses)) : xy[1] <= xy[2]}}
  \cup {handed(DocumentSchema({"mode", "state"}, <<Clauses[i]>>)
                @@ ("oneOf" :> EitherEvidence), {i}) : i \in DOMAIN Clauses}

----------------------------------------------------------------------------

Nothing == [stage |-> "none"]

\* Before anything has happened in the tree.
Untouched == edits = 0 /\ \A p \in Procs : proc[p] = Ended("none")

Hand == /\ subject = Nothing /\ Untouched
        /\ subject' \in ContractSubjects \cup SchemaSubjects
        /\ UNCHANGED vars
Return == subject # Nothing /\ subject' = Nothing /\ UNCHANGED vars

MCInit == Init /\ subject = Nothing
MCNext == \/ subject = Nothing /\ Next /\ UNCHANGED subject
          \/ Hand \/ Return
MCSpec == MCInit /\ [][MCNext]_allVars

\* The type written for a schema admits every document the schema allows and,
\* among documents whose fields have the right types, no other; patterns, which
\* the language cannot express, excepted (render.mjs:217-380).
SubjectTypeIsExact ==
  subject.stage = "schema" =>
    /\ TypeAdmitsValid(subject.schema)
    /\ subject.patterns \/ TypeExcludesInvalid(subject.schema)

----------------------------------------------------------------------------
(* Values of the constants. *)

MCArtefacts == <<"commerce-types.ts", "codegen-report.json">>
\* Contracts with another limit, with no limit, and of another version.
MCContracts == {"draft4", "relaxed", "unlimited", "draft5"}
ContractNamed(c) ==
  CASE c = "relaxed"   -> [ContractOf(Ordinary) EXCEPT !.limits.requestBytes = "1 MiB"]
    [] c = "unlimited" -> [ContractOf(Ordinary) EXCEPT !.limits.requestBytes = NoLimit]
    [] OTHER           -> ContractOf(Ordinary)
MCSameHeader == {"draft4", "relaxed", "unlimited"}
MCBuildable == {"draft4", "relaxed", "draft5"}

\* What the tree machine calls buildable the validator accepts, and no more.
ASSUME BuildableAssumption ==
  MCBuildable = {c \in MCContracts : Accepted(ContractNamed(c), SchemaOf(Ordinary))}

Symmetry == Permutations(Procs) \cup Permutations(Tools)

\* Bound: after the second change from outside, runs no longer overlap.
Bound == edits < 2 \/ \E p \in Procs : ~Running(p)

=============================================================================
