-------------------------- MODULE AsyncConformance --------------------------
(***************************************************************************)
(* How the evidence of one message is judged by the contract of its        *)
(* operation: which declared message it is, whether its payload and        *)
(* headers conform to the schemas of that message, and whether its headers *)
(* prove the correlation id and the reply address (Kafka only).            *)
(*                                                                         *)
(* An event is [kind, action, channel, message, payload, headers]; a       *)
(* header of it is a value, "absent" or "unavailable" (redacted, omitted). *)
(* A diagnostic is its kind and the schema it is about: those that differ  *)
(* only in the pointer or the wording are reported and gated alike.        *)
(***************************************************************************)
EXTENDS AsyncContracts

CONSTANTS
    SchemaIds,     \* names of schemas (x-parser-schema-id)
    AnonymousIds   \* those that the parser made up

ASSUME AnonymousIdsAssumption == AnonymousIds \subseteq SchemaIds

\* What an item has of a header.
HeaderEvidence == Values \cup {"absent", "unavailable"}

Captured(event, header) == event.headers[header] \in Values

-----------------------------------------------------------------------------
(* resolveAsyncMessageContract                                             *)

Named(contracts, event) ==
    {c \in contracts : event.message = None \/ c.name = event.message}

\* The header rules the event can answer.
AnsweredRules(contracts, event) ==
    {h \in DiscriminatingHeaders(contracts) : Captured(event, h)}

FirstRule(rules) ==
    CHOOSE h \in rules : \A g \in rules : HeaderRank[h] <= HeaderRank[g]

IsSingle(set) == \E x \in set : set = {x}

\* The name rule, then the first header rule that has evidence, as long as
\* more than one candidate is left.  The values that a rule fixes differ, so
\* that no later rule finds more than one.
Candidates(contracts, event) ==
    LET named == Named(contracts, event)
        rules == AnsweredRules(contracts, event)
    IN  IF named = {} \/ IsSingle(named) \/ rules = {} THEN named
        ELSE {c \in named :
                 HeaderHint(c, FirstRule(rules)) = event.headers[FirstRule(rules)]}

Resolution(contracts, event) ==
    IF contracts = {} THEN "none"
    ELSE IF Candidates(contracts, event) = {} THEN "mismatched"
    ELSE IF IsSingle(Candidates(contracts, event)) THEN "selected"
    ELSE "ambiguous"

SelectedMessage(contracts, event) ==
    CHOOSE c \in contracts : c \in Candidates(contracts, event)

-----------------------------------------------------------------------------
(* computeAsyncSchemaConformance, for an event whose message is selected   *)

\* buildPayloadValidationPlan and the validator.  A schema "compiles" if its
\* format is a JSON one and ajv accepts it.
PayloadDefects(contract, event) ==
    IF contract.payload = None THEN {}
    ELSE IF contract.contentType # "json" THEN {"unsupported-content-type"}
    ELSE IF ~contract.payload.compiles THEN {"unsupported-schema-format"}
    ELSE IF event.payload = None THEN {"missing-payload"}
    ELSE IF event.payload \notin contract.payload.admits THEN {"invalid-payload"}
    ELSE {}

\* A header that is not retained is "unavailable" whether it is required or
\* not, and one that is absent only matters where it is required.
HeaderDefects(contract, event) ==
    IF contract.headers = None THEN {}
    ELSE IF ~contract.headers.compiles THEN {"unverifiable-headers"}
    ELSE LET schema == contract.headers
             declared == schema.required \cup DOMAIN schema.admits
             Is(kind, holds) == IF holds THEN {kind} ELSE {}
         IN  Is("unavailable-header",
                \E h \in declared : event.headers[h] = "unavailable")
             \cup Is("missing-header",
                     \E h \in schema.required : event.headers[h] = "absent")
             \cup Is("invalid-header",
                     \E h \in DOMAIN schema.admits :
                         Captured(event, h) /\ event.headers[h] \notin schema.admits[h])

SchemaDiagnostics(contract, event) ==
    {[kind |-> d, schema |-> SchemaId(contract.payload)] :
        d \in PayloadDefects(contract, event)}
    \cup {[kind |-> d, schema |-> SchemaId(contract.headers)] :
             d \in HeaderDefects(contract, event)}

\* isPublicSchemaDiagnostic
IsPublic(schemaId) == schemaId # None /\ schemaId \notin AnonymousIds

-----------------------------------------------------------------------------
(* computeAsyncSemanticConformance                                         *)

\* Mutant: a header that was redacted proves as much as one that is there.
HeaderProof_RedactedProves(location, event) ==
    IF location \notin Headers THEN "unsupported"
    ELSE IF event.headers[location] = "absent" THEN "missing" ELSE "satisfied"

\* parseSupportedHeaderLocation and inspectRetainedHeaderEvidence: only a
\* location that is one flat header key can be proved.
HeaderProof(location, event) ==
    IF location \notin Headers THEN "unsupported"
    ELSE IF event.headers[location] = "absent" THEN "missing"
    ELSE IF event.headers[location] = "unavailable" THEN "unavailable"
    ELSE "satisfied"

CorrelationProof(contract, event) ==
    IF contract.correlation = None THEN "satisfied"
    ELSE HeaderProof(contract.correlation, event)

ReplyProof(reply, event) ==
    IF reply = None THEN "satisfied"
    ELSE IF HeaderProof(reply.location, event) # "satisfied"
    THEN HeaderProof(reply.location, event)
    ELSE IF reply.channel # None /\ event.headers[reply.location] # reply.channel
    THEN "mismatched" ELSE "satisfied"

\* The outcomes for one event: the correlation id of the message it is, and
\* the reply of its operation unless its message is not known.
SemanticOutcomes(contract, event) ==
    LET resolution == Resolution(contract.messages, event)
    IN  (IF resolution = "selected"
         THEN {CorrelationProof(SelectedMessage(contract.messages, event), event)}
         ELSE {})
        \cup (IF resolution \in {"selected", "none"}
              THEN {ReplyProof(contract.reply, event)} ELSE {})

=============================================================================
