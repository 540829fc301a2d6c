-------------------------- MODULE PayloadConformance --------------------------
(***************************************************************************)
(* computeHttpPayloadConformance for one event: the payload's contract is  *)
(* selected by status and media type and the payload is given a code; some *)
(* codes fail the run (httpPayloadSemantics).                              *)
(*                                                                         *)
(* A content is a set of [media, schema]; a schema is a usable one, None,  *)
(* "unsupported-format" or "uncompilable".                                 *)
(***************************************************************************)
EXTENDS PayloadCapture, CoverageDimensions

NoVerdict == "NO_DIAGNOSTIC"

Codes ==
    {"VALID", "INVALID_BODY", "MISSING_BODY", "MISSING_CONTENT_TYPE",
     "MEDIA_TYPE_MISMATCH", "UNSUPPORTED_MEDIA_TYPE", "UNSUPPORTED_SCHEMA_FORMAT",
     "UNSUPPORTED_SCHEMA", "NO_DECLARED_CONTENT", "RECORDER_OMITTED"}

\* isFailClosedHttpPayloadCode
FailClosedCodes == Codes \ {"VALID", "NO_DECLARED_CONTENT", "RECORDER_OMITTED"}

-----------------------------------------------------------------------------
(* The declared media type that speaks for the observed one                *)

\* scoreMatchingMediaType; 0 is null.  "*" and "*+json" are wildcards.
MediaScore(declared, observed) ==
    LET typeSpecificity == IF declared.type = observed.type THEN 2 ELSE 1
        sameSubtype     == declared.base = observed.base /\ declared.suffix = observed.suffix
        sameSuffix      == declared.suffix # "" /\ declared.suffix = observed.suffix
    IN  IF declared = observed THEN 40
        ELSE IF ~(IsMediaType(declared) /\ IsMediaType(observed))
                \/ declared.type \notin {"*", observed.type} THEN 0
        ELSE IF sameSubtype THEN 30 + typeSpecificity
        ELSE IF declared.base = "*" /\ declared.suffix = "" THEN 10 + typeSpecificity
        ELSE IF declared.base = "*" /\ sameSuffix THEN 20 + typeSpecificity
        ELSE 0

Matching(content, observed) == {c \in content : MediaScore(c.media, observed) > 0}

\* Mutant: any match will do, the wildcards before the exact types.
FindMatchingMediaType_LeastSpecific(content, observed) ==
    CHOOSE c \in Matching(content, observed) :
        \A d \in Matching(content, observed) :
            MediaScore(c.media, observed) <= MediaScore(d.media, observed)

\* findMatchingMediaType.  No two media types of a content score the same.
FindMatchingMediaType(content, observed) ==
    CHOOSE c \in Matching(content, observed) :
        \A d \in Matching(content, observed) :
            MediaScore(c.media, observed) >= MediaScore(d.media, observed)

IsSupportedJsonMediaType(m) == m = Json \/ m.suffix = "json"

-----------------------------------------------------------------------------
(* The code of a payload                                                   *)

IsOmitted(payload)  == payload.body = NoBody /\ payload.state = "omitted"
IsObserved(payload) == payload.type # NoType \/ payload.body # NoBody

ValidationCode(schema, body) ==
    IF schema = None THEN "UNSUPPORTED_SCHEMA"
    ELSE IF body = NoBody THEN "MISSING_BODY"
    ELSE IF schema = "unsupported-format" THEN "UNSUPPORTED_SCHEMA_FORMAT"
    ELSE IF schema = "uncompilable" THEN "UNSUPPORTED_SCHEMA"
    ELSE IF body.form = schema THEN "VALID"
    ELSE "INVALID_BODY"

\* evaluatePayloadAgainstContent, for a content that is not empty.
EvaluateContent(payload, content) ==
    IF payload.type = NoType THEN "MISSING_CONTENT_TYPE"
    ELSE IF Matching(content, payload.type) = {} THEN "MEDIA_TYPE_MISMATCH"
    ELSE LET matched == FindMatchingMediaType(content, payload.type)
         IN  IF IsSupportedJsonMediaType(matched.media)
             THEN ValidationCode(matched.schema, payload.body)
             ELSE "UNSUPPORTED_MEDIA_TYPE"

\* What evaluateRequestPayload and evaluateResponsePayload share.  bodyDue
\* is that a payload of which nothing was observed is missing.
Evaluate(payload, declared, content, bodyDue) ==
    IF IsOmitted(payload) THEN "RECORDER_OMITTED"
    ELSE IF ~IsObserved(payload)
    THEN IF declared /\ bodyDue THEN "MISSING_BODY" ELSE NoVerdict
    ELSE IF content = {} THEN "NO_DECLARED_CONTENT"
    ELSE EvaluateContent(payload, content)

\* A request contract is [declared, required, content].
EvaluateRequest(payload, contract) ==
    Evaluate(payload, contract.declared, contract.content, contract.required)

\* Mutant: ranges and default come before the exact code.
SelectResponseContract_DefaultFirst(responses, status) ==
    LET ofType(kind) == {r \in responses : r.status.type = kind
                                           /\ MatchesStatusToken(status, r.status)}
    IN  IF ofType("default") # {} THEN ofType("default")
        ELSE IF ofType("range") # {} THEN ofType("range")
        ELSE ofType("code")

\* selectResponseContract: the exact code, else its range, else default.  The
\* set is empty or a singleton, as every status is declared once.
SelectResponseContract(responses, status) ==
    LET ofType(kind) == {r \in responses : r.status.type = kind
                                           /\ MatchesStatusToken(status, r.status)}
    IN  IF ofType("code") # {} THEN ofType("code")
        ELSE IF ofType("range") # {} THEN ofType("range")
        ELSE ofType("default")

\* Responses are a set of [status, content].
EvaluateResponse(payload, responses, status) ==
    LET selected == SelectResponseContract(responses, status)
        content  == UNION {r.content : r \in selected}
    IN  Evaluate(payload, selected # {}, content, content # {})

=============================================================================
