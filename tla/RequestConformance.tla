-------------------------- MODULE RequestConformance --------------------------
(***************************************************************************)
(* computeHttpRequestConformance and computeHttpSecurityConformance for    *)
(* one event: what the analyzer makes of the evidence of parameters and of *)
(* the keys that a security requirement asks for, and which of its truths  *)
(* fail the run.                                                           *)
(*                                                                         *)
(* A declared parameter is [in, name, style, explode, content, type,       *)
(* admitted], where type is "scalar", "array" or "other" and admitted the  *)
(* set of values (of an array: of items) that its schema admits.  A        *)
(* security is [declared, requirements], a requirement a set of schemes    *)
(* [type, in, key].  The order of requirements and of the schemes in one   *)
(* decides only which of several failures is shown.                        *)
(***************************************************************************)
EXTENDS RequestEvidence

NoTruth == "none"     \* no diagnostic

-----------------------------------------------------------------------------
(* Parameters                                                              *)

SupportedStyle ==
    [path |-> "simple", query |-> "form", header |-> "simple", cookie |-> "form"]

\* extractDeclaredRequestSupport
DeclaredSupport(p) ==
    IF p.content \/ p.style # SupportedStyle[p.in] THEN "unsupported"
    ELSE IF p.type = "scalar" THEN "scalar"
    ELSE IF p.type = "array" /\ p.in = "query" /\ p.explode THEN "array"
    ELSE "unsupported"

\* validateObservedScalar.  The schema is what it admits.
IsAdmitted(value, p) == value \in p.admitted

\* evaluateRequestParameter
ParameterTruth(evidence, p) ==
    LET found   == Lookup(evidence, p.in, p.name)
        support == DeclaredSupport(p)
    IN  IF found = Absent THEN NoTruth
        ELSE IF found.state # "captured" THEN found.state
        ELSE IF support = "unsupported" THEN "unsupported"
        ELSE IF support = "scalar" /\ Len(found.values) # 1 THEN "unsupported"
        ELSE IF \A i \in DOMAIN found.values : IsAdmitted(found.values[i], p)
        THEN "captured-valid"
        ELSE "captured-invalid"

\* isFailClosedHttpRequestTruth
FailClosedParameterTruths ==
    {"captured-invalid", "redacted", "omitted", "unsupported"}

-----------------------------------------------------------------------------
(* Security                                                                *)

\* appendOperation: an operation's own security replaces the document's, also
\* when it is empty.
ResolveSecurity(root, own) == IF own.declared THEN own ELSE root

KeyLocations == {"query", "header", "cookie"}

EvaluateScheme(evidence, scheme) ==
    LET found == Lookup(evidence, scheme.in, scheme.key)
    IN  IF scheme.type # "apiKey" \/ scheme.in \notin KeyLocations
        THEN "unsupported"
        ELSE IF found = Absent THEN "missing"
        ELSE IF found.state = "captured" THEN "satisfied"
        ELSE "unavailable"

\* Mutant: the failures in the order of the exit codes' precedence.
WorstFailure_MissingFirst(truths) ==
    IF "missing" \in truths THEN "missing"
    ELSE IF "unavailable" \in truths THEN "unavailable"
    ELSE "unsupported"

\* compareBranchFailures by FAILURE_PRIORITY.
WorstFailure(truths) ==
    IF "unsupported" \in truths THEN "unsupported"
    ELSE IF "unavailable" \in truths THEN "unavailable"
    ELSE "missing"

\* evaluateBranch: all the schemes of a requirement.
EvaluateBranch(evidence, requirement) ==
    LET failures ==
            {EvaluateScheme(evidence, s) : s \in requirement} \ {"satisfied"}
    IN  IF requirement = {} THEN "optional"
        ELSE IF failures = {} THEN "satisfied"
        ELSE WorstFailure(failures)

\* selectOverallEvaluation: any requirement.
SelectOverall(truths) ==
    IF "satisfied" \in truths THEN "satisfied"
    ELSE IF "optional" \in truths THEN "optional"
    ELSE WorstFailure(truths)

\* computeHttpSecurityConformance, with buildBranchDefinitions.
SecurityTruth(evidence, security) ==
    IF ~security.declared THEN NoTruth
    ELSE IF security.requirements = {} THEN "clear"
    ELSE SelectOverall({EvaluateBranch(evidence, r) : r \in security.requirements})

\* isFailClosedHttpSecurityTruth
FailClosedSecurityTruths == {"missing", "unavailable", "unsupported"}

=============================================================================
