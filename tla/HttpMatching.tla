----------------------------- MODULE HttpMatching -----------------------------
(***************************************************************************)
(* How a recorded HTTP event finds the operation of the specification it   *)
(* is evidence for: once as the TypeScript analyzer does it (computeCoverage,*)
(* and the same code again in the payload, request and security passes),   *)
(* once as OperationMatcher of yanote-core does it.                        *)
(*                                                                         *)
(* A route is a record: its path segments in order, and whether it ends    *)
(* with a slash.  A template parameter fills a whole segment ("{id}"); a   *)
(* parameter inside a longer segment is left out.                          *)
(***************************************************************************)
EXTENDS Sequences

CONSTANTS
    Parameters,          \* the segments that are a template parameter
    CanonicalParameter,  \* "{param}", what normalizeTemplatedRoute writes
    CaseFold,            \* a segment's form under a case-insensitive regex
    Undecodable          \* segments on which decodeURIComponent throws

ASSUME MatchingAssumption ==
    /\ CanonicalParameter \in Parameters
    /\ Parameters \subseteq DOMAIN CaseFold

Route == [segments : Seq(DOMAIN CaseFold), slash : BOOLEAN]

\* normalizeTemplatedRoute: every {name} becomes {param}.
NormalizeTemplatedRoute(route) ==
    [segments |->
        [i \in DOMAIN route.segments |->
            IF route.segments[i] \in Parameters THEN CanonicalParameter
            ELSE route.segments[i]],
     slash |-> route.slash]

CanonicalOperation(operation) ==
    [method |-> operation.method,
     route  |-> NormalizeTemplatedRoute(operation.route)]

\* normalizeAndFilterOperations: operations that normalise to one key are one.
CanonicalOperations(declared) == {CanonicalOperation(o) : o \in declared}

OperationOf(event) == [method |-> event.method, route |-> event.route]

IsTemplate(route) ==
    \E i \in DOMAIN route.segments : route.segments[i] \in Parameters

-----------------------------------------------------------------------------
(* The TypeScript analyzer                                                 *)

\* match() of path-to-regexp with its defaults: literals compare without
\* case, one trailing slash more is tolerated, a parameter is any segment.
TemplateMatches(template, route) ==
    /\ Len(template.segments) = Len(route.segments)
    /\ \A i \in DOMAIN template.segments :
           \/ template.segments[i] = CanonicalParameter
           \/ CaseFold[template.segments[i]] = CaseFold[route.segments[i]]
    /\ template.slash => route.slash

FallbackCandidates(operations, event) ==
    {o \in operations :
        /\ IsTemplate(o.route)
        /\ o.method = event.method
        /\ TemplateMatches(o.route, event.route)}

\* match() decodes what the parameters captured and lets the error through.
DecodingThrows(candidates, event) ==
    \E o \in candidates : \E i \in DOMAIN o.route.segments :
        /\ o.route.segments[i] = CanonicalParameter
        /\ event.route.segments[i] \in Undecodable

Verdict(kind, operations) == [kind |-> kind, operations |-> operations]

VerdictOf(candidates) ==
    IF candidates = {} THEN Verdict("unmatched", {})
    ELSE IF \E o \in candidates : candidates = {o}
    THEN Verdict("matched", candidates)
    ELSE Verdict("ambiguous", candidates)

\* Mutant: the first candidate wins.
ResolveOperation_FirstCandidate(operations, event) ==
    LET candidates == FallbackCandidates(operations, event)
    IN  IF OperationOf(event) \in operations
        THEN Verdict("matched", {OperationOf(event)})
        ELSE IF DecodingThrows(candidates, event) THEN Verdict("throws", {})
        ELSE IF candidates = {} THEN Verdict("unmatched", {})
        ELSE Verdict("matched", {CHOOSE o \in candidates : TRUE})

\* Mutant: no exact lookup before the templates.
ResolveOperation_TemplatesOnly(operations, event) ==
    LET candidates == FallbackCandidates(operations, event)
    IN  IF DecodingThrows(candidates, event) THEN Verdict("throws", {})
        ELSE VerdictOf(candidates)

\* The loop body of computeCoverage up to recordOperationEvidence: exact key
\* first, then the templates, which must leave one operation.
ResolveOperation(operations, event) ==
    LET candidates == FallbackCandidates(operations, event)
    IN  IF OperationOf(event) \in operations
        THEN Verdict("matched", {OperationOf(event)})
        ELSE IF DecodingThrows(candidates, event) THEN Verdict("throws", {})
        ELSE VerdictOf(candidates)

-----------------------------------------------------------------------------
(* The Java runtime                                                        *)

\* compileTemplatePattern: the template's own text, "[^/]+" per parameter.
JavaTemplateMatches(template, route) ==
    /\ Len(template.segments) = Len(route.segments)
    /\ \A i \in DOMAIN template.segments :
           template.segments[i] \in Parameters \cup {route.segments[i]}
    /\ template.slash = route.slash

\* OperationMatcher.match
JavaMatch(operations, event) ==
    IF OperationOf(event) \in operations
    THEN Verdict("matched", {OperationOf(event)})
    ELSE VerdictOf({o \in operations :
                        /\ o.method = event.method
                        /\ IsTemplate(o.route)
                        /\ JavaTemplateMatches(o.route, event.route)})

=============================================================================
