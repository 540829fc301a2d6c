----------------------------- MODULE HttpCoverage -----------------------------
(***************************************************************************)
(* computeCoverage: the analyzer reads the events of the log one by one,   *)
(* in whatever order concurrent recorders wrote them, gives each to one    *)
(* operation or to a diagnostic, and scores what it gathered.  The Java    *)
(* CoverageCalculator reads the same log; what it would answer is stated   *)
(* beside it.                                                              *)
(***************************************************************************)
EXTENDS OpenApiModel, CoverageDimensions, SequencesExt

CONSTANTS
    Documents,       \* the specifications tried
    Events,          \* the events a recorder may have written
    MaxEvents        \* bound: the length of the log

ASSUME EventsAssumption == \A e \in Events : e.route \in Route
ASSUME BoundAssumption == MaxEvents \in Nat

\* A document that is accepted declares finitely many things, under routes.
ASSUME DocumentsAssumption ==
    \A doc \in {d \in Documents : ~HasInvalid(d)} :
        /\ IsFiniteSet(HttpOperations(doc))
        /\ \A o \in HttpOperations(doc) :
               /\ o.route \in Route
               /\ IsFiniteSet(ContractOf(doc, o).statuses)
               /\ IsFiniteSet(ContractOf(doc, o).parameters)

VARIABLES
    document,     \* the specification
    operations,   \* the operations in scope, canonical, exclusions removed
    contracts,    \* operationContractsByKey, for every operation in scope
    log,          \* the events read so far, in order
    evidence,     \* evidenceByOperation, for every operation in scope
    diagnostics,  \* the diagnostics so far, in order
    thrown        \* an event made the loop throw

vars == <<document, operations, contracts, log, evidence, diagnostics, thrown>>

NoEvidence ==
    [suites |-> {}, statuses |-> {}, queryKeys |-> {}, headerKeys |-> {}]

Diagnostic(event, verdict) ==
    [kind |-> verdict.kind, event |-> OperationOf(event),
     candidates |-> verdict.operations]

EvidenceType ==
    [suites     : SUBSET {e.suite : e \in Events},
     statuses   : SUBSET {e.status : e \in Events},
     queryKeys  : SUBSET UNION {e.queryKeys : e \in Events},
     headerKeys : SUBSET UNION {e.headerKeys : e \in Events}]

DiagnosticType ==
    [kind : {"unmatched", "ambiguous"},
     event : {OperationOf(e) : e \in Events},
     candidates : SUBSET operations]

\* The log, the evidence of every operation in scope, and diagnostics that
\* name only those.
TypeOK ==
    /\ document \in Documents
    /\ operations \subseteq CanonicalOperations(HttpOperations(document))
    /\ contracts = [o \in operations |-> ContractOf(document, o)]
    /\ log \in Seq(Events) /\ Len(log) <= MaxEvents
    /\ evidence \in [operations -> EvidenceType]
    /\ diagnostics \in Seq(DiagnosticType)
    /\ thrown \in BOOLEAN

-----------------------------------------------------------------------------
(* The loop over the events                                                *)

\* The specification is one of those tried, and was not refused;
\* applyExclusionRules has taken any of its operations out.
Init ==
    /\ document \in {doc \in Documents : ~HasInvalid(doc)}
    /\ operations \in SUBSET CanonicalOperations(HttpOperations(document))
    /\ contracts = [o \in operations |-> ContractOf(document, o)]
    /\ log = <<>>
    /\ evidence = [o \in operations |-> NoEvidence]
    /\ diagnostics = <<>>
    /\ thrown = FALSE

Read(event) ==
    /\ ~thrown /\ Len(log) < MaxEvents
    /\ log' = Append(log, event)
    /\ UNCHANGED <<document, operations, contracts>>

\* Mutant: an event overwrites the evidence of the ones before it.
RecordOperationEvidence_Overwrites(operation, event) ==
    [evidence EXCEPT ![operation] =
        [suites |-> {event.suite}, statuses |-> {event.status},
         queryKeys |-> event.queryKeys, headerKeys |-> event.headerKeys]]

\* recordOperationEvidence.  "observed" is that some suite is recorded.
RecordOperationEvidence(operation, event) ==
    [evidence EXCEPT ![operation] =
        [suites     |-> @.suites \cup {event.suite},
         statuses   |-> @.statuses \cup {event.status},
         queryKeys  |-> @.queryKeys \cup event.queryKeys,
         headerKeys |-> @.headerKeys \cup event.headerKeys]]

Credit(event) ==
    LET verdict == ResolveOperation(operations, event)
    IN  /\ Read(event)
        /\ verdict.kind = "matched"
        /\ \E o \in verdict.operations :
               evidence' = RecordOperationEvidence(o, event)
        /\ UNCHANGED <<diagnostics, thrown>>

Diagnose(event) ==
    LET verdict == ResolveOperation(operations, event)
    IN  /\ Read(event)
        /\ verdict.kind \in {"unmatched", "ambiguous"}
        /\ diagnostics' = Append(diagnostics, Diagnostic(event, verdict))
        /\ UNCHANGED <<evidence, thrown>>

\* decodeURIComponent's URIError leaves computeCoverage; report fails on it.
Throw(event) ==
    /\ Read(event)
    /\ ResolveOperation(operations, event).kind = "throws"
    /\ thrown' = TRUE
    /\ UNCHANGED <<evidence, diagnostics>>

Next == \E event \in Events : Credit(event) \/ Diagnose(event) \/ Throw(event)

Spec == Init /\ [][Next]_vars

-----------------------------------------------------------------------------
(* computeDimensionSummaries over the evidence                             *)

Observed(o) == evidence[o].suites # {}

CoveredOperations == {o \in operations : Observed(o)}

StatusesOf(o)  == contracts[o].statuses
StatusesHit(o) == CoveredStatuses(StatusesOf(o), evidence[o].statuses)

RequiredOf(o)    == RequiredParameters(contracts[o].parameters)
RequiredHit(o)   == CoveredParameters(contracts[o].parameters, evidence[o])

OperationsPercent ==
    SummarizeDimension(Cardinality(CoveredOperations), Cardinality(operations))
StatusPercent ==
    SummarizeDimension(
        SumFunction([o \in operations |-> Cardinality(StatusesHit(o))]),
        SumFunction([o \in operations |-> Cardinality(StatusesOf(o))]))
ParametersPercent ==
    SummarizeDimension(
        SumFunction([o \in operations |-> Cardinality(RequiredHit(o))]),
        SumFunction([o \in operations |-> Cardinality(RequiredOf(o))]))
AggregatePercent ==
    SummarizeAggregate(OperationsPercent, StatusPercent, ParametersPercent)

-----------------------------------------------------------------------------
(* CoverageCalculator.calculate on the same log, for the operations that   *)
(* the Java core reads from the same specification                         *)

Excluded == CanonicalOperations(HttpOperations(document)) \ operations

JavaVerdicts ==
    LET scope == JavaOperations(document) \ Excluded
    IN  [i \in DOMAIN log |-> JavaMatch(scope, log[i])]

JavaCovered ==
    LET matched == {v \in ToSet(JavaVerdicts) : v.kind = "matched"}
    IN  UNION {v.operations : v \in matched}

\* semanticDiagnostics.addAll: none of a match, one of what is no match.
JavaDiagnosticsOf(verdict, event) ==
    IF verdict.kind = "matched" THEN <<>> ELSE <<Diagnostic(event, verdict)>>

JavaDiagnostics ==
    FlattenSeq([i \in DOMAIN log |-> JavaDiagnosticsOf(JavaVerdicts[i], log[i])])

-----------------------------------------------------------------------------
(* Properties                                                              *)

\* The routes both matchers read alike: no capitals, no trailing slash, no
\* undecodable escape.
Plain(route) ==
    /\ ~route.slash
    /\ \A i \in DOMAIN route.segments :
           LET s == route.segments[i]
           IN  CaseFold[s] = s /\ s \notin Undecodable

AllPlain == /\ \A o \in operations : Plain(o.route)
            /\ \A i \in DOMAIN log : Plain(log[i].route)

SameAnswer == /\ CoveredOperations = JavaCovered
              /\ diagnostics = JavaDiagnostics

\* The TypeScript analyzer and the Java calculator cover the same operations
\* and report the same diagnostics, in the same order, for every log of plain
\* routes: coverage.ts against OperationMatcher and CoverageCalculator.
RuntimesAgreeOnPlainRoutes ==
    AllPlain => SameAnswer

\* An event that carries the route the specification declares (parameter names
\* included) for an operation in scope.
Own(i) == CanonicalOperation(OperationOf(log[i]))

\* Matching is exact on (method, route) when the event's route is templated:
\* an event recorded under a declared template is evidence for its operation.
DeclaredRouteIsCredited ==
    ~thrown =>
        \A i \in DOMAIN log :
            Own(i) \in operations => log[i].suite \in evidence[Own(i)].suites

\* An event recorded under a declared route is either evidence for that very
\* operation or reported as ambiguous between it and others: the fallback never
\* gives it to another operation alone and never drops it as unmatched.
ReportedAmbiguous(i) ==
    \E k \in DOMAIN diagnostics :
        /\ diagnostics[k].event = OperationOf(log[i])
        /\ Own(i) \in diagnostics[k].candidates
        /\ diagnostics[k].candidates # {Own(i)}

DeclaredRouteIsNeverMisattributed ==
    ~thrown =>
        \A i \in DOMAIN log :
            Own(i) \in operations =>
                \/ log[i].suite \in evidence[Own(i)].suites
                \/ ReportedAmbiguous(i)

\* Every status seen on an operation that declares default counts for one of
\* its declared statuses: none is lost between the ranges and default.
DefaultLeavesNoStatusUncounted ==
    \A o \in operations :
        (\E t \in StatusesOf(o) : t.type = "default") =>
            \A s \in evidence[o].statuses :
                \E t \in StatusesHit(o) : MatchesStatusToken(s, t)

\* The operations that are written in the document, well or not, and are in
\* scope.
WrittenOperations ==
    (UNION {{KeyOf(document, i, m) : m \in DOMAIN document.items[i].operations} :
               i \in DOMAIN document.items}) \ Excluded

AllOf(total, Whole(_), Part(_)) ==
    total = "COVERED" <=> /\ \E o \in operations : Whole(o) # {}
                          /\ \A o \in operations : Part(o) = Whole(o)

\* The rounded summaries say what the document says: the operations are
\* COVERED exactly when each one that is written in the document has been
\* observed, and none of it got lost on the way from the paths to the scores;
\* a dimension is COVERED exactly when no operation misses anything of it, and
\* the aggregate only when the three dimensions are.
SummariesMatchOperations ==
    LET operationState == StateFromPercent(OperationsPercent)
        aggregateState == StateFromPercent(AggregatePercent)
        statusState    == StateFromPercent(StatusPercent)
        parameterState == StateFromPercent(ParametersPercent)
    IN  /\ operationState = "COVERED" <=>
               WrittenOperations # {} /\ CoveredOperations = WrittenOperations
        /\ AllOf(statusState, StatusesOf, StatusesHit)
        /\ AllOf(parameterState, RequiredOf, RequiredHit)
        /\ aggregateState = "COVERED" <=>
               {operationState, statusState, parameterState} = {"COVERED"}
        /\ aggregateState = "N/A" <=>
               "N/A" \in {operationState, statusState, parameterState}

\* Reading one more event never lowers a percentage, never makes a dimension
\* applicable or not, and never takes an operation's covered status back
\* (default included).
CoverageNeverShrinks ==
    [][/\ OperationsPercent <= OperationsPercent'
       /\ StatusPercent <= StatusPercent'
       /\ ParametersPercent <= ParametersPercent'
       /\ AggregatePercent <= AggregatePercent'
       /\ \A o \in operations : StatusesHit(o) \subseteq StatusesHit(o)']_vars

=============================================================================
