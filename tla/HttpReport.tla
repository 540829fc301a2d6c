----------------------------- MODULE HttpReport -----------------------------
(***************************************************************************)
(* What the report of an HTTP run makes of the log that computeCoverage    *)
(* has read.  Three more passes go over the same events, for the payloads, *)
(* the parameters and the security; each looks the operation of an event   *)
(* up again, with code of its own, and keeps counters of its own.          *)
(* buildReport sums the counters up and gives the report its status.       *)
(*                                                                         *)
(* What one payload, parameter or security requirement is found to be is   *)
(* told by PayloadConformance and RequestConformance; here it is a         *)
(* constant.  The branches of a security requirement are left out: only    *)
(* the truth of the whole is.                                              *)
(***************************************************************************)
EXTENDS HttpCoverage

CONSTANTS
    PayloadCode(_, _, _),   \* of a target, for an operation and an event
    ParameterTruths(_, _),  \* the truths found for an operation and an event,
                            \* by declared parameter
    SecurityTruth(_, _),    \* the truth of the whole requirement
    Policies                \* the gate policies a run may have resolved

Gates == INSTANCE Governance
             WITH Operations <- {}, Unset <- Undefined, Null <- Malformed

None == "none"     \* no diagnostic

Targets == {"request", "response"}

\* The state of a diagnostic, by its code.
PayloadState ==
    [VALID |-> "COVERED",
     INVALID_BODY |-> "UNCOVERED", MISSING_BODY |-> "UNCOVERED",
     MISSING_CONTENT_TYPE |-> "UNCOVERED", MEDIA_TYPE_MISMATCH |-> "UNCOVERED",
     UNSUPPORTED_MEDIA_TYPE |-> "SKIPPED", UNSUPPORTED_SCHEMA_FORMAT |-> "SKIPPED",
     UNSUPPORTED_SCHEMA |-> "SKIPPED", NO_DECLARED_CONTENT |-> "SKIPPED",
     RECORDER_OMITTED |-> "SKIPPED"]

RequestTruths ==
    {"captured-valid", "captured-invalid", "redacted", "omitted", "unsupported"}

SecurityTruths ==
    {"satisfied", "missing", "unavailable", "unsupported", "optional", "clear"}

ASSUME FindingsAssumption ==
    \A e \in Events, doc \in {d \in Documents : ~HasInvalid(d)} :
        \A o \in HttpOperations(doc) :
            /\ \A t \in Targets : PayloadCode(t, o, e) \in {None} \cup DOMAIN PayloadState
            /\ IsFiniteSet(DOMAIN ParameterTruths(o, e))
            /\ \A p \in DOMAIN ParameterTruths(o, e) :
                   ParameterTruths(o, e)[p] \in RequestTruths
            /\ SecurityTruth(o, e) \in {None} \cup SecurityTruths

-----------------------------------------------------------------------------
(* The passes.  computeCoverage has thrown before if the look-up throws;   *)
(* what fits no operation, or several, is passed over without a word.      *)

\* resolveOperation, which each pass has a copy of: at most one operation.
LookUp(event) ==
    LET candidates == FallbackCandidates(operations, event)
    IN  IF OperationOf(event) \in operations THEN {OperationOf(event)}
        ELSE IF Cardinality(candidates) = 1 THEN candidates
        ELSE {}

PayloadLookUp  == [i \in DOMAIN log |-> LookUp(log[i])]
RequestLookUp  == [i \in DOMAIN log |-> LookUp(log[i])]
SecurityLookUp == [i \in DOMAIN log |-> LookUp(log[i])]

\* The events a pass goes into, each with its operation.
Observations(pass) ==
    UNION {{[event |-> i, operation |-> o] : o \in pass[i]} : i \in DOMAIN log}

\* A request and a response are judged by what the contract declares.
PayloadDiagnostics ==
    {d \in {[event |-> x.event, operation |-> x.operation, target |-> t,
             code |-> PayloadCode(t, x.operation, log[x.event])] :
                x \in Observations(PayloadLookUp), t \in Targets} :
        d.code # None}

RequestDiagnosticsOf(x) ==
    LET truths == ParameterTruths(x.operation, log[x.event])
    IN  {[event |-> x.event, operation |-> x.operation, parameter |-> p,
          truth |-> truths[p]] : p \in DOMAIN truths}

RequestDiagnostics ==
    UNION {RequestDiagnosticsOf(x) : x \in Observations(RequestLookUp)}

\* None is of an operation without a requirement.
SecurityDiagnostics ==
    {d \in {[event |-> x.event, operation |-> x.operation,
             truth |-> SecurityTruth(x.operation, log[x.event])] :
                x \in Observations(SecurityLookUp)} :
        d.truth # None}

\* observedCount and suites of an operation's counters tell of these.
EventsOf(pass, o) ==
    {x.event : x \in {y \in Observations(pass) : y.operation = o}}

-----------------------------------------------------------------------------
(* The sections of the report: counts of findings, and sums of them        *)

SumOver(S, Count(_)) == SumFunction([x \in S |-> Count(x)])

\* recordTargetOutcome
TargetCount(o, t, state) ==
    Cardinality({d \in PayloadDiagnostics :
        d.operation = o /\ d.target = t /\ PayloadState[d.code] = state})

\* summarizeTargetState
TargetState(valid, invalid, skipped) ==
    IF valid > 0 /\ invalid = 0 /\ skipped = 0 THEN "COVERED"
    ELSE IF valid > 0 THEN "PARTIAL"
    ELSE IF invalid > 0 THEN "UNCOVERED"
    ELSE IF skipped > 0 THEN "SKIPPED"
    ELSE "N/A"

StateOfTarget(o, t) ==
    TargetState(TargetCount(o, t, "COVERED"), TargetCount(o, t, "UNCOVERED"),
                TargetCount(o, t, "SKIPPED"))

SummarizePayloadTarget(t) ==
    [operations |-> [state \in {"COVERED", "PARTIAL", "UNCOVERED", "SKIPPED", "N/A"} |->
         Cardinality({o \in operations : StateOfTarget(o, t) = state})],
     findings |-> [state \in Range(PayloadState) |->
         SumOver(operations, LAMBDA o : TargetCount(o, t, state))]]

CountPayloadDiagnostics(state) ==
    Cardinality({d \in PayloadDiagnostics : PayloadState[d.code] = state})

\* buildHttpPayloadConformanceSection
PayloadSection ==
    [summary |-> [t \in Targets |-> SummarizePayloadTarget(t)],
     counts  |-> [state \in Range(PayloadState) |-> CountPayloadDiagnostics(state)]]

\* summarizeRequestTruths: of an operation's parameters.
OperationTruths(o) ==
    [truth \in RequestTruths |->
        Cardinality({d \in RequestDiagnostics : d.operation = o /\ d.truth = truth})]

\* buildHttpRequestConformanceSection
RequestSection ==
    [observedOperations |->
         Cardinality({o \in operations : EventsOf(RequestLookUp, o) # {}}),
     observedParameters |-> Cardinality(RequestDiagnostics),
     perOperation |-> [o \in operations |-> OperationTruths(o)],
     counts |-> [truth \in RequestTruths |->
         Cardinality({d \in RequestDiagnostics : d.truth = truth})]]

OverallTruths(o) ==
    [truth \in SecurityTruths |->
        Cardinality({d \in SecurityDiagnostics : d.operation = o /\ d.truth = truth})]

SecurityTruthCount(truth) ==
    Cardinality({d \in SecurityDiagnostics : d.truth = truth})

\* buildHttpSecurityConformanceSection
SecuritySection ==
    [observedOperations |->
         Cardinality({o \in operations : EventsOf(SecurityLookUp, o) # {}}),
     observedEvaluations |-> SumOver(SecurityTruths, SecurityTruthCount),
     perOperation |-> [o \in operations |-> OverallTruths(o)],
     counts |-> [truth \in SecurityTruths |-> SecurityTruthCount(truth)]]

\* countDiagnostics.  No event makes a diagnostic of kind "invalid".
DiagnosticCount(kind) ==
    Cardinality({i \in DOMAIN diagnostics : diagnostics[i].kind = kind})

-----------------------------------------------------------------------------
(* The failures and the status                                             *)

Failure(kind, code, operation) ==
    [kind |-> kind, code |-> code, operation |-> operation]

PayloadFailureCode ==
    [INVALID_BODY |-> "SEMANTIC_HTTP_INVALID_BODY",
     MISSING_BODY |-> "SEMANTIC_HTTP_MISSING_BODY",
     MISSING_CONTENT_TYPE |-> "SEMANTIC_HTTP_MISSING_CONTENT_TYPE",
     MEDIA_TYPE_MISMATCH |-> "SEMANTIC_HTTP_MEDIA_TYPE_MISMATCH",
     UNSUPPORTED_MEDIA_TYPE |-> "SEMANTIC_HTTP_UNSUPPORTED_MEDIA_TYPE",
     UNSUPPORTED_SCHEMA_FORMAT |-> "SEMANTIC_HTTP_UNSUPPORTED_SCHEMA_FORMAT",
     UNSUPPORTED_SCHEMA |-> "SEMANTIC_HTTP_UNSUPPORTED_SCHEMA"]

RequestFailureCode ==
    [t \in {"captured-invalid", "redacted", "omitted", "unsupported"} |->
        CASE t = "captured-invalid" -> "SEMANTIC_HTTP_INVALID_REQUEST_PARAMETER"
          [] t = "unsupported"      -> "SEMANTIC_HTTP_UNSUPPORTED_REQUEST_PARAMETER"
          [] OTHER                  -> "SEMANTIC_HTTP_UNAVAILABLE_REQUEST_PARAMETER"]

SecurityFailureCode ==
    [missing     |-> "SEMANTIC_HTTP_MISSING_SECURITY",
     unavailable |-> "SEMANTIC_HTTP_UNAVAILABLE_SECURITY",
     unsupported |-> "SEMANTIC_HTTP_UNSUPPORTED_SECURITY"]

\* classifyHttpPayloadDiagnostic, of each diagnostic
PayloadFailures ==
    {Failure("semantic", PayloadFailureCode[d.code], d.operation) :
        d \in {x \in PayloadDiagnostics : x.code \in DOMAIN PayloadFailureCode}}

RequestFailures ==
    {Failure("semantic", RequestFailureCode[d.truth], d.operation) :
        d \in {x \in RequestDiagnostics : x.truth \in DOMAIN RequestFailureCode}}

SecurityFailures ==
    {Failure("semantic", SecurityFailureCode[d.truth], d.operation) :
        d \in {x \in SecurityDiagnostics : x.truth \in DOMAIN SecurityFailureCode}}

SemanticFailures == SecurityFailures \cup RequestFailures \cup PayloadFailures

\* The policy of the run, and the operations its baseline has for covered.
Settings == [policy : Policies, baseline : {{}, operations}]

\* The raw aggregate, in whole percent as the policy's.
RawAggregate ==
    IF AggregatePercent = NotApplicable THEN Undefined ELSE AggregatePercent \div 100

\* evaluateGateFailures: a failed finding silences the gates.
EvaluateGateFailures(setting) ==
    LET missing == Gates!MissingCoveredOperations(setting.baseline, operations,
                                                  CoveredOperations)
        kinds   == Gates!GateFailures(setting.policy, SemanticFailures # {}, operations,
                                      CoveredOperations, RawAggregate, missing)
    IN  SemanticFailures
            \cup {Failure(kind, None, None) : kind \in kinds \ {"semantic"}}

\* Mutant: the report takes the failures of its own passes only.
GovernanceDiagnostics_OwnOnly(setting) == SecurityFailures \cup PayloadFailures

\* mergeGovernanceDiagnostics: the report classifies security and payloads
\* itself; that a parameter fails it has from the gates alone.
GovernanceDiagnostics(setting) ==
    SecurityFailures \cup PayloadFailures \cup EvaluateGateFailures(setting)

\* resolveReportStatus
ResolveReportStatus(setting) ==
    IF DiagnosticCount("ambiguous") > 0 THEN "invalid"
    ELSE IF \/ \E f \in GovernanceDiagnostics(setting) : f.kind = "semantic"
            \/ CoveredOperations # operations
            \/ StateFromPercent(AggregatePercent) # "COVERED"
            \/ DiagnosticCount("unmatched") > 0
    THEN "partial"
    ELSE "ok"

\* buildReport, but for the status, which alone depends on the setting.
BuildReport ==
    [covered  |-> Cardinality(CoveredOperations),
     payload  |-> PayloadSection,
     request  |-> RequestSection,
     security |-> SecuritySection]

-----------------------------------------------------------------------------
(* Properties                                                              *)

\* The operations an event fits, the declared one before any template.
Fitting(event) ==
    IF OperationOf(event) \in operations THEN {OperationOf(event)}
    ELSE FallbackCandidates(operations, event)

\* A declared thing, and nothing missing of it.
Complete(Whole(_), Part(_)) ==
    /\ \E o \in operations : Whole(o) # {}
    /\ \A o \in operations : Part(o) = Whole(o)

\* What a finding may be without failing the run.
Passing(o, event) ==
    /\ \A t \in Targets : PayloadCode(t, o, event) \in
           {None, "VALID", "NO_DECLARED_CONTENT", "RECORDER_OMITTED"}
    /\ Range(ParameterTruths(o, event)) \subseteq {"captured-valid"}
    /\ SecurityTruth(o, event) \in {None, "satisfied", "optional", "clear"}

Blameless ==
    \A i \in DOMAIN log :
        \E o \in operations : Fitting(log[i]) = {o} /\ Passing(o, log[i])

FullyCovered ==
    /\ WrittenOperations # {}
    /\ \A o \in WrittenOperations : \E i \in DOMAIN log : Fitting(log[i]) = {o}
    /\ Complete(StatusesOf, StatusesHit)
    /\ Complete(RequiredOf, RequiredHit)

StatusTellsTheLog(status) ==
    /\ status = "invalid" <=>
           \E i \in DOMAIN log : Cardinality(Fitting(log[i])) > 1
    /\ status = "ok" <=> Blameless /\ FullyCovered

\* What the pass found the payloads of one target to be.
CodesOf(o, t) ==
    {PayloadCode(t, o, log[i]) : i \in EventsOf(PayloadLookUp, o)} \ {None}

SameSuites ==
    \A o \in operations :
        LET Suites(pass) == {log[i].suite : i \in EventsOf(pass, o)}
        IN  {Suites(PayloadLookUp), Suites(RequestLookUp), Suites(SecurityLookUp)}
                = {evidence[o].suites}

SectionsAgree(report) ==
    /\ report.request.observedOperations = report.covered
    /\ report.security.observedOperations = report.covered
    /\ \A t \in Targets :
           report.payload.summary[t].operations["COVERED"] =
               Cardinality({o \in operations : CodesOf(o, t) = {"VALID"}})
    /\ \A truth \in RequestTruths :
           report.request.counts[truth] =
               SumOver(operations, LAMBDA o : report.request.perOperation[o][truth])
    /\ report.security.observedEvaluations =
           Cardinality({i \in DOMAIN log : \E o \in operations :
               Fitting(log[i]) = {o} /\ SecurityTruth(o, log[i]) # None})

\* The status of the report is what the log and the document say: "invalid" if
\* some event fits several operations, "ok" if every event fits one operation
\* and fails nothing there, each operation written in the document has one,
\* and none of its statuses and parameters is missing; whatever the gates say,
\* though security, payload and parameter findings come to it on different
\* ways.  And its sections do not contradict each other: the coverage and the
\* three passes have seen the same suites at each operation, and so count the
\* same operations as observed; an operation's payloads count as covered
\* exactly when there are some and each is valid; and every call with a
\* requirement that fits one operation is evaluated once.
ReportTellsTheLog ==
    ~thrown =>
        /\ SameSuites
        /\ SectionsAgree(BuildReport)
        /\ \A setting \in Settings : StatusTellsTheLog(ResolveReportStatus(setting))

=============================================================================
