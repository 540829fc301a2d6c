----------------------------- MODULE HttpSummary -----------------------------
(***************************************************************************)
(* What the HTTP report command says at its end: the failures it has       *)
(* collected, the one that decides the exit code, and the list of issues   *)
(* of the summary, which has an order of its own.                          *)
(*                                                                         *)
(* Failures of one code and operation differ in their wording and are one  *)
(* here.  Warnings and the issues about exclusion rules are left out.      *)
(***************************************************************************)
EXTENDS HttpReport

\* A line of the log that is no event, a report that could not be written.
OtherFailures ==
    {Failure("input", "INPUT_EVENTS_INVALID_LINES", None),
     Failure("runtime", "RUNTIME_ERROR", None)}

FailClosed == Failure("semantic", "SEMANTIC_FAIL_CLOSED", None)

\* What executeReportCommand adds to failureCandidates after reading the log.
JudgedFailures(setting) ==
    EvaluateGateFailures(setting)
        \cup (IF ResolveReportStatus(setting) = "invalid" THEN {FailClosed} ELSE {})

-----------------------------------------------------------------------------
(* sortFailuresByPrecedence                                                *)

\* The codes an HTTP run may fail with, in their order.
SemanticCodes ==
    <<"SEMANTIC_HTTP_MISSING_SECURITY", "SEMANTIC_HTTP_UNAVAILABLE_SECURITY",
      "SEMANTIC_HTTP_UNSUPPORTED_SECURITY",
      "SEMANTIC_HTTP_INVALID_REQUEST_PARAMETER",
      "SEMANTIC_HTTP_UNAVAILABLE_REQUEST_PARAMETER",
      "SEMANTIC_HTTP_UNSUPPORTED_REQUEST_PARAMETER",
      "SEMANTIC_HTTP_INVALID_BODY", "SEMANTIC_HTTP_MISSING_BODY",
      "SEMANTIC_HTTP_MISSING_CONTENT_TYPE", "SEMANTIC_HTTP_MEDIA_TYPE_MISMATCH",
      "SEMANTIC_HTTP_UNSUPPORTED_MEDIA_TYPE",
      "SEMANTIC_HTTP_UNSUPPORTED_SCHEMA_FORMAT",
      "SEMANTIC_HTTP_UNSUPPORTED_SCHEMA", "SEMANTIC_FAIL_CLOSED">>

\* SEMANTIC_CODE_RANK
SemanticCodeRank(failure) ==
    IF failure.kind # "semantic" THEN 0
    ELSE CHOOSE n \in DOMAIN SemanticCodes : SemanticCodes[n] = failure.code

Precedes(f, g) ==
    \/ Gates!Precedence[f.kind] < Gates!Precedence[g.kind]
    \/ f.kind = g.kind /\ SemanticCodeRank(f) < SemanticCodeRank(g)

\* selectPrimaryFailure.  Operations and wording would tell more apart.
PrimaryFailures(failures) ==
    {f \in failures : \A g \in failures : ~Precedes(g, f)}

-----------------------------------------------------------------------------
(* collectIssues                                                           *)

Issue(rank, about) == [rank |-> rank, about |-> about]

\* diagnosticSeverity
DiagnosticIssues ==
    {Issue(IF d.kind = "ambiguous" THEN 1 ELSE 2, d) : d \in ToSet(diagnostics)}

\* A failure that is in the list already is not said again of its finding.
Listed(d, code, failures) == Failure("semantic", code, d.operation) \in failures

\* payloadDiagnosticSeverity
PayloadIssues(failures) ==
    {Issue(IF PayloadState[d.code] = "UNCOVERED" \/ d.code = "RECORDER_OMITTED"
           THEN 1 ELSE 2, d) :
        d \in {x \in PayloadDiagnostics :
                  IF x.code \in DOMAIN PayloadFailureCode
                  THEN ~Listed(x, PayloadFailureCode[x.code], failures)
                  ELSE x.code = "RECORDER_OMITTED"}}

\* requestDiagnosticSeverity
RequestIssues(failures) ==
    {Issue(IF d.truth \in {"captured-invalid", "unsupported"} THEN 1 ELSE 2, d) :
        d \in {x \in RequestDiagnostics :
                  /\ x.truth # "captured-valid"
                  /\ ~Listed(x, RequestFailureCode[x.truth], failures)}}

\* securityDiagnosticSeverity
SecurityIssues(failures) ==
    {Issue(1, d) :
        d \in {x \in SecurityDiagnostics :
                  /\ x.truth \notin {"satisfied", "optional", "clear"}
                  /\ ~Listed(x, SecurityFailureCode[x.truth], failures)}}

UncoveredIssues == {Issue(2, o) : o \in operations \ CoveredOperations}

CollectIssues(failures) ==
    DiagnosticIssues \cup PayloadIssues(failures) \cup RequestIssues(failures)
        \cup SecurityIssues(failures) \cup UncoveredIssues
        \cup {Issue(0, f) : f \in failures}

-----------------------------------------------------------------------------
(* The first of the issues                                                 *)

\* By text: GATE_MIN_COVERAGE, GATE_REGRESSION_..., then the other classes.
SortKey == [threshold |-> 0, regression |-> 1, input |-> 2, runtime |-> 3,
            semantic |-> 4]

\* The issues that sorting may put first; those of rank 0 are failures.
SortedFirst(issues) ==
    {x \in issues : \A y \in issues :
        \/ x.rank < y.rank
        \/ /\ x.rank = y.rank
           /\ x.rank = 0 => SortKey[x.about.kind] <= SortKey[y.about.kind]}

\* Mutant: the list is only sorted.
FirstIssues_OnlySorted(issues, failures) == SortedFirst(issues)

\* prioritizePrimaryIssue takes the primary failure to the front.
FirstIssues(issues, failures) ==
    IF failures = {} THEN SortedFirst(issues)
    ELSE {x \in issues : x.rank = 0 /\ x.about \in PrimaryFailures(failures)}

\* The end of executeReportCommand: formatSummaryOutput, then the exit code.
\* Unless the run is verbose, the output ends after five issues.
SummaryOutput(failures) ==
    LET issues == CollectIssues(failures)
    IN  [exit   |-> Gates!ExitCode({f.kind : f \in failures}),
         first  |-> FirstIssues(issues, failures),
         listed |-> {x.about : x \in issues}]

-----------------------------------------------------------------------------
(* Properties                                                              *)

\* The first issue is a failure of the kind that gives the exit code.
TellsExitCode(first, exit) ==
    IF exit = 0 THEN first.rank > 0
    ELSE /\ first.rank = 0
         /\ Gates!EXIT[first.about.kind] = exit
         /\ exit = Gates!EXIT.semantic =>
                (first.about = FailClosed <=> SemanticFailures = {})

\* The operations of the events that fit one and fail something of it.
FaultyOperations ==
    {o \in operations : \E i \in DOMAIN log :
        Fitting(log[i]) = {o} /\ ~Passing(o, log[i])}

ShowsVerdict(summary) ==
    /\ \A x \in summary.first : TellsExitCode(x, summary.exit)
    /\ summary.exit # 0 => summary.first # {}
    /\ ToSet(diagnostics) \cup (operations \ CoveredOperations) \subseteq summary.listed
    /\ FaultyOperations \subseteq
           {f.operation : f \in SemanticFailures \cap summary.listed}

\* The first line a reader sees tells why the run ended as it did: it is a
\* failure of the kind that gave the exit code, and it names an operation
\* whenever the run failed on a finding; a run that gives 0 shows no failure.
\* Nothing that is wrong is left out of the whole list: neither an event without an
\* operation, nor an operation without an event, nor a finding that fails.
VerdictIsShown ==
    ~thrown =>
        \A setting \in Settings :
            LET judged == JudgedFailures(setting)
            IN  \A others \in SUBSET OtherFailures :
                    ShowsVerdict(SummaryOutput(others \cup judged))

=============================================================================
