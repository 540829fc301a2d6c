---------------------------- MODULE AsyncCoverage ----------------------------
(***************************************************************************)
(* computeAsyncCoverage and what is made of it: which channels, operations *)
(* and messages of a document the events cover, the diagnostics, the       *)
(* status of the report and the failures of the gates.  The order of the   *)
(* events and how often each occurs make no difference, so that the        *)
(* evidence is a set of events.                                            *)
(***************************************************************************)
EXTENDS AsyncConformance, Governance

-----------------------------------------------------------------------------
(* Coverage                                                                *)

OperationKey(event) ==
    [kind |-> event.kind, action |-> event.action, channel |-> event.channel]

Matched(doc, events) ==
    {e \in events : OperationKey(e) \in DeclaredOperations(doc)}

MatchedContract(doc, event) == ContractOf(doc, OperationKey(event))

\* An event covers its operation whatever its message turns out to be.
CoveredKeys(doc, events) == {OperationKey(e) : e \in Matched(doc, events)}

DeclaredChannels(doc) == {o.channel : o \in DeclaredOperations(doc)}

\* A channel is covered by an event of either action.
CoveredChannels(doc, events) ==
    {c \in DeclaredChannels(doc) :
        \E e \in events : e.channel = c /\ e.kind = Protocol(doc)}

DeclaredMessages(doc) ==
    UNION {{<<o, Identity(c)>> : c \in ContractOf(doc, o).messages} :
              o \in DeclaredOperations(doc)}

\* The events whose message is known.
Selecting(doc, events) ==
    {e \in Matched(doc, events) :
        Resolution(MatchedContract(doc, e).messages, e) = "selected"}

MessageOf(doc, event) ==
    SelectedMessage(MatchedContract(doc, event).messages, event)

CoveredMessages(doc, events) ==
    {<<OperationKey(e), Identity(MessageOf(doc, e))>> :
        e \in Selecting(doc, events)}

-----------------------------------------------------------------------------
(* Diagnostics                                                             *)

RoutingDiagnostics(doc, events) ==
    ({Resolution(MatchedContract(doc, e).messages, e) : e \in Matched(doc, events)}
        \cap {"mismatched", "ambiguous"})
    \cup {IF OperationKey(e) \in AmbiguousOperations(doc) THEN "ambiguous"
          ELSE "unmatched" : e \in events \ Matched(doc, events)}

PublicDiagnostics(doc, events) ==
    {d.kind : d \in
        {x \in UNION {SchemaDiagnostics(MessageOf(doc, e), e) :
                         e \in Selecting(doc, events)} : IsPublic(x.schema)}}

\* Proofs are asked for of Kafka operations only.
ProofDiagnostics(doc, events) ==
    (UNION {SemanticOutcomes(MatchedContract(doc, e), e) :
              e \in {x \in Matched(doc, events) : x.kind = "kafka"}})
        \ {"satisfied"}

Diagnostics(doc, events) ==
    RoutingDiagnostics(doc, events) \cup PublicDiagnostics(doc, events)
        \cup ProofDiagnostics(doc, events)

-----------------------------------------------------------------------------
(* The report and the gates                                                *)

\* resolveAsyncCoverageState
CoverageState(declared, covered) ==
    IF declared = {} THEN "N/A"
    ELSE IF covered = {} THEN "UNCOVERED"
    ELSE IF covered = declared THEN "COVERED"
    ELSE "PARTIAL"

\* resolveAsyncReportStatus
ReportStatus(doc, events) ==
    IF /\ Diagnostics(doc, events) = {}
       /\ {CoverageState(DeclaredChannels(doc), CoveredChannels(doc, events)),
           CoverageState(DeclaredOperations(doc), CoveredKeys(doc, events)),
           CoverageState(DeclaredMessages(doc), CoveredMessages(doc, events))}
             = {"COVERED"}
    THEN "ok" ELSE "partial"

\* toSemanticFailure and toRuntimeSemanticFailure: a diagnostic of any kind is
\* an error.
SemanticFailures(doc, events) ==
    IF Diagnostics(doc, events) = {} THEN {} ELSE {"semantic"}

\* evaluateAsyncThresholdGate
AsyncThresholdFailures(policy, doc, events) ==
    ThresholdFailures(policy, DeclaredOperations(doc),
                      CoveredKeys(doc, events), Unset)

\* evaluateAsyncGateFailures, without the baseline that async-report does
\* not have.  A diagnostic silences the threshold.
AsyncGateFailures(policy, doc, events) ==
    IF SemanticFailures(doc, events) # {} THEN SemanticFailures(doc, events)
    ELSE AsyncThresholdFailures(policy, doc, events)

=============================================================================
