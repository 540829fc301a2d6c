------------------------- MODULE AsyncReportProofs -------------------------
(***************************************************************************)
(* Proofs about `yanote async-report`: whatever the document, the evidence *)
(* and the policy are, and through any number of runs, failures and kills, *)
(* a green run deserves it, an "ok" report shows what it says, the exit    *)
(* code tells what lies under the two names, and the directory of a        *)
(* fetched specification is accounted for.                                 *)
(*                                                                         *)
(* The inductive invariant has, next to the types, five parts.  SourceInv  *)
(* follows the temporary directory; FilesInv ties the state of the two     *)
(* writes to what the files hold and to how far the run has come;          *)
(* GreenInv says that a run that has got past its analysis without a       *)
(* failure is clean; ReportInv, that what is under way with a report of    *)
(* this run is what its analysis found; ExitInv ties the exit code to the  *)
(* failures.                                                               *)
(***************************************************************************)
EXTENDS AsyncReport, FiniteSetTheorems, WellFoundedInduction, TLAPS

-----------------------------------------------------------------------------
(* The failure that takes precedence                                       *)

\* Every failure has a rank of its own, so that one of them comes first.
LEMMA PrimaryIsAFailure ==
    ASSUME NEW F \in SUBSET FailureKinds, F # {}
    PROVE  PrimaryFailure(F) \in F
<1> DEFINE first(k) == \A other \in F : Precedence[k] <= Precedence[other]
<1>1. \E k \in F : first(k)
  <2>1. CASE "input" \in F
    BY <2>1 DEF FailureKinds, Precedence
  <2>2. CASE "input" \notin F /\ "semantic" \in F
    BY <2>2 DEF FailureKinds, Precedence
  <2>3. CASE {"input", "semantic"} \cap F = {} /\ "regression" \in F
    BY <2>3 DEF FailureKinds, Precedence
  <2>4. CASE {"input", "semantic", "regression"} \cap F = {} /\ "threshold" \in F
    BY <2>4 DEF FailureKinds, Precedence
  <2>5. CASE F = {"runtime"}
    BY <2>5 DEF FailureKinds, Precedence
  <2> QED BY <2>1, <2>2, <2>3, <2>4, <2>5 DEF FailureKinds
<1> QED BY <1>1 DEF PrimaryFailure

\* The exit code is that of a failure, and 0 only without one.
LEMMA ExitCodeOfFailures ==
    ASSUME NEW F \in SUBSET FailureKinds
    PROVE  /\ ExitCode(F) \in {0, 2, 3, 4, 5, 6}
           /\ ExitCode(F) = 0 => F = {}
           /\ F = {} => ExitCode(F) = 0
           /\ F = {"runtime"} => ExitCode(F) = 6
           /\ F \subseteq {"input", "runtime"} => ExitCode(F) \in {0, 2, 6}
<1>1. CASE F = {}
  BY <1>1 DEF ExitCode
<1>2. CASE F # {}
  <2>1. PrimaryFailure(F) \in F
    BY <1>2, PrimaryIsAFailure
  <2>2. ExitCode(F) = EXIT[PrimaryFailure(F)]
    BY <1>2 DEF ExitCode
  <2>3. ASSUME NEW k \in FailureKinds
        PROVE  /\ EXIT[k] \in {2, 3, 4, 5, 6}
               /\ k = "runtime" => EXIT[k] = 6
               /\ k \in {"input", "runtime"} => EXIT[k] \in {2, 6}
    BY DEF EXIT, FailureKinds
  <2> QED BY <1>2, <2>1, <2>2, <2>3
<1> QED BY <1>1, <1>2

-----------------------------------------------------------------------------
(* Percentages                                                             *)

\* Where no percentage is below the threshold, the threshold is reached;
\* without operations it always is.
LEMMA PercentReached ==
    ASSUME NEW all, IsFiniteSet(all), NEW covered \in SUBSET all,
           NEW percent \in Nat, ~OperationPercentBelow(all, covered, percent)
    PROVE  100 * Cardinality(covered) >= percent * Cardinality(all)
<1>1. Cardinality(all) \in Nat /\ Cardinality(covered) \in Nat
  BY FS_Subset, FS_CardinalityType
<1>2. CASE all = {}
  <2>1. Cardinality(all) = 0
    BY <1>2, FS_EmptySet
  <2> QED BY <1>1, <2>1
<1>3. CASE all # {}
  <2>1. ~(100 * Cardinality(covered) < percent * Cardinality(all))
    BY <1>3 DEF OperationPercentBelow
  <2>2. percent * Cardinality(all) \in Nat
    BY <1>1
  <2> QED BY <1>1, <2>1, <2>2
<1> QED BY <1>2, <1>3

\* Where everything is covered, no percentage is too low.
LEMMA FullCoverageIsEnough ==
    ASSUME NEW all, IsFiniteSet(all), NEW percent \in 0..100
    PROVE  ~OperationPercentBelow(all, all, percent)
<1>1. Cardinality(all) \in Nat
  BY FS_CardinalityType
<1>2. ~(100 * Cardinality(all) < percent * Cardinality(all))
  BY <1>1
<1> QED BY <1>2 DEF OperationPercentBelow

-----------------------------------------------------------------------------
(* What the analysis of messages establishes: no two messages of an        *)
(* operation share an identity, the message that is selected for an event  *)
(* is the only one it can be, and an analysis without a diagnostic leaves  *)
(* only events that deserve it.                                            *)

\* Of any numbers one is the least.
LEMMA LeastNumber ==
    ASSUME NEW numbers \in SUBSET Nat, numbers # {}
    PROVE  \E m \in numbers : \A n \in numbers : m <= n
<1> DEFINE less == {p \in Nat \X Nat : p[1] < p[2]}
<1>1. IsWellFoundedOn(less, Nat)
  BY NatLessThanWellFounded, Zenon DEF OpToRel
<1>2. PICK m \in numbers : \A n \in numbers : <<n, m>> \notin less
  BY <1>1, WFMin, Zenon
<1>3. \A n \in numbers : ~(n < m)
  BY <1>2
<1>4. \A n \in numbers : m <= n
  BY <1>3
<1> QED BY <1>4

-----------------------------------------------------------------------------
(* The identities of messages                                              *)

\* The messages of an operation that is normalised are told apart by their
\* identities: by their names, or by a header that fixes another value for
\* each (extractV3MessageContract refuses the others).
THEOREM IdentitiesAreDistinct ==
    ASSUME NEW messages, SelectionMode(messages) \in {"single", "runtime"},
           NEW c \in Contracts(messages), NEW d \in Contracts(messages),
           Identity(c) = Identity(d)
    PROVE  c = d
<1> DEFINE contracts == Contracts(messages)
<1>1. \/ \A x, y \in contracts : x = y
      \/ NamesDiffer(contracts)
      \/ DiscriminatingHeaders(contracts) # {}
  BY DEF SelectionMode
<1>2. c.name = d.name
  BY DEF Identity
<1>3. \A h \in Headers : HeaderHint(c, h) = HeaderHint(d, h)
  <2> TAKE h \in Headers
  <2>1. Identity(c).selectors[h] = HeaderHint(c, h)
    BY DEF Identity
  <2>2. Identity(d).selectors[h] = HeaderHint(d, h)
    BY DEF Identity
  <2> QED BY <2>1, <2>2
<1>4. CASE NamesDiffer(contracts)
  BY <1>2, <1>4 DEF NamesDiffer
<1>5. CASE DiscriminatingHeaders(contracts) # {}
  <2>1. PICK h \in Headers : Discriminates(h, contracts)
    BY <1>5 DEF DiscriminatingHeaders
  <2> QED BY <1>3, <2>1 DEF Discriminates
<1> QED BY <1>1, <1>4, <1>5

\* The messages of a declared operation are those of a node that was
\* normalised, the first one with its key.
LEMMA DeclaredOperationsWereNormalised ==
    ASSUME NEW doc, DOMAIN doc.nodes \subseteq Nat,
           NEW o \in DeclaredOperations(doc)
    PROVE  \/ ContractOf(doc, o).messages = {}
           \/ \E i \in DOMAIN doc.nodes :
                 /\ SelectionMode(doc.nodes[i].messages) \in {"single", "runtime"}
                 /\ ContractOf(doc, o).messages = Contracts(doc.nodes[i].messages)
<1> DEFINE positions == Positions(doc, o)
           first == CHOOSE i \in positions : \A j \in positions : i <= j
           node == doc.nodes[first]
<1>1. positions \in SUBSET Nat /\ positions # {}
  BY DEF Positions, DeclaredOperations
<1>2. first \in positions
  BY <1>1, LeastNumber
<1>3. first \in DOMAIN doc.nodes /\ Normalised(doc, node)
  BY <1>2 DEF Positions
<1>4. ContractOf(doc, o).messages =
         IF node.messages = None THEN {} ELSE Contracts(node.messages)
  BY DEF ContractOf
<1>5. node.messages # None => SelectionMode(node.messages) # "none"
  BY DEF SelectionMode
<1> QED BY <1>3, <1>4, <1>5 DEF Normalised

\* The identities of the messages of a declared operation tell them apart.
LEMMA MessagesAreToldApart ==
    ASSUME NEW doc, DOMAIN doc.nodes \subseteq Nat,
           NEW o \in DeclaredOperations(doc),
           NEW c \in ContractOf(doc, o).messages,
           NEW d \in ContractOf(doc, o).messages,
           Identity(c) = Identity(d)
    PROVE  c = d
<1>1. PICK i \in DOMAIN doc.nodes :
         /\ SelectionMode(doc.nodes[i].messages) \in {"single", "runtime"}
         /\ ContractOf(doc, o).messages = Contracts(doc.nodes[i].messages)
  BY DeclaredOperationsWereNormalised
<1> QED BY <1>1, IdentitiesAreDistinct

-----------------------------------------------------------------------------
(* The message that is selected                                            *)

\* Of any headers one comes first.
LEMMA HeadersHaveAFirst ==
    ASSUME NEW rules \in SUBSET Headers, rules # {}
    PROVE  FirstRule(rules) \in rules
<1> DEFINE ranks == {HeaderRank[h] : h \in rules}
<1>1. ranks \in SUBSET Nat /\ ranks # {}
  BY HeaderRankAssumption
<1>2. PICK m \in ranks : \A n \in ranks : m <= n
  BY <1>1, LeastNumber
<1>3. PICK h \in rules : HeaderRank[h] = m
  BY <1>2
<1>4. \A g \in rules : HeaderRank[h] <= HeaderRank[g]
  BY <1>2, <1>3
<1> QED BY <1>3, <1>4 DEF FirstRule

\* The message that is selected is one of the operation's, and the event can
\* be no other one.
LEMMA SelectedIsTheMessage ==
    ASSUME NEW contracts, NEW event, Resolution(contracts, event) = "selected"
    PROVE  /\ SelectedMessage(contracts, event) \in contracts
           /\ IsMessage(SelectedMessage(contracts, event), event, contracts)
<1> DEFINE named == Named(contracts, event)
           rules == AnsweredRules(contracts, event)
           m == SelectedMessage(contracts, event)
           first == FirstRule(rules)
<1>1. IsSingle(Candidates(contracts, event))
  BY DEF Resolution
<1>2. Candidates(contracts, event) \subseteq named /\ named \subseteq contracts
  BY DEF Candidates, Named
<1>3. m \in contracts /\ Candidates(contracts, event) = {m}
  BY <1>1, <1>2 DEF IsSingle, SelectedMessage
<1>4. event.message \in {None, m.name}
  BY <1>2, <1>3 DEF Named
<1>5. ASSUME NEW other \in contracts, other # m
      PROVE  RuledOut(other, event)
  <2>1. CASE other \notin named
    BY <2>1 DEF Named, RuledOut
  <2>2. CASE other \in named
    <3>1. ~(named = {} \/ IsSingle(named) \/ rules = {})
      BY <1>3, <1>5, <2>2 DEF Candidates
    <3>2. first \in rules
      BY <3>1, HeadersHaveAFirst DEF AnsweredRules, DiscriminatingHeaders
    <3>3. /\ first \in Headers
          /\ Discriminates(first, contracts)
          /\ Captured(event, first)
      BY <3>2 DEF AnsweredRules, DiscriminatingHeaders
    <3>4. HeaderHint(other, first) # event.headers[first]
      BY <1>3, <1>5, <2>2, <3>1 DEF Candidates
    <3>5. HeaderHint(other, first) # None
      BY <3>3 DEF Discriminates
    <3> QED BY <3>3, <3>4, <3>5 DEF RuledOut
  <2> QED BY <2>1, <2>2
<1> QED BY <1>3, <1>4, <1>5 DEF IsMessage

-----------------------------------------------------------------------------
(* What an analysis without a diagnostic establishes                       *)

\* A selected message whose named schemas raise no diagnostic conforms.
LEMMA NoDefectsConforms ==
    ASSUME NEW contract, NEW event,
           event.headers \in [Headers -> HeaderEvidence],
           contract.headers # None =>
               contract.headers.required \cup DOMAIN contract.headers.admits
                 \subseteq Headers,
           \A d \in SchemaDiagnostics(contract, event) : ~IsPublic(d.schema)
    PROVE  Conforms(contract, event)
<1>1. ASSUME contract.payload # None, IsPublic(contract.payload.id)
      PROVE  /\ contract.contentType = "json" /\ contract.payload.compiles
             /\ event.payload \in contract.payload.admits
  <2>1. PayloadDefects(contract, event) = {}
    <3> SUFFICES ASSUME NEW k \in PayloadDefects(contract, event) PROVE FALSE
      OBVIOUS
    <3> DEFINE d == [kind |-> k, schema |-> SchemaId(contract.payload)]
    <3>1. d \in SchemaDiagnostics(contract, event)
      BY DEF SchemaDiagnostics
    <3>2. d.schema = contract.payload.id
      BY <1>1 DEF SchemaId
    <3> QED BY <1>1, <3>1, <3>2
  <2> QED BY <1>1, <2>1 DEF PayloadDefects
<1>2. ASSUME contract.headers # None, IsPublic(contract.headers.id)
      PROVE  /\ contract.headers.compiles
             /\ \A h \in contract.headers.required : Captured(event, h)
             /\ \A h \in DOMAIN contract.headers.admits :
                   event.headers[h] \in contract.headers.admits[h] \cup {"absent"}
  <2> DEFINE schema == contract.headers
  <2>1. HeaderDefects(contract, event) = {}
    <3> SUFFICES ASSUME NEW k \in HeaderDefects(contract, event) PROVE FALSE
      OBVIOUS
    <3> DEFINE d == [kind |-> k, schema |-> SchemaId(contract.headers)]
    <3>1. d \in SchemaDiagnostics(contract, event)
      BY DEF SchemaDiagnostics
    <3>2. d.schema = contract.headers.id
      BY <1>2 DEF SchemaId
    <3> QED BY <1>2, <3>1, <3>2
  <2>2. schema.compiles
    BY <1>2, <2>1 DEF HeaderDefects
  <2>3. /\ \A h \in schema.required \cup DOMAIN schema.admits :
             event.headers[h] # "unavailable"
        /\ \A h \in schema.required : event.headers[h] # "absent"
        /\ \A h \in DOMAIN schema.admits :
             Captured(event, h) => event.headers[h] \in schema.admits[h]
    BY <1>2, <2>1, <2>2 DEF HeaderDefects
  <2>4. \A h \in schema.required \cup DOMAIN schema.admits :
           Captured(event, h) \/ event.headers[h] = "absent"
    BY <1>2, <2>3 DEF Captured, HeaderEvidence
  <2> QED BY <2>2, <2>3, <2>4
<1> QED BY <1>1, <1>2 DEF Conforms

\* A header that is said to prove something was captured.
LEMMA ProofsWereCaptured ==
    ASSUME NEW event, event.headers \in [Headers -> HeaderEvidence],
           NEW location, HeaderProof(location, event) = "satisfied"
    PROVE  location \in Headers /\ Captured(event, location)
BY DEF HeaderProof, Captured, HeaderEvidence

\* Where nothing is diagnosed, every event is a message the document knows,
\* of an operation it declares, and shows what the document promises.
LEMMA UndiagnosedEventsDeserveIt ==
    ASSUME NEW doc, NEW evidence, Diagnostics(doc, evidence) = {},
           NEW event \in evidence,
           event.headers \in [Headers -> HeaderEvidence],
           \A o \in DeclaredOperations(doc) :
               \A c \in ContractOf(doc, o).messages :
                   c.headers # None =>
                       c.headers.required \cup DOMAIN c.headers.admits
                         \subseteq Headers
    PROVE  Deserved(doc, event)
<1> DEFINE contract == ContractOf(doc, OperationKey(event))
           messages == contract.messages
           m == SelectedMessage(messages, event)
           resolution == Resolution(messages, event)
<1>1. /\ RoutingDiagnostics(doc, evidence) = {}
      /\ PublicDiagnostics(doc, evidence) = {}
      /\ ProofDiagnostics(doc, evidence) = {}
  BY DEF Diagnostics
<1>2. event \in Matched(doc, evidence)
  BY <1>1 DEF RoutingDiagnostics
<1>3. OperationKey(event) \in DeclaredOperations(doc)
  BY <1>2 DEF Matched
<1>4. messages # {} => resolution = "selected"
  <2>1. resolution \notin {"mismatched", "ambiguous"}
    BY <1>1, <1>2 DEF RoutingDiagnostics, MatchedContract
  <2> QED BY <2>1 DEF Resolution
<1>5. event.kind = "kafka" =>
         SemanticOutcomes(contract, event) \subseteq {"satisfied"}
  BY <1>1, <1>2 DEF ProofDiagnostics, MatchedContract
<1>6. ASSUME messages # {}
      PROVE  /\ m \in messages
             /\ IsMessage(m, event, messages)
             /\ Conforms(m, event)
             /\ event.kind = "kafka" /\ m.correlation # None =>
                   m.correlation \in Headers /\ Captured(event, m.correlation)
  <2>1. m \in messages /\ IsMessage(m, event, messages)
    BY <1>4, <1>6, SelectedIsTheMessage
  <2>2. \A d \in SchemaDiagnostics(m, event) : ~IsPublic(d.schema)
    <3>1. event \in Selecting(doc, evidence)
      BY <1>2, <1>4, <1>6 DEF Selecting, MatchedContract
    <3>2. SchemaDiagnostics(m, event)
            \in {SchemaDiagnostics(MessageOf(doc, e), e) :
                    e \in Selecting(doc, evidence)}
      BY <3>1 DEF MessageOf, MatchedContract
    <3> QED BY <1>1, <3>2 DEF PublicDiagnostics
  <2>3. Conforms(m, event)
    BY <1>3, <2>1, <2>2, NoDefectsConforms
  <2>4. ASSUME event.kind = "kafka", m.correlation # None
        PROVE  m.correlation \in Headers /\ Captured(event, m.correlation)
    <3>1. CorrelationProof(m, event) = "satisfied"
      BY <1>4, <1>5, <1>6, <2>4 DEF SemanticOutcomes
    <3> QED BY <2>4, <3>1, ProofsWereCaptured DEF CorrelationProof
  <2> QED BY <2>1, <2>3, <2>4
<1>7. ASSUME event.kind = "kafka", contract.reply # None
      PROVE  /\ contract.reply.location \in Headers
             /\ Captured(event, contract.reply.location)
             /\ contract.reply.channel \in
                   {None, event.headers[contract.reply.location]}
  <2>1. resolution \in {"selected", "none"}
    BY <1>4 DEF Resolution
  <2>2. ReplyProof(contract.reply, event) = "satisfied"
    BY <1>5, <1>7, <2>1 DEF SemanticOutcomes
  <2>3. HeaderProof(contract.reply.location, event) = "satisfied"
    BY <1>7, <2>2 DEF ReplyProof
  <2>4. /\ contract.reply.location \in Headers
        /\ Captured(event, contract.reply.location)
    BY <2>3, ProofsWereCaptured
  <2> QED BY <1>7, <2>2, <2>3, <2>4 DEF ReplyProof
<1> QED BY <1>3, <1>6, <1>7 DEF Deserved

-----------------------------------------------------------------------------
(* What an "ok" report establishes                                         *)

\* An "ok" report diagnosed nothing, and its evidence shows the operation and
\* each of its messages.
THEOREM OkReportsShowEverything ==
    ASSUME NEW doc, DOMAIN doc.nodes \subseteq Nat,
           NEW evidence, ReportStatus(doc, evidence) = "ok",
           NEW o \in DeclaredOperations(doc)
    PROVE  /\ Diagnostics(doc, evidence) = {}
           /\ \E e \in evidence : OperationKey(e) = o
           /\ \A c \in ContractOf(doc, o).messages :
                 \E e \in evidence :
                     /\ OperationKey(e) = o
                     /\ IsMessage(c, e, ContractOf(doc, o).messages)
<1> DEFINE messages == ContractOf(doc, o).messages
           operations == CoverageState(DeclaredOperations(doc),
                                       CoveredKeys(doc, evidence))
           shown == CoverageState(DeclaredMessages(doc),
                                  CoveredMessages(doc, evidence))
<1>1. /\ Diagnostics(doc, evidence) = {}
      /\ operations = "COVERED" /\ shown = "COVERED"
  BY DEF ReportStatus
<1>2. CoveredKeys(doc, evidence) = DeclaredOperations(doc)
  BY <1>1 DEF CoverageState
<1>3. CoveredMessages(doc, evidence) = DeclaredMessages(doc)
  BY <1>1 DEF CoverageState
<1>4. \E e \in evidence : OperationKey(e) = o
  BY <1>2 DEF CoveredKeys, Matched
<1>5. ASSUME NEW c \in messages
      PROVE  \E e \in evidence :
                 OperationKey(e) = o /\ IsMessage(c, e, messages)
  <2>1. <<o, Identity(c)>> \in CoveredMessages(doc, evidence)
    BY <1>3 DEF DeclaredMessages
  <2>2. PICK e \in Selecting(doc, evidence) :
           OperationKey(e) = o /\ Identity(MessageOf(doc, e)) = Identity(c)
    BY <2>1 DEF CoveredMessages
  <2>3. e \in evidence /\ Resolution(messages, e) = "selected"
    BY <2>2 DEF Selecting, Matched, MatchedContract
  <2>4. /\ MessageOf(doc, e) = SelectedMessage(messages, e)
        /\ MessageOf(doc, e) \in messages
        /\ IsMessage(MessageOf(doc, e), e, messages)
    BY <2>2, <2>3, SelectedIsTheMessage DEF MessageOf, MatchedContract
  <2>5. MessageOf(doc, e) = c
    BY <2>2, <2>4, MessagesAreToldApart
  <2> QED BY <2>2, <2>3, <2>4, <2>5
<1> QED BY <1>1, <1>4, <1>5

-----------------------------------------------------------------------------
(* What the gates establish                                                *)

\* The run, judged by its document, its evidence and its policy, deserves to
\* pass.
Clean ==
    LET p == ResolvePolicy(run.file, run.cli)
        declared == DeclaredOperations(run.doc)
        observed == {OperationKey(e) : e \in events}
    IN  /\ ~HasLine("malformed") /\ ~HasLine("null")
        /\ ~HasInvalid(run.doc)
        /\ \A e \in events : Deserved(run.doc, e)
        /\ p.critical \cap declared \subseteq observed
        /\ p.thresholdErrors =>
              100 * Cardinality(declared \cap observed)
                >= p.minCoverage * Cardinality(declared)

\* The threshold of a resolved policy is a percentage.
LEMMA PolicyPercentage ==
    ASSUME run \in Inputs
    PROVE  policy.minCoverage \in 0..100
BY InputsAssumption, UnsetAssumption DEF policy, ResolvePolicy, FirstSet

\* The headers of an item are values or have no evidence.
LEMMA EventsTyped ==
    ASSUME run \in Inputs, NEW e \in events
    PROVE  e.headers \in [Headers -> HeaderEvidence]
<1>1. PICK line \in run.lines :
         line.form = "event" /\ e = NormalizeEvent(line.event)
  BY DEF events
<1>2. line.event.headers \in [Headers -> HeaderEvidence \cup {"empty"}]
  BY <1>1, InputsAssumption
<1>3. e.headers = [h \in Headers |->
                     IF line.event.headers[h] = "empty" THEN "absent"
                     ELSE line.event.headers[h]]
  BY <1>1 DEF NormalizeEvent
<1> QED BY <1>2, <1>3 DEF HeaderEvidence

\* The operations that count as covered are the declared ones with an event.
LEMMA CoveredAreObserved ==
    ASSUME NEW doc, NEW evidence
    PROVE  CoveredKeys(doc, evidence) =
             DeclaredOperations(doc) \cap {OperationKey(e) : e \in evidence}
BY DEF CoveredKeys, Matched

\* Gates that report nothing have found the run to be clean.
LEMMA GatesJudge ==
    ASSUME run \in Inputs, ~HasInvalid(run.doc), ~HasLine("null"),
           FoundFailures = {}
    PROVE  Clean
<1> DEFINE declared == DeclaredOperations(run.doc)
           observed == {OperationKey(e) : e \in events}
           covered == CoveredKeys(run.doc, events)
<1>1. ~HasLine("malformed")
  BY DEF FoundFailures, EvidenceFailures
<1>2. /\ Diagnostics(run.doc, events) = {}
      /\ AsyncThresholdFailures(policy, run.doc, events) = {}
  BY DEF FoundFailures, AsyncGateFailures, SemanticFailures
<1>3. \A e \in events : Deserved(run.doc, e)
  BY <1>2, UndiagnosedEventsDeserveIt, EventsTyped, InputsAssumption
<1>4. covered = declared \cap observed
  BY CoveredAreObserved
<1>5. /\ (policy.critical \cap declared) \ covered = {}
      /\ policy.thresholdErrors =>
            ~OperationPercentBelow(declared, covered, policy.minCoverage)
  BY <1>2 DEF AsyncThresholdFailures, ThresholdFailures
<1>6. IsFiniteSet(declared)
  BY FS_Subset, InputsAssumption
<1>7. policy.thresholdErrors =>
        100 * Cardinality(covered) >= policy.minCoverage * Cardinality(declared)
  <2>1. covered \in SUBSET declared /\ policy.minCoverage \in Nat
    BY <1>4, PolicyPercentage
  <2> QED BY <1>5, <1>6, <2>1, PercentReached
<1> QED BY <1>1, <1>3, <1>4, <1>5, <1>7 DEF Clean, policy

\* What is found are failures of the kinds the exit code knows.
LEMMA FoundFailuresAreFailures == FoundFailures \subseteq FailureKinds
BY DEF FoundFailures, EvidenceFailures, AsyncGateFailures, SemanticFailures,
       AsyncThresholdFailures, ThresholdFailures, FailureKinds

\* No gate stops a run whose report says "ok".
LEMMA OkReportsPassTheGates ==
    ASSUME run \in Inputs, ReportStatus(run.doc, events) = "ok"
    PROVE  FoundFailures \subseteq {"input"}
<1> DEFINE declared == DeclaredOperations(run.doc)
<1>1. /\ Diagnostics(run.doc, events) = {}
      /\ CoveredKeys(run.doc, events) = declared
  BY DEF ReportStatus, CoverageState
<1>2. IsFiniteSet(declared)
  BY FS_Subset, InputsAssumption
<1>3. ~OperationPercentBelow(declared, declared, policy.minCoverage)
  BY <1>2, PolicyPercentage, FullCoverageIsEnough
<1>4. AsyncThresholdFailures(policy, run.doc, events) = {}
  BY <1>1, <1>3 DEF AsyncThresholdFailures, ThresholdFailures
<1> QED BY <1>1, <1>4
           DEF FoundFailures, EvidenceFailures, AsyncGateFailures,
               SemanticFailures

\* What the run makes of its input depends on nothing else.
LEMMA RunKept ==
    ASSUME UNCHANGED run
    PROVE  /\ Clean' <=> Clean
           /\ FoundFailures' = FoundFailures
BY DEF Clean, FoundFailures, EvidenceFailures, HasLine, policy, events

-----------------------------------------------------------------------------
(* The temporary directory, and the types                                  *)

\* A run that has come past its report, and has not been killed.
Past == pc \in {"cleanup", "exit"} \/ (pc = "idle" /\ exit # Killed)

\* The directory exists while it is of use; afterwards only if something
\* went wrong.
SourceInv ==
    /\ source = "new" => ~temp
    /\ source = "failed" => /\ refusal \in {"input", "runtime"}
                            /\ temp => refusal = "runtime"
    /\ pc = "options" => source = "new"
    /\ pc = "cleanup" => source = "releasing"
    /\ temp /\ (pc = "exit" \/ (pc = "idle" /\ exit # Killed)) =>
          "runtime" \in thrown

TypeInv == TypeOK /\ SourceInv

\* The steps of the resolution keep its types, and what they leave of the
\* directory shows in the failure they report.
LEMMA SourceSteps ==
    ASSUME SourceTypeOK, SourceInv, pc = "source",
           SourceStep(run.spec) \/ ServerStep \/ Quiet \/ Timeout
    PROVE  /\ SourceTypeOK'
           /\ source' = "new" => ~temp'
           /\ source' = "failed" => /\ refusal' \in {"input", "runtime"}
                                    /\ temp' => refusal' = "runtime"
<1> USE DEF SourceTypeOK, SourceInv, MaxRedirects
<1>1. CASE ResolveLocal(run.spec)
  BY <1>1 DEF ResolveLocal, Refuse
<1>2. CASE FailTemp(run.spec)
  BY <1>2 DEF FailTemp, Refuse
<1>3. CASE MakeTemp(run.spec)
  BY <1>3 DEF MakeTemp, Refuse
<1>4. CASE StoreAnswer
  BY <1>4 DEF StoreAnswer
<1>5. ASSUME NEW works \in BOOLEAN, RemoveTemp(works) \/ Release(works)
      PROVE  /\ SourceTypeOK'
             /\ source' = "new" => ~temp'
             /\ source' = "failed" => /\ refusal' \in {"input", "runtime"}
                                      /\ temp' => refusal' = "runtime"
  BY <1>5 DEF RemoveTemp, Release, Refuse
<1>6. CASE Redirect
  <2>1. hops' \in 0..MaxRedirects
    BY <1>6 DEF Redirect
  <2> QED BY <1>6, <2>1 DEF Redirect
<1>8. CASE Answer \/ FailFetch \/ Drip
  BY <1>8 DEF Answer, FailFetch, Drip
<1>7. CASE Quiet \/ Timeout
  BY <1>7 DEF Quiet, Timeout
<1> QED
  BY <1>1, <1>2, <1>3, <1>4, <1>5, <1>6, <1>7, <1>8 DEF SourceStep, ServerStep

\* A step of a write keeps the types of the files.
LEMMA WritesTyped ==
    ASSUME FilesTypeOK, WriteStep
    PROVE  FilesTypeOK'
<1> SUFFICES ASSUME NEW f \in File, OpenFile(f) \/ FillFile(f) \/ FailWrite(f)
             PROVE  FilesTypeOK'
  BY DEF WriteStep
<1> QED BY DEF FilesTypeOK, OpenFile, FillFile, FailWrite

LEMMA InitiallyTypeInv == Init => TypeInv
<1> SUFFICES ASSUME Init PROVE TypeInv
  OBVIOUS
<1>1. FilesTypeOK /\ found \in [File -> {"absent", "torn", "stale", "current"}]
  BY DEF Init, InitFiles, FilesTypeOK
<1>2. SourceTypeOK
  <2>1. hops = MaxRedirects /\ hops \in 0..MaxRedirects
    BY DEF Init, InitSource, MaxRedirects
  <2> QED BY <2>1 DEF Init, InitSource, SourceTypeOK
<1>3. SourceInv
  BY DEF Init, InitSource, SourceInv
<1> QED BY <1>1, <1>2, <1>3 DEF Init, TypeInv, TypeOK

LEMMA TypeStep == TypeInv /\ [Next]_vars => TypeInv'
<1> SUFFICES ASSUME TypeInv, [Next]_vars PROVE TypeInv'
  OBVIOUS
<1> USE DEF TypeInv, TypeOK
<1>1. ASSUME NEW i \in Inputs, StartRun(i) PROVE TypeInv'
  <2>1. /\ FilesTypeOK'
        /\ found' \in [File -> {"absent", "torn", "stale", "current"}]
    BY <1>1 DEF StartRun, NewRun, FilesTypeOK
  <2>2. SourceTypeOK'
    <3>1. hops' \in 0..MaxRedirects
      BY <1>1 DEF StartRun, NewSource, MaxRedirects
    <3> QED BY <1>1, <3>1 DEF StartRun, NewSource, SourceTypeOK
  <2>3. SourceInv'
    BY <1>1 DEF StartRun, NewSource, SourceInv
  <2> QED BY <1>1, <2>1, <2>2, <2>3 DEF StartRun
<1>2. ASSUME NEW kind \in FailureKinds, RefuseOptions(kind) PROVE TypeInv'
  BY <1>2 DEF RefuseOptions, fileVars, sourceVars, FilesTypeOK, SourceTypeOK,
              SourceInv
<1>3. ASSUME NEW kind \in FailureKinds, FailLoading(kind) PROVE TypeInv'
  BY <1>3 DEF FailLoading, Throw, fileVars, FilesTypeOK, SourceTypeOK, SourceInv
<1>4. CASE AcceptOptions
  BY <1>4 DEF AcceptOptions, fileVars, sourceVars, FilesTypeOK, SourceTypeOK,
              SourceInv
<1>5. CASE ResolveSource \/ Network \/ Clock
  <2>1. /\ pc = "source"
        /\ SourceStep(run.spec) \/ ServerStep \/ Quiet \/ Timeout
        /\ UNCHANGED <<pc, run, failures, thrown, exit, found, artifact, writing>>
    BY <1>5 DEF ResolveSource, Network, Clock, fileVars
  <2>2. /\ SourceTypeOK'
        /\ source' = "new" => ~temp'
        /\ source' = "failed" => /\ refusal' \in {"input", "runtime"}
                                 /\ temp' => refusal' = "runtime"
    BY <2>1, SourceSteps
  <2> QED BY <2>1, <2>2 DEF FilesTypeOK, SourceInv
<1>6. CASE TakeSource
  BY <1>6 DEF TakeSource, fileVars, sourceVars, FilesTypeOK, SourceTypeOK,
              SourceInv, FailureKinds
<1>7. CASE RefuseDocument \/ FailEvents
  BY <1>7 DEF RefuseDocument, FailEvents, Throw, fileVars, FilesTypeOK,
              SourceTypeOK, SourceInv, FailureKinds
<1>8. CASE Analyze
  <2>1. failures' \subseteq FailureKinds
    BY <1>8, FoundFailuresAreFailures DEF Analyze
  <2> QED BY <1>8, <2>1 DEF Analyze, fileVars, sourceVars, FilesTypeOK,
                            SourceTypeOK, SourceInv
<1>9. CASE FailReport
  <2>1. failures' \subseteq FailureKinds
    BY <1>9, FoundFailuresAreFailures DEF FailReport
  <2> QED BY <1>9, <2>1 DEF FailReport, Throw, fileVars, FilesTypeOK,
                            SourceTypeOK, SourceInv, FailureKinds
<1>10. CASE RefuseReport \/ AwaitReport
  BY <1>10 DEF RefuseReport, AwaitReport, AfterReport, fileVars, FilesTypeOK,
               SourceTypeOK, SourceInv, FailureKinds
<1>11. CASE WriteReport
  BY <1>11 DEF WriteReport, StartWrites, sourceVars, FilesTypeOK, SourceTypeOK,
               SourceInv
<1>12. ASSUME NEW works \in BOOLEAN, Cleanup(works) PROVE TypeInv'
  BY <1>12 DEF Cleanup, Release, fileVars, FilesTypeOK, SourceTypeOK, SourceInv,
               FailureKinds
<1>13. CASE Exit
  <2>1. exit' \in {0, 2, 3, 4, 5, 6}
    <3>1. failures \cup thrown \in SUBSET FailureKinds
      OBVIOUS
    <3> QED BY <1>13, <3>1, ExitCodeOfFailures DEF Exit
  <2> QED BY <1>13, <2>1 DEF Exit, fileVars, sourceVars, FilesTypeOK,
                             SourceTypeOK, SourceInv
<1>14. CASE BackgroundWrite
  <2>1. FilesTypeOK'
    BY <1>14, WritesTyped DEF BackgroundWrite
  <2> QED BY <1>14, <2>1 DEF BackgroundWrite, sourceVars, SourceTypeOK, SourceInv
<1>15. CASE Kill
  BY <1>15 DEF Kill, sourceVars, FilesTypeOK, SourceTypeOK, SourceInv
<1>16. CASE UNCHANGED vars
  BY <1>16 DEF vars, fileVars, sourceVars, FilesTypeOK, SourceTypeOK, SourceInv
<1> QED
  BY <1>1, <1>2, <1>3, <1>4, <1>5, <1>6, <1>7, <1>8, <1>9, <1>10, <1>11, <1>12,
     <1>13, <1>14, <1>15, <1>16 DEF Next, Command

\* Every value that the command computes is of its type.
THEOREM TypeCorrect == Spec => []TypeOK
<1>1. TypeInv => TypeOK
  BY DEF TypeInv
<1> QED BY <1>1, InitiallyTypeInv, TypeStep, PTL DEF Spec

-----------------------------------------------------------------------------
(* The other parts of the invariant                                        *)

\* No write has been begun.
Untouched == artifact = found /\ \A f \in File : writing[f] = "no"

\* A report of this run is under way, or there is a part of it.
Reported == \E f \in File : artifact[f] = "current" \/ writing[f] # "no"

\* What is written is this run's report, no run finds its own, nothing is
\* written between two runs or before the report, and a run that is past its
\* report has written both files, or none, or reports that a write failed.
FilesInv ==
    /\ \A f \in File : /\ writing[f] = "written" => artifact[f] = "current"
                       /\ writing[f] # "unlinked"
                       /\ found[f] # "current"
    /\ pc = "idle" => Settled
    /\ pc \in {"options", "source", "loading", "mkdir"} => Untouched
    /\ Past => \/ Fulfilled
               \/ Untouched /\ failures \cup thrown # {}
               \/ "runtime" \in failures

\* A run that has got past its analysis without a failure is clean.
GreenInv ==
    /\ pc \in {"options", "source", "loading", "mkdir", "writing"} => thrown = {}
    /\ pc \in {"options", "source", "loading"} => failures = {}
    /\ pc \in {"mkdir", "writing"} \/ Past =>
          (failures \cup thrown = {} => Clean)

\* A run with a report has failed for what its analysis found, and else only
\* for what went wrong with a file.
ReportInv ==
    /\ pc \in {"mkdir", "writing"} => failures = FoundFailures
    /\ Reported => /\ failures \subseteq FoundFailures \cup {"runtime"}
                   /\ thrown \subseteq {"runtime"}

ExitInv == pc = "idle" /\ exit # Killed => exit = ExitCode(failures \cup thrown)

IInv == TypeInv /\ FilesInv /\ GreenInv /\ ReportInv /\ ExitInv

LEMMA InitiallyIInv == Init => IInv
<1> SUFFICES ASSUME Init PROVE IInv
  OBVIOUS
<1>1. FilesInv
  BY DEF Init, InitFiles, FilesInv, Past, Settled
<1>2. ~Reported
  BY DEF Init, InitFiles, Reported
<1>3. GreenInv /\ ReportInv /\ ExitInv
  BY <1>2 DEF Init, GreenInv, ReportInv, ExitInv, Past
<1> QED BY <1>1, <1>3, InitiallyTypeInv DEF IInv

\* The steps before the report and after it, which leave the files alone.
EarlySteps ==
    \/ \E kind \in FailureKinds : RefuseOptions(kind) \/ FailLoading(kind)
    \/ AcceptOptions \/ TakeSource
    \/ ResolveSource \/ Network \/ Clock
    \/ RefuseDocument \/ FailEvents \/ Analyze \/ FailReport

\* One step of a write keeps the files in order; it is possible only while a
\* write is going on, and what is written stays so.
LEMMA WriteSteps ==
    ASSUME FilesTypeOK, FilesInv, WriteStep
    PROVE  /\ \A f \in File :
                 /\ writing'[f] = "written" => artifact'[f] = "current"
                 /\ writing'[f] # "unlinked"
           /\ ~Fulfilled /\ ~Settled /\ ~Untouched /\ Reported
<1> SUFFICES ASSUME NEW g \in File, OpenFile(g) \/ FillFile(g) \/ FailWrite(g)
             PROVE  /\ \A f \in File :
                          /\ writing'[f] = "written" => artifact'[f] = "current"
                          /\ writing'[f] # "unlinked"
                    /\ ~Fulfilled /\ ~Settled /\ ~Untouched /\ Reported
  BY DEF WriteStep
<1>1. writing[g] \in {"opening", "open", "unlinked"}
  BY DEF OpenFile, FillFile, FailWrite
<1>2. ~Fulfilled /\ ~Settled /\ ~Untouched /\ Reported
  BY <1>1 DEF Fulfilled, Settled, Untouched, Reported
<1>3. \A f \in File : /\ writing'[f] = "written" => artifact'[f] = "current"
                      /\ writing'[f] # "unlinked"
  BY DEF FilesTypeOK, FilesInv, OpenFile, FillFile, FailWrite
<1> QED BY <1>2, <1>3

\* Before the report nothing of it exists.
LEMMA UntouchedIsUnreported == FilesInv /\ Untouched => ~Reported
BY DEF FilesInv, Untouched, Reported

\* A run that ends early ends with an exception, and a run that goes on has
\* met none.
LEMMA EarlyStepsKeep ==
    ASSUME IInv, EarlySteps
    PROVE  /\ UNCHANGED <<artifact, writing, found, run, exit>>
           /\ pc \in {"options", "source", "loading"}
           /\ \/ /\ pc' \in {"source", "loading"}
                 /\ UNCHANGED <<failures, thrown>>
              \/ /\ pc' = "mkdir" /\ thrown' = thrown
                 /\ failures' = FoundFailures
                 /\ ~HasInvalid(run.doc) /\ ~HasLine("null")
              \/ /\ pc' \in {"cleanup", "exit"}
                 /\ \E kind \in FailureKinds : thrown' = {kind}
<1> USE DEF IInv, fileVars
<1>1. ASSUME NEW kind \in FailureKinds, RefuseOptions(kind) \/ FailLoading(kind)
      PROVE  /\ UNCHANGED <<artifact, writing, found, run, exit>>
             /\ pc \in {"options", "loading"} /\ pc' \in {"cleanup", "exit"}
             /\ thrown' = {kind}
  BY <1>1 DEF RefuseOptions, FailLoading, Throw
<1>2. CASE AcceptOptions
  BY <1>2 DEF AcceptOptions
<1>3. CASE TakeSource
  <2>1. source = "failed" => refusal \in FailureKinds
    BY DEF TypeInv, SourceInv, FailureKinds
  <2> QED BY <1>3, <2>1 DEF TakeSource
<1>4. CASE ResolveSource \/ Network \/ Clock
  BY <1>4 DEF ResolveSource, Network, Clock
<1>5. CASE RefuseDocument \/ FailEvents \/ FailReport
  BY <1>5 DEF RefuseDocument, FailEvents, FailReport, Throw, FailureKinds
<1>6. CASE Analyze
  BY <1>6 DEF Analyze
<1> QED BY <1>1, <1>2, <1>3, <1>4, <1>5, <1>6 DEF EarlySteps

LEMMA FilesStep == IInv /\ [Next]_vars => FilesInv'
<1> SUFFICES ASSUME IInv, [Next]_vars PROVE FilesInv'
  OBVIOUS
<1> USE DEF IInv
<1>1. ASSUME NEW i \in Inputs, StartRun(i) PROVE FilesInv'
  BY <1>1 DEF StartRun, NewRun, FilesInv, Untouched, Past
<1>2. CASE EarlySteps
  BY <1>2, EarlyStepsKeep DEF FilesInv, Untouched, Past, Settled, Fulfilled
<1>3. CASE WriteReport
  BY <1>3 DEF WriteReport, StartWrites, FilesInv, Untouched, Past
<1>4. CASE RefuseReport \/ AwaitReport
  BY <1>4 DEF RefuseReport, AwaitReport, AfterReport, fileVars, FilesInv, Past,
              Fulfilled
<1>5. ASSUME NEW works \in BOOLEAN, Cleanup(works) PROVE FilesInv'
  BY <1>5 DEF Cleanup, fileVars, FilesInv, Untouched, Past, Fulfilled
<1>6. CASE Exit
  BY <1>6 DEF Exit, fileVars, FilesInv, Untouched, Past, Fulfilled, Settled
<1>7. CASE BackgroundWrite
  <2>1. pc \notin {"idle", "options", "source", "loading", "mkdir"}
    BY <1>7, WriteSteps DEF BackgroundWrite, TypeInv, TypeOK, FilesInv
  <2>2. Past => "runtime" \in failures
    BY <1>7, WriteSteps DEF BackgroundWrite, TypeInv, TypeOK, FilesInv
  <2>3. \A f \in File : /\ writing'[f] = "written" => artifact'[f] = "current"
                        /\ writing'[f] # "unlinked"
    BY <1>7, WriteSteps DEF BackgroundWrite, TypeInv, TypeOK
  <2> QED BY <1>7, <2>1, <2>2, <2>3 DEF BackgroundWrite, FilesInv, Past
<1>8. CASE Kill
  BY <1>8 DEF Kill, FilesInv, Past, Settled
<1>9. CASE UNCHANGED vars
  BY <1>9 DEF vars, fileVars, FilesInv, Untouched, Past, Settled, Fulfilled
<1> QED
  BY <1>1, <1>2, <1>3, <1>4, <1>5, <1>6, <1>7, <1>8, <1>9
     DEF Next, Command, EarlySteps

LEMMA GreenStep == IInv /\ [Next]_vars => GreenInv'
<1> SUFFICES ASSUME IInv, [Next]_vars PROVE GreenInv'
  OBVIOUS
<1> USE DEF IInv, GreenInv, Past
<1>1. ASSUME NEW i \in Inputs, StartRun(i) PROVE GreenInv'
  BY <1>1 DEF StartRun
<1>2. CASE EarlySteps
  <2>1. UNCHANGED run
    BY <1>2, EarlyStepsKeep
  <2>2. pc' = "mkdir" /\ failures' = {} => Clean
    <3> SUFFICES ASSUME pc' = "mkdir", failures' = {} PROVE Clean
      OBVIOUS
    <3>1. FoundFailures = {} /\ ~HasInvalid(run.doc) /\ ~HasLine("null")
      BY <1>2, EarlyStepsKeep
    <3> QED BY <3>1, GatesJudge DEF TypeInv, TypeOK
  <2> QED BY <1>2, <2>1, <2>2, EarlyStepsKeep, RunKept
<1>3. CASE WriteReport
  BY <1>3, RunKept DEF WriteReport
<1>4. CASE RefuseReport \/ AwaitReport
  BY <1>4, RunKept DEF RefuseReport, AwaitReport, AfterReport
<1>5. ASSUME NEW works \in BOOLEAN, Cleanup(works) PROVE GreenInv'
  BY <1>5, RunKept DEF Cleanup
<1>6. CASE Exit
  BY <1>6, RunKept DEF Exit
<1>7. CASE BackgroundWrite
  BY <1>7, RunKept DEF BackgroundWrite
<1>8. CASE Kill
  BY <1>8 DEF Kill
<1>9. CASE UNCHANGED vars
  BY <1>9, RunKept DEF vars
<1> QED
  BY <1>1, <1>2, <1>3, <1>4, <1>5, <1>6, <1>7, <1>8, <1>9
     DEF Next, Command, EarlySteps

LEMMA ReportStep == IInv /\ [Next]_vars => ReportInv'
<1> SUFFICES ASSUME IInv, [Next]_vars PROVE ReportInv'
  OBVIOUS
<1> USE DEF IInv, ReportInv
<1>1. ASSUME NEW i \in Inputs, StartRun(i) PROVE ReportInv'
  BY <1>1 DEF StartRun, NewRun, Reported
<1>2. CASE EarlySteps
  <2>1. ~Reported
    BY <1>2, EarlyStepsKeep, UntouchedIsUnreported DEF FilesInv
  <2>2. ~Reported'
    BY <1>2, <2>1, EarlyStepsKeep DEF Reported
  <2> QED BY <1>2, <2>2, EarlyStepsKeep, RunKept
<1>3. CASE WriteReport
  <2>1. thrown = {}
    BY <1>3 DEF WriteReport, GreenInv
  <2> QED BY <1>3, <2>1, RunKept DEF WriteReport
<1>4. CASE RefuseReport \/ AwaitReport
  <2>1. /\ failures \subseteq FoundFailures \cup {"runtime"}
        /\ thrown = {}
    BY <1>4 DEF RefuseReport, AwaitReport, AfterReport, GreenInv
  <2> QED BY <1>4, <2>1, RunKept DEF RefuseReport, AwaitReport, AfterReport
<1>5. ASSUME NEW works \in BOOLEAN, Cleanup(works) PROVE ReportInv'
  BY <1>5, RunKept DEF Cleanup, fileVars, Reported
<1>6. CASE Exit
  BY <1>6, RunKept DEF Exit, fileVars, Reported
<1>7. CASE BackgroundWrite
  <2>1. Reported
    BY <1>7, WriteSteps DEF BackgroundWrite, TypeInv, TypeOK
  <2> QED BY <1>7, <2>1, RunKept DEF BackgroundWrite
<1>8. CASE Kill
  <2>1. Reported' => Reported
    BY <1>8 DEF Kill, Reported
  <2> QED BY <1>8, <2>1, RunKept DEF Kill
<1>9. CASE UNCHANGED vars
  BY <1>9, RunKept DEF vars, fileVars, Reported
<1> QED
  BY <1>1, <1>2, <1>3, <1>4, <1>5, <1>6, <1>7, <1>8, <1>9
     DEF Next, Command, EarlySteps

LEMMA ExitStep == IInv /\ [Next]_vars => ExitInv'
<1> SUFFICES ASSUME IInv, [Next]_vars, pc' = "idle", exit' # Killed
             PROVE  ExitInv'
  BY DEF ExitInv
<1> USE DEF IInv, ExitInv
<1>1. CASE Exit
  BY <1>1 DEF Exit
<1>2. CASE BackgroundWrite
  BY <1>2 DEF BackgroundWrite
<1>3. CASE UNCHANGED vars
  BY <1>3 DEF vars
<1>4. ~Kill
  BY DEF Kill
<1>5. ~\E i \in Inputs : StartRun(i)
  BY DEF StartRun
<1>6. ~EarlySteps
  BY EarlyStepsKeep
<1>7. ~(WriteReport \/ RefuseReport \/ AwaitReport)
  BY DEF WriteReport, RefuseReport, AwaitReport, AfterReport
<1>8. ~\E works \in BOOLEAN : Cleanup(works)
  BY DEF Cleanup
<1> QED
  BY <1>1, <1>2, <1>3, <1>4, <1>5, <1>6, <1>7, <1>8
     DEF Next, Command, EarlySteps

\* All parts hold in every state of every behaviour.
LEMMA AlwaysIInv == Spec => []IInv
<1>1. IInv /\ [Next]_vars => IInv'
  <2>1. IInv => TypeInv
    BY DEF IInv
  <2>2. IInv /\ [Next]_vars => TypeInv'
    BY <2>1, TypeStep
  <2> QED BY <2>2, FilesStep, GreenStep, ReportStep, ExitStep DEF IInv
<1> QED BY <1>1, InitiallyIInv, PTL DEF Spec

-----------------------------------------------------------------------------
(* The theorems                                                            *)

\* A run that exits 0 had a sound document and sound evidence, every event of
\* which the document allows, and passed every gate, whatever earlier runs,
\* failures and kills have left behind.
THEOREM GreenAsyncRunsDeserveIt == Spec => []FailClosed
<1>1. IInv => FailClosed
  <2> SUFFICES ASSUME IInv, pc = "idle", exit = 0 PROVE FailClosed
    BY DEF FailClosed
  <2>1. Past
    BY DEF Past, Killed
  <2>2. failures \cup thrown = {}
    <3>1. failures \cup thrown \in SUBSET FailureKinds
      BY DEF IInv, TypeInv, TypeOK
    <3>2. ExitCode(failures \cup thrown) = 0
      BY DEF IInv, ExitInv, Killed
    <3> QED BY <3>1, <3>2, ExitCodeOfFailures
  <2>3. Clean
    BY <2>1, <2>2 DEF IInv, GreenInv
  <2> QED BY <2>3 DEF Clean, FailClosed
<1> QED BY <1>1, AlwaysIInv, PTL

\* An "ok" report is that of a run that no gate stopped, and its evidence
\* shows every declared operation and every declared message.
THEOREM OkReportsAreDeserved == Spec => []OkReportIsDeserved
<1>1. IInv => OkReportIsDeserved
  <2> SUFFICES ASSUME IInv, pc = "idle", artifact["json"] = "current",
                      ReportStatus(run.doc, events) = "ok"
               PROVE  OkReportIsDeserved
    BY DEF OkReportIsDeserved
  <2> DEFINE F == failures \cup thrown
  <2>1. run \in Inputs
    BY DEF IInv, TypeInv, TypeOK
  <2>2. F \subseteq {"input", "runtime"}
    <3>1. Reported
      BY DEF Reported, File
    <3>2. FoundFailures \subseteq {"input"}
      BY <2>1, OkReportsPassTheGates
    <3> QED BY <3>1, <3>2 DEF IInv, ReportInv
  <2>3. exit \notin {3, 4, 5}
    <3>1. ExitCode(F) \in {0, 2, 6}
      BY <2>2, ExitCodeOfFailures DEF FailureKinds
    <3> QED BY <3>1 DEF IInv, ExitInv, Killed
  <2>4. \A o \in DeclaredOperations(run.doc) :
           /\ \E e \in events : OperationKey(e) = o
           /\ \A c \in ContractOf(run.doc, o).messages :
                 \E e \in events :
                     /\ OperationKey(e) = o
                     /\ IsMessage(c, e, ContractOf(run.doc, o).messages)
    BY <2>1, OkReportsShowEverything, InputsAssumption
  <2> QED BY <2>3, <2>4 DEF OkReportIsDeserved
<1> QED BY <1>1, AlwaysIInv, PTL

\* The exit code tells what lies under the two names.
THEOREM ExitTellsTheArtifacts == Spec => []ArtifactsMatchFailures
<1>1. IInv => ArtifactsMatchFailures
  <2> SUFFICES ASSUME IInv, pc = "idle", exit # Killed
               PROVE  /\ exit = 0 => \A f \in File : artifact[f] = "current"
                      /\ "runtime" \notin failures \cup thrown =>
                           \/ artifact = found
                           \/ \A f \in File : artifact[f] = "current"
    BY DEF ArtifactsMatchFailures, Killed
  <2>1. \/ Fulfilled
        \/ Untouched /\ failures \cup thrown # {}
        \/ "runtime" \in failures
    BY DEF IInv, FilesInv, Past
  <2>2. Fulfilled => \A f \in File : artifact[f] = "current"
    BY DEF IInv, FilesInv, Fulfilled
  <2>3. exit = 0 => failures \cup thrown = {}
    <3>1. failures \cup thrown \in SUBSET FailureKinds
      BY DEF IInv, TypeInv, TypeOK
    <3> QED BY <3>1, ExitCodeOfFailures DEF IInv, ExitInv
  <2> QED BY <2>1, <2>2, <2>3 DEF Untouched
<1> QED BY <1>1, AlwaysIInv, PTL

\* A run that was not killed has removed the directory it fetched the
\* specification into, or reports that something went wrong.
THEOREM TempDirectoriesAreAccountedFor == Spec => []TempDirectoryIsAccountedFor
<1>1. TypeInv => TempDirectoryIsAccountedFor
  BY DEF TypeInv, SourceInv, TempDirectoryIsAccountedFor
<1> QED BY <1>1, InitiallyTypeInv, TypeStep, PTL DEF Spec

=============================================================================
