----------------------------- MODULE Governance -----------------------------
(***************************************************************************)
(* The decisions of the analyzer: which policy applies, which operations   *)
(* it keeps, which failures its gates report and which of them decides the *)
(* exit code.                                                              *)
(*                                                                         *)
(* Failures of severity "warning" appear in the summary only and decide    *)
(* nothing; they are left out, and with them the warning bands and the     *)
(* regressions of the coverage dimensions.  Failures of one kind differ    *)
(* only in their wording, so that a kind stands for them.                  *)
(***************************************************************************)
EXTENDS Naturals, FiniteSets

CONSTANTS
    Operations,   \* the HTTP operation keys
    Unset,        \* an option that is not given, a percentage that is N/A
    Null          \* null, which a policy file may give for minAggregate

ASSUME UnsetAssumption ==
    /\ Unset # Null
    /\ \A set \in {Operations, 0..100, BOOLEAN} : {Unset, Null} \cap set = {}

-----------------------------------------------------------------------------
(* resolveGatePolicy: profile defaults, then the file, then the options    *)

FirstSet(a, b, default) ==
    IF a # Unset THEN a ELSE IF b # Unset THEN b ELSE default

EffectiveProfile(file, cli) == FirstSet(cli.profile, file.profile, "ci")

\* The fields of the resolved policy that decide something.
ResolvePolicy(file, cli) ==
    LET strict == EffectiveProfile(file, cli) = "ci"
    IN  [minCoverage     |-> FirstSet(cli.minCoverage, file.minCoverage, 95),
         minAggregate    |-> FirstSet(cli.minAggregate,
                                      IF file.minAggregate = Null THEN Unset
                                      ELSE file.minAggregate, 85),
         aggregateGate   |-> \/ cli.minAggregate # Unset
                             \/ /\ file.aggregateEnabled = TRUE
                                /\ file.minAggregate # Null,
         thresholdErrors |-> \/ strict
                             \/ {cli.minCoverage, cli.minAggregate} # {Unset},
         regressionErrors |-> \/ cli.failOnRegression
                              \/ FirstSet(file.failOnRegression, Unset, strict),
         critical        |-> cli.critical \cup file.critical,
         rules           |-> cli.rules \cup file.rules]

-----------------------------------------------------------------------------
(* applyExclusionRules and computeCoverage                                 *)

\* The first rule that matches an operation drops it; a rule without
\* allowCriticalOverride passes over the critical ones.
IncludedOperations(operations, policy) ==
    {o \in operations :
        \A r \in policy.rules :
            o \in r.matches => o \in policy.critical /\ ~r.override}

\* Operations with an event that the matcher gives to them alone.
CoveredOperations(all, observed) == all \cap observed

\* computeRawCoverageMetrics: N/A when there is no operation.
OperationPercentBelow(all, covered, percent) ==
    /\ all # {}
    /\ 100 * Cardinality(covered) < percent * Cardinality(all)

-----------------------------------------------------------------------------
(* The gates                                                               *)

ThresholdFailures(policy, all, covered, aggregate) ==
    LET soft == \/ OperationPercentBelow(all, covered, policy.minCoverage)
                \/ /\ policy.aggregateGate /\ aggregate # Unset
                   /\ aggregate < policy.minAggregate
        hard == (policy.critical \cap all) \ covered # {}
    IN  IF hard \/ (soft /\ policy.thresholdErrors) THEN {"threshold"} ELSE {}

\* compareRegressionAgainstBaseline: an operation that left the report is
\* removedSpecOperations, not a regression.
MissingCoveredOperations(baseline, all, covered) ==
    (baseline \cap all) \ covered

\* Mutant: regressions are warnings.
RegressionFailures_Warns(policy, missing) == {}

RegressionFailures(policy, missing) ==
    IF missing # {} /\ policy.regressionErrors THEN {"regression"} ELSE {}

\* Mutant: a semantic failure silences the other gates and is a warning.
GateFailures_SemanticWarns(policy, conformanceFails, all, covered, aggregate, missing) ==
    IF conformanceFails THEN {}
    ELSE RegressionFailures(policy, missing)
         \cup ThresholdFailures(policy, all, covered, aggregate)

\* evaluateGateFailures: a semantic failure silences the other gates.
GateFailures(policy, conformanceFails, all, covered, aggregate, missing) ==
    IF conformanceFails THEN {"semantic"}
    ELSE RegressionFailures(policy, missing)
         \cup ThresholdFailures(policy, all, covered, aggregate)

-----------------------------------------------------------------------------
(* sortFailuresByPrecedence, selectPrimaryFailure and EXIT                 *)

FailureKinds == {"input", "semantic", "regression", "threshold", "runtime"}

Precedence ==
    [input |-> 0, semantic |-> 1, regression |-> 2, threshold |-> 3,
     runtime |-> 4]

PrimaryFailure(failures) ==
    CHOOSE k \in failures :
        \A other \in failures : Precedence[k] <= Precedence[other]

EXIT == [input |-> 2, threshold |-> 3, regression |-> 4, semantic |-> 5,
         runtime |-> 6]

ExitCode(failures) ==
    IF failures = {} THEN 0 ELSE EXIT[PrimaryFailure(failures)]

=============================================================================
