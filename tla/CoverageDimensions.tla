-------------------------- MODULE CoverageDimensions --------------------------
(***************************************************************************)
(* The scores of an HTTP coverage report: which declared statuses and      *)
(* parameters an operation's evidence covers, and the rounded percentages  *)
(* and states made of them.  A percentage is an integer number of          *)
(* hundredths, as roundPercent leaves it: 10000 is 100%.                   *)
(***************************************************************************)
EXTENDS Integers, FiniteSets

NotApplicable == -1        \* percent null, state N/A
FullPercent   == 10000

-----------------------------------------------------------------------------
(* Declared statuses: a code, a range (4XX) or default                     *)

MatchesStatusToken(status, token) ==
    CASE token.type = "default" -> TRUE
      [] token.type = "range"   -> status \div 100 = token.value
      [] token.type = "code"    -> status = token.value

\* Mutant: default counts among the tokens that claim a status.
IsDeclaredStatusCovered_DefaultClaims(token, observed, declared) ==
    \E s \in observed :
        IF token.type = "default"
        THEN \A t \in declared : ~MatchesStatusToken(s, t)
        ELSE MatchesStatusToken(s, token)

\* default is covered only by a status no other declared token matches.
IsDeclaredStatusCovered(token, observed, declared) ==
    IF token.type = "default"
    THEN \E s \in observed : \A t \in declared :
             t.type # "default" => ~MatchesStatusToken(s, t)
    ELSE \E s \in observed : MatchesStatusToken(s, token)

CoveredStatuses(declared, observed) ==
    {t \in declared : IsDeclaredStatusCovered(t, observed, declared)}

-----------------------------------------------------------------------------
(* Declared parameters                                                     *)

\* normalizeParameters: a path parameter is always required.
RequiredParameters(parameters) ==
    {p \in parameters : p.in = "path" \/ p.required}

\* A path parameter is covered by any call.  Header names are lower case on
\* both sides.
IsParameterCovered(parameter, evidence) ==
    CASE parameter.in = "path"   -> evidence.suites # {}
      [] parameter.in = "query"  -> parameter.name \in evidence.queryKeys
      [] parameter.in = "header" -> parameter.name \in evidence.headerKeys

CoveredParameters(parameters, evidence) ==
    {p \in RequiredParameters(parameters) : IsParameterCovered(p, evidence)}

-----------------------------------------------------------------------------
(* Percentages and states                                                  *)

\* roundPercent(covered / total * 100), halves rounded up.
Hundredths(covered, total) == (20000 * covered + total) \div (2 * total)

SummarizeDimension(covered, total) ==
    IF total = 0 THEN NotApplicable ELSE Hundredths(covered, total)

\* Mutant: dimensions that do not apply count as nothing covered.
SummarizeAggregate_NaIsZero(operations, statuses, parameters) ==
    LET Of(p) == IF p = NotApplicable THEN 0 ELSE p
    IN  (60 * Of(operations) + 25 * Of(statuses) + 15 * Of(parameters) + 50) \div 100

\* 0.6, 0.25 and 0.15 of the rounded percentages, rounded again.
SummarizeAggregate(operations, statuses, parameters) ==
    IF NotApplicable \in {operations, statuses, parameters} THEN NotApplicable
    ELSE (60 * operations + 25 * statuses + 15 * parameters + 50) \div 100

StateFromPercent(percent) ==
    IF percent = NotApplicable THEN "N/A"
    ELSE IF percent >= FullPercent THEN "COVERED"
    ELSE IF percent <= 0 THEN "UNCOVERED"
    ELSE "PARTIAL"

=============================================================================
