--------------------------- MODULE ReportCommand ---------------------------
(***************************************************************************)
(* `yanote report`, run again and again by a CI job: it loads policy,      *)
(* specification, events and baseline, applies the gates, writes the two   *)
(* artifacts, updates the baseline if it was asked to and nothing failed,  *)
(* removes the fetched specification and exits with the code of the        *)
(* failure that takes precedence.  The output directory and the baseline   *)
(* file survive from run to run.  A run may be killed at any moment.       *)
(*                                                                         *)
(* --baseline and --update-baseline name the same file.                    *)
(***************************************************************************)
EXTENDS Governance, ReportFiles

CONSTANTS
    Inputs   \* what runs may be given: options and policy (file, cli), the
             \* specification's operations, the operations the events
             \* exercise, the defects of the evidence, the raw aggregate

ASSUME InputsAssumption ==
    /\ IsFiniteSet(Operations)
    /\ \A i \in Inputs :
        /\ i.operations \subseteq Operations
        /\ i.observed \subseteq Operations
        /\ {i.file.minCoverage, i.cli.minCoverage, i.cli.minAggregate,
            i.aggregate} \subseteq (0..100) \cup {Unset}
        /\ i.file.minAggregate \in (0..100) \cup {Unset, Null}
        /\ {i.compare, i.update, i.invalidLines, i.ambiguous,
            i.conformanceFails} \subseteq BOOLEAN

VARIABLES
    pc,         \* where the command is
    run,        \* its input
    failures,   \* failureCandidates, by kind
    thrown,     \* the exception on its way to the outer catch, by kind
    baseline,   \* the baseline file
    exit,       \* the exit code of the last run
    before      \* history: the baseline file when the run started

vars == <<pc, run, failures, thrown, baseline, exit, before, fileVars>>

Killed == 137

Baseline == [state : {"absent", "torn", "whole"}, covered : SUBSET Operations]
NoBaseline == [state |-> "absent", covered |-> {}]

TypeOK ==
    /\ FilesTypeOK
    /\ pc \in {"idle", "loading", "mkdir", "writing", "baseline",
               "baselineOpen", "cleanup", "exit"}
    /\ run \in Inputs
    /\ failures \subseteq FailureKinds
    /\ thrown \subseteq FailureKinds
    /\ baseline \in Baseline
    /\ exit \in {0, 2, 3, 4, 5, 6, Killed}
    /\ before \in Baseline

Init ==
    /\ InitFiles
    /\ pc = "idle"
    /\ run \in Inputs
    /\ failures = {}
    /\ thrown = {}
    /\ baseline = NoBaseline
    /\ exit = Killed
    /\ before = NoBaseline

-----------------------------------------------------------------------------
(* What the run makes of its input                                         *)

policy == ResolvePolicy(run.file, run.cli)
all == IncludedOperations(run.operations, policy)
covered == CoveredOperations(all, run.observed)

\* INPUT_EVENTS_INVALID_LINES
EvidenceFailures == IF run.invalidLines THEN {"input"} ELSE {}

MissingCovered ==
    IF run.compare
    THEN MissingCoveredOperations(baseline.covered, all, covered) ELSE {}

-----------------------------------------------------------------------------
(* The steps of executeReportCommand, from one await to the next           *)

StartRun(i) ==
    /\ pc = "idle"
    /\ pc' = "loading"
    /\ run' = i
    /\ failures' = {}
    /\ thrown' = {}
    /\ before' = baseline
    /\ NewRun
    /\ UNCHANGED <<baseline, exit>>

\* An option, the policy or the source of the specification is refused.
RefuseOptions(kind) ==
    /\ pc = "loading"
    /\ kind \in {"input", "runtime"}
    /\ thrown' = {kind}
    /\ pc' = "exit"
    /\ UNCHANGED <<run, failures, baseline, exit, before, fileVars>>

\* The specification or the events do not load (the specification has no
\* OpenAPI document, is semantically invalid, a file cannot be read, ...).
FailLoading(kind) ==
    /\ pc = "loading"
    /\ kind \in {"input", "semantic", "runtime"}
    /\ thrown' = {kind}
    /\ pc' = "cleanup"
    /\ UNCHANGED <<run, failures, baseline, exit, before, fileVars>>

\* compileExclusionRules, or the analysis itself, throws after the events
\* have been read.
FailAnalysis ==
    /\ pc = "loading"
    /\ failures' = EvidenceFailures
    /\ thrown' = {"runtime"}
    /\ pc' = "cleanup"
    /\ UNCHANGED <<run, baseline, exit, before, fileVars>>

\* loadBaseline throws: no such file, or not JSON (an unclassified error).
RefuseBaseline ==
    /\ pc = "loading"
    /\ run.compare /\ baseline.state # "whole"
    /\ failures' = EvidenceFailures
    /\ thrown' = {IF baseline.state = "absent" THEN "input" ELSE "runtime"}
    /\ pc' = "cleanup"
    /\ UNCHANGED <<run, baseline, exit, before, fileVars>>

\* Everything is loaded: coverage, conformance, regression and gates.
Analyze ==
    /\ pc = "loading"
    /\ run.compare => baseline.state = "whole"
    /\ failures' = EvidenceFailures \cup
          GateFailures(policy, run.conformanceFails, all, covered,
                       run.aggregate, MissingCovered)
    /\ pc' = "mkdir"
    /\ UNCHANGED <<run, thrown, baseline, exit, before, fileVars>>

\* Mutant: the baseline is updated whenever that was asked for.
AfterReport_UpdatesAlways(known) ==
    /\ failures' = known \cup IF run.ambiguous THEN {"semantic"} ELSE {}
    /\ pc' = IF run.update THEN "baseline" ELSE "cleanup"
    /\ UNCHANGED <<run, thrown, baseline, exit, before>>

\* What follows the write of the report, with the failures known by then.
AfterReport(known) ==
    /\ failures' = known \cup IF run.ambiguous THEN {"semantic"} ELSE {}
    /\ pc' = IF failures' = {} /\ run.update THEN "baseline" ELSE "cleanup"
    /\ UNCHANGED <<run, thrown, baseline, exit, before>>

\* mkdir fails, or the report does not validate.
RefuseReport ==
    /\ pc = "mkdir"
    /\ AfterReport(failures \cup {"runtime"})
    /\ UNCHANGED fileVars

WriteReport ==
    /\ pc = "mkdir"
    /\ pc' = "writing"
    /\ StartWrites
    /\ UNCHANGED <<run, failures, thrown, baseline, exit, before>>

\* Mutant: a failed write is no failure of the run.
AwaitReport_Swallows ==
    /\ pc = "writing"
    /\ Fulfilled \/ Rejected
    /\ AfterReport(failures)
    /\ UNCHANGED fileVars

\* Mutant: the rejection is not awaited.
AwaitReport_MissesRejection ==
    /\ pc = "writing"
    /\ Fulfilled /\ AfterReport(failures)
    /\ UNCHANGED fileVars

AwaitReport ==
    /\ pc = "writing"
    /\ \/ Fulfilled /\ AfterReport(failures)
       \/ Rejected /\ AfterReport(failures \cup {"runtime"})
    /\ UNCHANGED fileVars

\* writeBaseline empties the file, then fills it.
OpenBaseline ==
    /\ pc = "baseline"
    /\ baseline' = [state |-> "torn", covered |-> {}]
    /\ pc' = "baselineOpen"
    /\ UNCHANGED <<run, failures, thrown, exit, before, fileVars>>

FillBaseline ==
    /\ pc = "baselineOpen"
    /\ baseline' = [state |-> "whole", covered |-> covered]
    /\ pc' = "cleanup"
    /\ UNCHANGED <<run, failures, thrown, exit, before, fileVars>>

FailBaseline ==
    /\ pc \in {"baseline", "baselineOpen"}
    /\ thrown' = {"runtime"}
    /\ pc' = "cleanup"
    /\ UNCHANGED <<run, failures, baseline, exit, before, fileVars>>

\* finally { await specSource.cleanup() }; an error of its own takes the
\* place of the one that was on its way.
Cleanup(works) ==
    /\ pc = "cleanup"
    /\ thrown' = IF works THEN thrown ELSE {"runtime"}
    /\ pc' = "exit"
    /\ UNCHANGED <<run, failures, baseline, exit, before, fileVars>>

\* The process ends when nothing is under way any more.
Exit ==
    /\ pc = "exit"
    /\ Settled
    /\ exit' = ExitCode(failures \cup thrown)
    /\ pc' = "idle"
    /\ UNCHANGED <<run, failures, thrown, baseline, before, fileVars>>

BackgroundWrite ==
    /\ WriteStep
    /\ UNCHANGED <<pc, run, failures, thrown, baseline, exit, before>>

\* The CI job is cancelled, the machine fails, ...
Kill ==
    /\ pc # "idle"
    /\ pc' = "idle"
    /\ exit' = Killed
    /\ writing' = [f \in File |-> "no"]
    /\ UNCHANGED <<run, failures, thrown, baseline, before, artifact>>

Command ==
    \/ \E kind \in FailureKinds : RefuseOptions(kind) \/ FailLoading(kind)
    \/ FailAnalysis
    \/ RefuseBaseline
    \/ Analyze
    \/ RefuseReport
    \/ WriteReport
    \/ AwaitReport
    \/ OpenBaseline
    \/ FillBaseline
    \/ FailBaseline
    \/ \E works \in BOOLEAN : Cleanup(works)
    \/ Exit

Next ==
    \/ \E i \in Inputs : StartRun(i)
    \/ Command
    \/ BackgroundWrite
    \/ Kill

Spec == Init /\ [][Next]_vars

\* Awaited calls settle and the event loop goes on.
Fairness == WF_vars(Command) /\ WF_vars(BackgroundWrite)

FairSpec == Spec /\ Fairness

-----------------------------------------------------------------------------
(* Properties                                                              *)

\* Fail closed (GATE-01, GATE-02, GATE-04): a run that exits 0 had evidence
\* without a defect, covered every critical operation that no overriding
\* rule drops, reached the threshold where thresholds are enforced, and lost
\* nothing of a whole baseline where it was to compare.  Judged from the
\* input and from the baseline file as it was when the run started.
FailClosed ==
    pc = "idle" /\ exit = 0 =>
        LET p == ResolvePolicy(run.file, run.cli)
            dropped == {o \in run.operations : \E r \in p.rules :
                            o \in r.matches /\ (o \in p.critical => r.override)}
            kept == run.operations \ dropped
        IN  /\ ~run.invalidLines /\ ~run.ambiguous /\ ~run.conformanceFails
            /\ \A o \in p.critical \cap kept : o \in run.observed
            /\ p.thresholdErrors =>
                  100 * Cardinality(kept \cap run.observed)
                    >= p.minCoverage * Cardinality(kept)
            /\ p.thresholdErrors /\ p.aggregateGate =>
                  run.aggregate = Unset \/ run.aggregate >= p.minAggregate
            /\ run.compare =>
                  /\ before.state = "whole"
                  /\ p.regressionErrors =>
                        before.covered \cap kept \subseteq run.observed

\* A green run leaves its own report, whole, under both names, whatever an
\* earlier run had left there.
GreenRunHasItsReport ==
    pc = "idle" /\ exit = 0 => \A f \in File : artifact[f] = "current"

\* A run that is rejected by its input or by a gate leaves the baseline
\* alone, and so does every run that was not asked to update it.
RejectedRunKeepsBaseline ==
    /\ pc = "idle" /\ exit \in {2, 3, 4, 5} => baseline = before
    /\ ~run.update => baseline = before

\* The ratchet: a run that compares strictly and updates never writes a
\* baseline that has lost an operation the report still has.
BaselineRatchet ==
    [][ baseline'.state = "whole" /\ baseline' # baseline
          /\ run.compare /\ policy.regressionErrors =>
            before.covered \cap all \subseteq baseline'.covered ]_vars

\* Every run ends: no failure of a write or of a cleanup leaves the command
\* waiting for ever.
EveryRunEnds == pc # "idle" ~> pc = "idle"

=============================================================================
