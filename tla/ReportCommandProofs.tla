------------------------ MODULE ReportCommandProofs ------------------------
(***************************************************************************)
(* Proofs about `yanote report`: whatever the inputs, and through any      *)
(* number of runs, failures and kills, a green run has passed every gate   *)
(* and has left its report, and the baseline is changed only by a run that *)
(* nothing rejected, and never ratchets down.                              *)
(*                                                                         *)
(* The inductive invariant has four parts.  FilesInv ties the state of the *)
(* two writes to what the files hold.  BaselineInv says when the baseline  *)
(* file may differ from the one the run started with.  GreenInv says that  *)
(* a run that has got past its analysis without a failure has passed the   *)
(* gates, and, past its report, has both files written; ExitInv carries    *)
(* that over to the exit code.                                             *)
(*                                                                         *)
(* The last section is about `yanote combined-report`, which writes the    *)
(* same kind of artifacts (ReportFiles) but removes them on a failure.     *)
(***************************************************************************)
EXTENDS ReportCommand, FiniteSetTheorems, TLAPS

-----------------------------------------------------------------------------
(* The failure that takes precedence                                       *)

\* Every failure has a rank of its own, so that one of them comes first.
LEMMA PrimaryIsAFailure ==
    ASSUME NEW F \in SUBSET FailureKinds, F # {}
    PROVE  PrimaryFailure(F) \in F
<1> DEFINE first(k) == \A other \in F : Precedence[k] <= Precedence[other]
<1>1. \E k \in F : first(k)
  <2>1. CASE "input" \in F
    BY <2>1 DEF FailureKinds, Precedence
  <2>2. CASE "input" \notin F /\ "semantic" \in F
    BY <2>2 DEF FailureKinds, Precedence
  <2>3. CASE {"input", "semantic"} \cap F = {} /\ "regression" \in F
    BY <2>3 DEF FailureKinds, Precedence
  <2>4. CASE {"input", "semantic", "regression"} \cap F = {} /\ "threshold" \in F
    BY <2>4 DEF FailureKinds, Precedence
  <2>5. CASE F = {"runtime"}
    BY <2>5 DEF FailureKinds, Precedence
  <2> QED BY <2>1, <2>2, <2>3, <2>4, <2>5 DEF FailureKinds
<1> QED BY <1>1 DEF PrimaryFailure

\* The exit code is that of a failure, and 0 only without one.
LEMMA ExitCodeOfFailures ==
    ASSUME NEW F \in SUBSET FailureKinds
    PROVE  /\ ExitCode(F) \in {0, 2, 3, 4, 5, 6}
           /\ ExitCode(F) = 0 => F = {}
           /\ F = {} => ExitCode(F) = 0
           /\ F = {"runtime"} => ExitCode(F) = 6
           /\ F \subseteq {"input", "runtime"} => ExitCode(F) \in {0, 2, 6}
<1>1. CASE F = {}
  BY <1>1 DEF ExitCode
<1>2. CASE F # {}
  <2>1. PrimaryFailure(F) \in F
    BY <1>2, PrimaryIsAFailure
  <2>2. ExitCode(F) = EXIT[PrimaryFailure(F)]
    BY <1>2 DEF ExitCode
  <2>3. ASSUME NEW k \in FailureKinds
        PROVE  /\ EXIT[k] \in {2, 3, 4, 5, 6}
               /\ k = "runtime" => EXIT[k] = 6
               /\ k \in {"input", "runtime"} => EXIT[k] \in {2, 6}
    BY DEF EXIT, FailureKinds
  <2> QED BY <1>2, <2>1, <2>2, <2>3
<1> QED BY <1>1, <1>2

-----------------------------------------------------------------------------
(* Percentages                                                             *)

\* Where no percentage is below the threshold, the threshold is reached;
\* without operations it always is.
LEMMA PercentReached ==
    ASSUME NEW asked, IsFiniteSet(asked), NEW shown \in SUBSET asked,
           NEW percent \in Nat, ~OperationPercentBelow(asked, shown, percent)
    PROVE  100 * Cardinality(shown) >= percent * Cardinality(asked)
<1>1. Cardinality(asked) \in Nat /\ Cardinality(shown) \in Nat
  BY FS_Subset, FS_CardinalityType
<1>2. CASE asked = {}
  <2>1. Cardinality(asked) = 0
    BY <1>2, FS_EmptySet
  <2> QED BY <1>1, <2>1
<1>3. CASE asked # {}
  <2>1. ~(100 * Cardinality(shown) < percent * Cardinality(asked))
    BY <1>3 DEF OperationPercentBelow
  <2>2. percent * Cardinality(asked) \in Nat
    BY <1>1
  <2> QED BY <1>1, <2>1, <2>2
<1> QED BY <1>2, <1>3

-----------------------------------------------------------------------------
(* What the gates establish                                                *)

\* The input i, compared with the baseline b, deserves to pass; the report
\* itself may still be found ambiguous.
Deserved(i, b) ==
    LET p == ResolvePolicy(i.file, i.cli)
        kept == IncludedOperations(i.operations, p)
    IN  /\ ~i.invalidLines /\ ~i.conformanceFails
        /\ \A o \in p.critical \cap kept : o \in i.observed
        /\ p.thresholdErrors =>
              100 * Cardinality(kept \cap i.observed)
                >= p.minCoverage * Cardinality(kept)
        /\ p.thresholdErrors /\ p.aggregateGate =>
              i.aggregate = Unset \/ i.aggregate >= p.minAggregate
        /\ i.compare =>
              /\ b.state = "whole"
              /\ p.regressionErrors => b.covered \cap kept \subseteq i.observed

\* The thresholds of a resolved policy are percentages.
LEMMA PolicyPercentages ==
    ASSUME NEW i \in Inputs
    PROVE  /\ ResolvePolicy(i.file, i.cli).minCoverage \in 0..100
           /\ ResolvePolicy(i.file, i.cli).minAggregate \in 0..100
BY InputsAssumption, UnsetAssumption DEF ResolvePolicy, FirstSet

\* Gates that report nothing, on evidence without invalid lines, have found
\* the input to deserve it.
LEMMA GatesJudge ==
    ASSUME run \in Inputs,
           run.compare => baseline.state = "whole",
           EvidenceFailures = {},
           GateFailures(policy, run.conformanceFails, all, covered,
                        run.aggregate, MissingCovered) = {}
    PROVE  Deserved(run, baseline)
<1>1. /\ ~run.invalidLines
      /\ ~run.conformanceFails
      /\ RegressionFailures(policy, MissingCovered) = {}
      /\ ThresholdFailures(policy, all, covered, run.aggregate) = {}
  BY InputsAssumption DEF EvidenceFailures, GateFailures
<1> DEFINE hard == (policy.critical \cap all) \ covered # {}
           low == OperationPercentBelow(all, covered, policy.minCoverage)
           lowAggregate == /\ policy.aggregateGate /\ run.aggregate # Unset
                           /\ run.aggregate < policy.minAggregate
<1>2. ~hard /\ (policy.thresholdErrors => ~low /\ ~lowAggregate)
  BY <1>1 DEF ThresholdFailures
<1>3. \A o \in policy.critical \cap all : o \in run.observed
  BY <1>2 DEF covered, CoveredOperations
<1>4. policy.minCoverage \in 0..100 /\ policy.minAggregate \in 0..100
  BY PolicyPercentages DEF policy
<1>5. policy.thresholdErrors =>
        100 * Cardinality(all \cap run.observed)
          >= policy.minCoverage * Cardinality(all)
  <2> SUFFICES ASSUME policy.thresholdErrors
               PROVE  100 * Cardinality(covered)
                        >= policy.minCoverage * Cardinality(all)
    BY DEF covered, CoveredOperations
  <2>1. all \in SUBSET Operations /\ covered \in SUBSET all
    BY InputsAssumption
       DEF all, covered, IncludedOperations, CoveredOperations
  <2>2. IsFiniteSet(all)
    BY <2>1, FS_Subset, InputsAssumption
  <2> QED BY <1>2, <1>4, <2>1, <2>2, PercentReached
<1>6. policy.thresholdErrors /\ policy.aggregateGate =>
        run.aggregate = Unset \/ run.aggregate >= policy.minAggregate
  BY <1>2, <1>4, InputsAssumption
<1>7. run.compare /\ policy.regressionErrors =>
        baseline.covered \cap all \subseteq run.observed
  BY <1>1 DEF RegressionFailures, MissingCovered, MissingCoveredOperations,
              covered, CoveredOperations
<1> QED BY <1>1, <1>3, <1>5, <1>6, <1>7 DEF Deserved, all, policy

\* Gates report failures of the kinds the exit code knows.
LEMMA GateFailuresAreFailures ==
    EvidenceFailures \cup
      GateFailures(policy, run.conformanceFails, all, covered, run.aggregate,
                   MissingCovered) \subseteq FailureKinds
BY DEF EvidenceFailures, GateFailures, RegressionFailures, ThresholdFailures,
       FailureKinds

-----------------------------------------------------------------------------
(* Type correctness                                                        *)

\* The four steps of a writeFile call, and what they leave as it was.
LEMMA WritesTyped ==
    ASSUME FilesTypeOK, WriteStep
    PROVE  FilesTypeOK'
<1> SUFFICES ASSUME NEW f \in File, OpenFile(f) \/ FillFile(f) \/ FailWrite(f)
             PROVE  FilesTypeOK'
  BY DEF WriteStep
<1> QED BY DEF FilesTypeOK, OpenFile, FillFile, FailWrite

\* Every value that the command computes is of its type.
THEOREM TypeCorrect == Spec => []TypeOK
<1>1. Init => TypeOK
  BY DEF Init, TypeOK, InitFiles, FilesTypeOK, NoBaseline, Baseline, Killed
<1>2. TypeOK /\ [Next]_vars => TypeOK'
  <2> SUFFICES ASSUME TypeOK, [Next]_vars PROVE TypeOK'
    OBVIOUS
  <2> USE DEF TypeOK, FailureKinds
  <2>1. ASSUME NEW i \in Inputs, StartRun(i) PROVE TypeOK'
    BY <2>1 DEF StartRun, NewRun, FilesTypeOK
  <2>2. ASSUME NEW kind \in FailureKinds, RefuseOptions(kind) PROVE TypeOK'
    BY <2>2 DEF RefuseOptions, FilesTypeOK, fileVars
  <2>3. ASSUME NEW kind \in FailureKinds, FailLoading(kind) PROVE TypeOK'
    BY <2>3 DEF FailLoading, FilesTypeOK, fileVars
  <2>4. CASE FailAnalysis
    BY <2>4 DEF FailAnalysis, FilesTypeOK, fileVars, EvidenceFailures
  <2>5. CASE RefuseBaseline
    BY <2>5 DEF RefuseBaseline, FilesTypeOK, fileVars, EvidenceFailures
  <2>6. CASE Analyze
    <3>1. failures' \subseteq FailureKinds
      BY <2>6, GateFailuresAreFailures DEF Analyze
    <3> QED BY <2>6, <3>1 DEF Analyze, FilesTypeOK, fileVars
  <2>7. CASE RefuseReport
    BY <2>7 DEF RefuseReport, AfterReport, FilesTypeOK, fileVars
  <2>8. CASE WriteReport
    BY <2>8 DEF WriteReport, StartWrites, FilesTypeOK
  <2>9. CASE AwaitReport
    BY <2>9 DEF AwaitReport, AfterReport, FilesTypeOK, fileVars
  <2>10. CASE OpenBaseline
    BY <2>10 DEF OpenBaseline, FilesTypeOK, fileVars, Baseline
  <2>11. CASE FillBaseline
    <3>1. covered \subseteq Operations
      BY InputsAssumption
         DEF covered, CoveredOperations, all, IncludedOperations
    <3> QED BY <2>11, <3>1 DEF FillBaseline, FilesTypeOK, fileVars, Baseline
  <2>12. CASE FailBaseline
    BY <2>12 DEF FailBaseline, FilesTypeOK, fileVars
  <2>13. ASSUME NEW works \in BOOLEAN, Cleanup(works) PROVE TypeOK'
    BY <2>13 DEF Cleanup, FilesTypeOK, fileVars
  <2>14. CASE Exit
    <3>1. exit' \in {0, 2, 3, 4, 5, 6}
      <4>1. failures \cup thrown \in SUBSET FailureKinds
        OBVIOUS
      <4> QED BY <2>14, <4>1, ExitCodeOfFailures DEF Exit
    <3> QED BY <2>14, <3>1 DEF Exit, FilesTypeOK, fileVars
  <2>15. CASE BackgroundWrite
    BY <2>15, WritesTyped DEF BackgroundWrite
  <2>16. CASE Kill
    BY <2>16 DEF Kill, FilesTypeOK
  <2>17. CASE UNCHANGED vars
    BY <2>17 DEF vars, fileVars, FilesTypeOK
  <2> QED
    BY <2>1, <2>2, <2>3, <2>4, <2>5, <2>6, <2>7, <2>8, <2>9, <2>10, <2>11,
       <2>12, <2>13, <2>14, <2>15, <2>16, <2>17 DEF Next, Command
<1> QED BY <1>1, <1>2, PTL DEF Spec

-----------------------------------------------------------------------------
(* The inductive invariant                                                 *)

\* A name whose write is over holds this run's report, no removal gets in
\* the way, and nothing is written between two runs.
FilesInv ==
    /\ \A f \in File : /\ writing[f] = "written" => artifact[f] = "current"
                       /\ writing[f] # "unlinked"
    /\ pc = "idle" => Settled

\* The baseline file differs from the one the run found only when the run
\* was to update it and nothing had failed by then.
BaselineInv ==
    /\ pc \in {"loading", "mkdir", "writing", "baseline", "baselineOpen"} =>
          thrown = {}
    /\ pc \in {"baseline", "baselineOpen"} => run.update /\ failures = {}
    /\ baseline # before =>
          /\ run.update /\ failures = {} /\ thrown \subseteq {"runtime"}
          /\ pc \in {"baselineOpen", "cleanup", "exit", "idle"}

\* A run that has got past its analysis without a failure deserves it, and
\* past its report has both files written.
GreenInv ==
    failures = {} /\ thrown = {} =>
        /\ pc \in {"mkdir", "writing", "baseline", "baselineOpen", "cleanup",
                   "exit"} => Deserved(run, before)
        /\ pc \in {"baseline", "baselineOpen", "cleanup", "exit"} =>
              ~run.ambiguous /\ Fulfilled

\* What the exit code 0 says about the run that ended, and what the codes
\* of a rejection say about its baseline.
ExitInv ==
    pc = "idle" =>
        /\ exit = 0 => /\ Deserved(run, before) /\ ~run.ambiguous
                       /\ \A f \in File : artifact[f] = "current"
        /\ exit \in {2, 3, 4, 5} => baseline = before

IInv == TypeOK /\ FilesInv /\ BaselineInv /\ GreenInv /\ ExitInv

LEMMA InitiallyIInv == Init => IInv
BY DEF Init, IInv, FilesInv, BaselineInv, GreenInv, ExitInv, TypeOK, InitFiles,
       FilesTypeOK, Settled, Killed, NoBaseline, Baseline

\* One step of a write keeps the files in order, what is written stays so,
\* and a step is possible only while a write is going on.
LEMMA WriteSteps ==
    ASSUME FilesTypeOK, FilesInv, WriteStep
    PROVE  /\ \A f \in File :
                 /\ writing'[f] = "written" => artifact'[f] = "current"
                 /\ writing'[f] # "unlinked"
           /\ Fulfilled => Fulfilled'
           /\ ~Settled
<1> SUFFICES ASSUME NEW g \in File, OpenFile(g) \/ FillFile(g) \/ FailWrite(g)
             PROVE  /\ \A f \in File :
                          /\ writing'[f] = "written" => artifact'[f] = "current"
                          /\ writing'[f] # "unlinked"
                    /\ Fulfilled => Fulfilled'
                    /\ ~Settled
  BY DEF WriteStep
<1> QED
  BY DEF FilesTypeOK, FilesInv, OpenFile, FillFile, FailWrite, Fulfilled, Settled

\* A step of the command that leaves the files alone.
LEMMA FilesKept ==
    ASSUME FilesInv, UNCHANGED fileVars, pc' # "idle" \/ pc = "idle" \/ Settled
    PROVE  FilesInv'
BY DEF FilesInv, fileVars, Settled

LEMMA FilesStep == IInv /\ [Next]_vars => FilesInv'
<1> SUFFICES ASSUME IInv, [Next]_vars PROVE FilesInv'
  OBVIOUS
<1> USE DEF IInv
<1>1. ASSUME NEW i \in Inputs, StartRun(i) PROVE FilesInv'
  BY <1>1 DEF StartRun, NewRun, FilesInv
<1>2. CASE WriteReport
  BY <1>2 DEF WriteReport, StartWrites, FilesInv
<1>3. CASE BackgroundWrite
  <2>1. pc # "idle"
    BY <1>3, WriteSteps DEF BackgroundWrite, TypeOK, FilesInv
  <2> QED BY <1>3, <2>1, WriteSteps DEF BackgroundWrite, TypeOK, FilesInv
<1>4. CASE Kill
  BY <1>4 DEF Kill, FilesInv, Settled
<1>5. CASE Exit
  BY <1>5, FilesKept DEF Exit
<1>6. ASSUME NEW kind \in FailureKinds, RefuseOptions(kind) \/ FailLoading(kind)
      PROVE  FilesInv'
  BY <1>6, FilesKept DEF RefuseOptions, FailLoading
<1>7. CASE FailAnalysis \/ RefuseBaseline \/ Analyze
  BY <1>7, FilesKept DEF FailAnalysis, RefuseBaseline, Analyze
<1>8. CASE RefuseReport \/ AwaitReport
  <2>1. pc' # "idle"
    BY <1>8 DEF RefuseReport, AwaitReport, AfterReport
  <2> QED BY <1>8, <2>1, FilesKept DEF RefuseReport, AwaitReport
<1>9. CASE OpenBaseline \/ FillBaseline \/ FailBaseline
  BY <1>9, FilesKept DEF OpenBaseline, FillBaseline, FailBaseline
<1>10. ASSUME NEW works \in BOOLEAN, Cleanup(works) PROVE FilesInv'
  BY <1>10, FilesKept DEF Cleanup
<1>11. CASE UNCHANGED vars
  BY <1>11, FilesKept DEF vars
<1> QED
  BY <1>1, <1>2, <1>3, <1>4, <1>5, <1>6, <1>7, <1>8, <1>9, <1>10, <1>11
     DEF Next, Command

LEMMA BaselineStep == IInv /\ [Next]_vars => BaselineInv'
<1> SUFFICES ASSUME IInv, [Next]_vars PROVE BaselineInv'
  OBVIOUS
<1> USE DEF IInv, BaselineInv
<1>1. ASSUME NEW i \in Inputs, StartRun(i) PROVE BaselineInv'
  BY <1>1 DEF StartRun
<1>2. ASSUME NEW kind \in FailureKinds, RefuseOptions(kind) \/ FailLoading(kind)
      PROVE  BaselineInv'
  BY <1>2 DEF RefuseOptions, FailLoading
<1>3. CASE FailAnalysis \/ RefuseBaseline \/ Analyze
  BY <1>3 DEF FailAnalysis, RefuseBaseline, Analyze
<1>4. CASE RefuseReport
  BY <1>4 DEF RefuseReport, AfterReport
<1>5. CASE WriteReport
  BY <1>5 DEF WriteReport
<1>6. CASE AwaitReport
  BY <1>6 DEF AwaitReport, AfterReport
<1>7. CASE OpenBaseline
  BY <1>7 DEF OpenBaseline
<1>8. CASE FillBaseline
  BY <1>8 DEF FillBaseline
<1>9. CASE FailBaseline
  BY <1>9 DEF FailBaseline
<1>10. ASSUME NEW works \in BOOLEAN, Cleanup(works) PROVE BaselineInv'
  BY <1>10 DEF Cleanup
<1>11. CASE Exit
  BY <1>11 DEF Exit
<1>12. CASE BackgroundWrite
  BY <1>12 DEF BackgroundWrite
<1>13. CASE Kill
  BY <1>13 DEF Kill
<1>14. CASE UNCHANGED vars
  BY <1>14 DEF vars
<1> QED
  BY <1>1, <1>2, <1>3, <1>4, <1>5, <1>6, <1>7, <1>8, <1>9, <1>10, <1>11,
     <1>12, <1>13, <1>14 DEF Next, Command

LEMMA GreenStep == IInv /\ [Next]_vars => GreenInv'
<1> SUFFICES ASSUME IInv, [Next]_vars PROVE GreenInv'
  OBVIOUS
<1> USE DEF IInv, GreenInv
<1>1. ASSUME NEW i \in Inputs, StartRun(i) PROVE GreenInv'
  BY <1>1 DEF StartRun
<1>2. ASSUME NEW kind \in FailureKinds, RefuseOptions(kind) \/ FailLoading(kind)
      PROVE  GreenInv'
  BY <1>2 DEF RefuseOptions, FailLoading
<1>3. CASE FailAnalysis \/ RefuseBaseline
  BY <1>3 DEF FailAnalysis, RefuseBaseline
<1>4. CASE Analyze
  <2> SUFFICES ASSUME failures' = {} PROVE Deserved(run, before)
    BY <1>4 DEF Analyze
  <2>1. baseline = before
    BY <1>4 DEF Analyze, BaselineInv
  <2>2. Deserved(run, baseline)
    BY <1>4, GatesJudge DEF Analyze, TypeOK
  <2> QED BY <2>1, <2>2
<1>5. CASE RefuseReport
  BY <1>5 DEF RefuseReport, AfterReport
<1>6. CASE WriteReport
  BY <1>6 DEF WriteReport
<1>7. CASE AwaitReport
  BY <1>7 DEF AwaitReport, AfterReport, fileVars, Fulfilled
<1>8. CASE OpenBaseline \/ FillBaseline \/ FailBaseline
  BY <1>8 DEF OpenBaseline, FillBaseline, FailBaseline, fileVars, Fulfilled
<1>9. ASSUME NEW works \in BOOLEAN, Cleanup(works) PROVE GreenInv'
  BY <1>9 DEF Cleanup, fileVars, Fulfilled
<1>10. CASE Exit
  BY <1>10 DEF Exit
<1>11. CASE BackgroundWrite
  BY <1>11, WriteSteps DEF BackgroundWrite, TypeOK
<1>12. CASE Kill
  BY <1>12 DEF Kill
<1>13. CASE UNCHANGED vars
  BY <1>13 DEF vars, fileVars, Fulfilled
<1> QED
  BY <1>1, <1>2, <1>3, <1>4, <1>5, <1>6, <1>7, <1>8, <1>9, <1>10, <1>11,
     <1>12, <1>13 DEF Next, Command

LEMMA ExitStep == IInv /\ [Next]_vars => ExitInv'
<1> SUFFICES ASSUME IInv, [Next]_vars, pc' = "idle" PROVE ExitInv'
  BY DEF ExitInv
<1> USE DEF IInv, ExitInv
<1>1. CASE Exit
  <2> DEFINE F == failures \cup thrown
  <2>1. F \in SUBSET FailureKinds
    BY DEF TypeOK
  <2>2. ASSUME exit' = 0
        PROVE  /\ Deserved(run, before) /\ ~run.ambiguous
               /\ \A f \in File : artifact[f] = "current"
    <3>1. F = {}
      BY <1>1, <2>1, <2>2, ExitCodeOfFailures DEF Exit
    <3> QED BY <1>1, <3>1 DEF Exit, GreenInv, FilesInv, Fulfilled
  <2>3. ASSUME exit' \in {2, 3, 4, 5} PROVE baseline = before
    <3> SUFFICES ASSUME baseline # before PROVE FALSE
      OBVIOUS
    <3>1. F \in {{}, {"runtime"}}
      BY DEF BaselineInv
    <3>2. ExitCode(F) \in {0, 6}
      BY <2>1, <3>1, ExitCodeOfFailures
    <3> QED BY <1>1, <2>3, <3>2 DEF Exit
  <2> QED BY <1>1, <2>2, <2>3 DEF Exit, fileVars
<1>2. CASE Kill
  BY <1>2 DEF Kill, Killed
<1>3. CASE BackgroundWrite
  BY <1>3, WriteSteps DEF BackgroundWrite, TypeOK, FilesInv
<1>4. CASE UNCHANGED vars
  BY <1>4 DEF vars, fileVars
<1>5. ~\E i \in Inputs : StartRun(i)
  BY DEF StartRun
<1>6. ~\E kind \in FailureKinds : RefuseOptions(kind) \/ FailLoading(kind)
  BY DEF RefuseOptions, FailLoading
<1>7. ~(FailAnalysis \/ RefuseBaseline \/ Analyze \/ WriteReport)
  BY DEF FailAnalysis, RefuseBaseline, Analyze, WriteReport
<1>8. ~(RefuseReport \/ AwaitReport)
  BY DEF RefuseReport, AwaitReport, AfterReport
<1>9. ~(OpenBaseline \/ FillBaseline \/ FailBaseline)
  BY DEF OpenBaseline, FillBaseline, FailBaseline
<1>10. ~\E works \in BOOLEAN : Cleanup(works)
  BY DEF Cleanup
<1> QED
  BY <1>1, <1>2, <1>3, <1>4, <1>5, <1>6, <1>7, <1>8, <1>9, <1>10
     DEF Next, Command

\* The four parts hold in every state of every behaviour.
LEMMA AlwaysIInv == Spec => []IInv
<1>1. Init => IInv
  BY InitiallyIInv
<1>2. IInv /\ [Next]_vars => FilesInv' /\ BaselineInv' /\ GreenInv' /\ ExitInv'
  BY FilesStep, BaselineStep, GreenStep, ExitStep
<1>3. Spec => []TypeOK
  BY TypeCorrect
<1> QED BY <1>1, <1>2, <1>3, PTL DEF Spec, IInv

-----------------------------------------------------------------------------
(* The theorems                                                            *)

\* A run that exits 0 had sound evidence and passed every gate, whatever the
\* inputs and whatever earlier runs, failures and kills have left behind.
THEOREM GreenRunsDeserveIt == Spec => []FailClosed
<1>1. IInv => FailClosed
  <2> SUFFICES ASSUME IInv, pc = "idle", exit = 0 PROVE FailClosed
    BY DEF FailClosed
  <2>1. Deserved(run, before) /\ ~run.ambiguous
    BY DEF IInv, ExitInv
  <2> DEFINE p == ResolvePolicy(run.file, run.cli)
             dropped == {o \in run.operations : \E r \in p.rules :
                            o \in r.matches /\ (o \in p.critical => r.override)}
  <2>2. IncludedOperations(run.operations, p) = run.operations \ dropped
    BY DEF IncludedOperations
  <2> QED BY <2>1, <2>2 DEF Deserved, FailClosed
<1> QED BY <1>1, AlwaysIInv, PTL

\* A run that exits 0 has left both of its artifacts.
THEOREM GreenRunsReport == Spec => []GreenRunHasItsReport
<1>1. IInv => GreenRunHasItsReport
  BY DEF IInv, ExitInv, GreenRunHasItsReport
<1> QED BY <1>1, AlwaysIInv, PTL

\* Neither a rejected run nor one without --update-baseline changes the
\* baseline file.
THEOREM RejectionKeepsBaseline == Spec => []RejectedRunKeepsBaseline
<1>1. IInv => RejectedRunKeepsBaseline
  BY DEF IInv, ExitInv, BaselineInv, RejectedRunKeepsBaseline
<1> QED BY <1>1, AlwaysIInv, PTL

\* What a strictly comparing run writes to the baseline keeps every covered
\* operation of the baseline before that the report still has.
THEOREM BaselineOnlyRatchetsUp == Spec => BaselineRatchet
<1> DEFINE A == baseline'.state = "whole" /\ baseline' # baseline
                  /\ run.compare /\ policy.regressionErrors =>
                    before.covered \cap all \subseteq baseline'.covered
<1>1. IInv /\ [Next]_vars => [A]_vars
  <2> SUFFICES ASSUME IInv, Next, baseline'.state = "whole",
                      baseline' # baseline, run.compare,
                      policy.regressionErrors
               PROVE  before.covered \cap all \subseteq baseline'.covered
    OBVIOUS
  <2>1. CASE FillBaseline
    <3>1. Deserved(run, before)
      BY <2>1 DEF FillBaseline, IInv, GreenInv, BaselineInv
    <3>2. before.covered \cap all \subseteq covered
      BY <3>1 DEF Deserved, all, policy, covered, CoveredOperations
    <3> QED BY <2>1, <3>2 DEF FillBaseline
  <2>2. CASE OpenBaseline
    BY <2>2 DEF OpenBaseline
  <2>3. CASE RefuseReport \/ AwaitReport
    BY <2>3 DEF RefuseReport, AwaitReport, AfterReport
  <2> QED
    BY <2>1, <2>2, <2>3
       DEF Next, Command, StartRun, RefuseOptions, FailLoading, FailAnalysis,
           RefuseBaseline, Analyze, WriteReport, FailBaseline, Cleanup, Exit,
           BackgroundWrite, Kill
<1> QED BY <1>1, AlwaysIInv, PTL DEF Spec, BaselineRatchet

-----------------------------------------------------------------------------
(* `yanote combined-report`, over variables of its own.                    *)
(*                                                                         *)
(* The invariant has four parts.  StagesInv says what each stage of a run  *)
(* has done so far; ContentInv, that what is written comes from both       *)
(* children; RemovalInv, that a race of the removals with the writes still *)
(* leaves a name given up for good; CodeInv, what the exit code keeps.     *)

VARIABLES place, loaded, failed, verdict, removing, code, finding, files, calls

Combined == INSTANCE CombinedReport
    WITH pc <- place, exit <- code, artifact <- files, writing <- calls

\* The variables take the values that the code gives them.
CombinedTypeOK ==
    /\ Combined!FilesTypeOK
    /\ place \in {"idle", "loading", "building", "built", "writing", "removing",
                  "exit"}
    /\ loaded \in [Combined!Child -> Combined!Status \cup Combined!UnusableChild
                                       \cup {"pending", "throws"}]
    /\ failed \in {"none", "input", "runtime"}
    /\ verdict \in Combined!Status \cup {"none"}
    /\ removing \in [Combined!File -> {"no", "started", "removed", "failed"}]
    /\ code \in {0, 2, 6, Combined!Killed}

\* What is written, or is about to be, is made of two children that were read
\* whole, and is no better than they are.
MadeOfBoth ==
    \A c \in Combined!Child :
        /\ loaded[c] \in Combined!Status
        /\ loaded[c] # "ok" => verdict # "ok"
        /\ loaded[c] = "invalid" => verdict = "invalid"

\* No write has begun, and the artifacts are those that the run found.
Untouched ==
    /\ files = finding
    /\ \A f \in Combined!File : calls[f] = "no"

\* A name whose write is over for good, or has never begun: once it has been
\* removed, nothing brings it back.
GivenUp(f) ==
    /\ calls[f] \in {"no", "failed"}
    /\ removing[f] = "removed" => files[f] = "absent"

\* Before its writes a run leaves the artifacts alone, and it removes none
\* before it has failed.
StagesInv ==
    /\ place \in {"loading", "building", "built"} => Untouched
    /\ place \in {"loading", "building", "built", "writing"} =>
          /\ failed = "none"
          /\ \A f \in Combined!File : removing[f] = "no"
    /\ place = "building" =>
          \A c \in Combined!Child : loaded[c] \in Combined!Status
    /\ place = "removing" =>
          /\ failed = "runtime"
          /\ \A f \in Combined!File : removing[f] # "no"
    /\ place = "exit" /\ failed = "input" => Untouched
    /\ place = "exit" /\ failed = "none" => Combined!Fulfilled
    /\ place = "idle" => Combined!Settled
    /\ place # "removing" => \A f \in Combined!File : removing[f] # "started"

\* This run's report under a name, or on its way there, is made of both
\* children.
ContentInv ==
    /\ place = "built" => MadeOfBoth
    /\ \A f \in Combined!File :
          files[f] = "current" \/ calls[f] # "no" => MadeOfBoth
    /\ place \in {"loading", "building", "built"} =>
          \A f \in Combined!File : files[f] # "current"

\* A removal leaves nothing of an earlier run behind.  Where it raced with a
\* write, some name was given up before it started.
RemovalInv ==
    /\ \A f \in Combined!File :
          /\ calls[f] = "written" /\ removing[f] = "no" => files[f] = "current"
          /\ calls[f] = "unlinked" => removing[f] = "removed"
          /\ removing[f] = "removed" => files[f] # "stale"
    /\ (\E f \in Combined!File : removing[f] # "no") =>
          \E f \in Combined!File : GivenUp(f)
    /\ failed # "runtime" => \A f \in Combined!File : removing[f] = "no"

\* What the exit code of the run that ended says.
CodeInv ==
    place = "idle" =>
        /\ code = 0 => \A f \in Combined!File : files[f] = "current"
        /\ code = 2 => files = finding

\* The inductive invariant.
CombinedInv ==
    CombinedTypeOK /\ StagesInv /\ ContentInv /\ RemovalInv /\ CodeInv

\* Before the first run there is nothing to tell.
LEMMA InitiallyCombinedInv == Combined!Init => CombinedInv
BY DEF Combined!Init, Combined!InitFiles, CombinedInv, CombinedTypeOK,
       Combined!FilesTypeOK, StagesInv, ContentInv, RemovalInv, CodeInv,
       Combined!Settled, Combined!Killed

\* A new run ages the artifacts and forgets the rest.
LEMMA CombinedStart == CombinedInv /\ Combined!StartRun => CombinedInv'
BY DEF Combined!StartRun, Combined!NewRun, CombinedInv, CombinedTypeOK,
       Combined!FilesTypeOK, StagesInv, Untouched, ContentInv, RemovalInv, CodeInv

\* The steps before the writes leave the files alone.
LEMMA CombinedLoad ==
    ASSUME NEW c \in Combined!Child,
           NEW content \in Combined!Status \cup Combined!UnusableChild
                             \cup {"throws"},
           CombinedInv, Combined!LoadChild(c, content)
    PROVE  CombinedInv'
<1> USE DEF CombinedInv, Combined!LoadChild, Combined!fileVars
<1>1. CombinedTypeOK'
  BY DEF CombinedTypeOK, Combined!FilesTypeOK
<1>2. StagesInv'
  BY DEF StagesInv, Untouched, Combined!Settled, Combined!Fulfilled
<1>3. ContentInv'
  BY DEF ContentInv, StagesInv, Untouched
<1>4. RemovalInv' /\ CodeInv'
  BY DEF RemovalInv, CodeInv, GivenUp
<1> QED BY <1>1, <1>2, <1>3, <1>4

\* The children settle, and the report is built of them or is not.
LEMMA CombinedBuild ==
    ASSUME CombinedInv,
           Combined!AwaitChildren \/ Combined!FailBuild \/ Combined!BuildReport
    PROVE  CombinedInv'
<1> USE DEF CombinedInv, Combined!AwaitChildren, Combined!FailBuild,
            Combined!BuildReport, Combined!fileVars, Combined!Loaded
<1>1. CombinedTypeOK'
  BY DEF CombinedTypeOK, Combined!FilesTypeOK, Combined!CombinedStatus,
         Combined!Status
<1>2. StagesInv'
  BY DEF StagesInv, Untouched, Combined!Settled, Combined!Fulfilled,
         CombinedTypeOK
<1>3. ContentInv'
  BY DEF ContentInv, StagesInv, Untouched, MadeOfBoth, Combined!CombinedStatus,
         Combined!Status
<1>4. RemovalInv' /\ CodeInv'
  BY DEF RemovalInv, CodeInv, GivenUp, StagesInv
<1> QED BY <1>1, <1>2, <1>3, <1>4

\* The writes start with the report built and nothing given up.
LEMMA CombinedWrites ==
    ASSUME CombinedInv, Combined!WriteReport \/ Combined!FulfilReport
    PROVE  CombinedInv'
<1> USE DEF CombinedInv, Combined!WriteReport, Combined!FulfilReport,
            Combined!StartWrites, Combined!fileVars
<1>1. CombinedTypeOK'
  BY DEF CombinedTypeOK, Combined!FilesTypeOK
<1>2. StagesInv'
  BY DEF StagesInv, Untouched, Combined!Settled, Combined!Fulfilled
<1>3. ContentInv'
  BY DEF ContentInv, MadeOfBoth
<1>4. RemovalInv' /\ CodeInv'
  BY DEF RemovalInv, CodeInv, GivenUp, StagesInv
<1> QED BY <1>1, <1>2, <1>3, <1>4

\* When the removals start, some write has failed or none has begun.
LEMMA CombinedRemovals ==
    ASSUME CombinedInv,
           \/ Combined!RefuseReport \/ Combined!RejectReport
           \/ Combined!AwaitRemoval
    PROVE  CombinedInv'
<1> USE DEF CombinedInv, Combined!RefuseReport, Combined!RejectReport,
            Combined!StartRemoval, Combined!AwaitRemoval, Combined!fileVars
<1>1. CombinedTypeOK'
  BY DEF CombinedTypeOK, Combined!FilesTypeOK
<1>2. StagesInv'
  BY DEF StagesInv, Untouched, Combined!Settled, Combined!Fulfilled
<1>3. ContentInv'
  BY DEF ContentInv, MadeOfBoth
<1>4. RemovalInv' /\ CodeInv'
  BY DEF RemovalInv, CodeInv, GivenUp, StagesInv, Untouched,
         Combined!Rejected, Combined!File
<1> QED BY <1>1, <1>2, <1>3, <1>4

\* A step of a write behind the command's back.
LEMMA CombinedBackground ==
    ASSUME CombinedInv, Combined!BackgroundWrite
    PROVE  CombinedInv'
<1> SUFFICES ASSUME NEW f \in Combined!File,
                    \/ Combined!OpenFile(f) \/ Combined!FillFile(f)
                    \/ Combined!FailWrite(f)
             PROVE  CombinedInv'
  BY DEF Combined!BackgroundWrite, Combined!WriteStep
<1> USE DEF CombinedInv, Combined!BackgroundWrite, Combined!OpenFile,
            Combined!FillFile, Combined!FailWrite
<1>1. CombinedTypeOK'
  BY DEF CombinedTypeOK, Combined!FilesTypeOK
<1>2. place \notin {"idle", "loading", "building", "built"}
  BY DEF StagesInv, Untouched, Combined!Settled
<1>3. ~(place = "exit" /\ failed = "input")
  BY DEF StagesInv, Untouched
<1>4. StagesInv'
  BY <1>2, <1>3 DEF StagesInv, Combined!Fulfilled
<1>5. ContentInv'
  BY <1>2 DEF ContentInv, MadeOfBoth, CombinedTypeOK, Combined!FilesTypeOK
<1>6. CodeInv'
  BY <1>2 DEF CodeInv
<1>7. RemovalInv'
  BY DEF RemovalInv, GivenUp, CombinedTypeOK, Combined!FilesTypeOK
<1> QED BY <1>1, <1>4, <1>5, <1>6, <1>7

\* A removal, which may come between the opening and the filling of a file.
LEMMA CombinedRemove ==
    ASSUME NEW f \in Combined!File, CombinedInv,
           Combined!Remove(f) \/ Combined!FailRemove(f)
    PROVE  CombinedInv'
<1> USE DEF CombinedInv, Combined!Remove, Combined!FailRemove,
            Combined!RemoveFile, Combined!fileVars
<1>1. CombinedTypeOK'
  BY DEF CombinedTypeOK, Combined!FilesTypeOK
<1>2. place = "removing"
  BY DEF StagesInv
<1>3. StagesInv'
  BY <1>2 DEF StagesInv, CombinedTypeOK
<1>4. ContentInv'
  BY <1>2 DEF ContentInv, MadeOfBoth, CombinedTypeOK, Combined!FilesTypeOK
<1>5. CodeInv'
  BY <1>2 DEF CodeInv
<1>6. RemovalInv'
  BY <1>2 DEF RemovalInv, StagesInv, GivenUp, CombinedTypeOK,
              Combined!FilesTypeOK
<1> QED BY <1>1, <1>3, <1>4, <1>5, <1>6

\* The end of a run, by itself or by a signal.
LEMMA CombinedEnd ==
    ASSUME CombinedInv, Combined!Exit \/ Combined!Kill
    PROVE  CombinedInv'
<1> USE DEF CombinedInv, Combined!Exit, Combined!Kill, Combined!Killed,
            Combined!fileVars
<1>1. CombinedTypeOK'
  BY DEF CombinedTypeOK, Combined!FilesTypeOK
<1>2. StagesInv'
  BY DEF StagesInv, Combined!Settled
<1>3. ContentInv'
  BY DEF ContentInv, MadeOfBoth
<1>4. RemovalInv'
  BY DEF RemovalInv, GivenUp
<1>5. CodeInv'
  BY DEF CodeInv, RemovalInv, StagesInv, Untouched, Combined!Fulfilled,
         CombinedTypeOK
<1> QED BY <1>1, <1>2, <1>3, <1>4, <1>5

\* A step of something else.
LEMMA CombinedStutter ==
    ASSUME CombinedInv, UNCHANGED Combined!vars
    PROVE  CombinedInv'
BY DEF CombinedInv, Combined!vars, Combined!fileVars, CombinedTypeOK,
       Combined!FilesTypeOK, StagesInv, Untouched, ContentInv, MadeOfBoth,
       RemovalInv, GivenUp, CodeInv, Combined!Settled, Combined!Fulfilled

\* Every step of every run keeps the invariant.
LEMMA AlwaysCombinedInv == Combined!Spec => []CombinedInv
<1>1. CombinedInv /\ [Combined!Next]_(Combined!vars) => CombinedInv'
  BY CombinedStart, CombinedLoad, CombinedBuild, CombinedWrites,
     CombinedRemovals, CombinedBackground, CombinedRemove, CombinedEnd,
     CombinedStutter
     DEF Combined!Next, Combined!Command, Combined!Background
<1> QED BY <1>1, InitiallyCombinedInv, PTL DEF Combined!Spec

\* The exit code of `yanote combined-report` tells what lies under its two
\* names, whatever fails or is killed and however the removals race with the
\* writes; and a report of the run is made of two child reports, each read
\* whole, and is no better than they are.
THEOREM CombinedRunsTellTheirArtifacts ==
    Combined!Spec => []Combined!ArtifactsMatchExit
<1>1. CombinedInv => Combined!ArtifactsMatchExit
  <2> SUFFICES ASSUME CombinedInv, place = "idle"
               PROVE  Combined!ArtifactsMatchExit
    BY DEF Combined!ArtifactsMatchExit
  <2>1. code = 6 /\ (\A f \in Combined!File : removing[f] = "removed") =>
              /\ \E f \in Combined!File : files[f] = "absent"
              /\ \A f \in Combined!File : files[f] # "stale"
    BY DEF CombinedInv, RemovalInv, GivenUp, Combined!File
  <2>2. (\E f \in Combined!File : files[f] = "current") => MadeOfBoth
    BY DEF CombinedInv, ContentInv
  <2> QED
    BY <2>1, <2>2
       DEF CombinedInv, CodeInv, MadeOfBoth, Combined!ArtifactsMatchExit
<1> QED BY <1>1, AlwaysCombinedInv, PTL

=============================================================================
