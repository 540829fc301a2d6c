--------------------------- MODULE CombinedReport ---------------------------
(***************************************************************************)
(* `yanote combined-report`, run again and again: it reads the two child   *)
(* reports at once, builds the combined report if both are usable, writes  *)
(* its two artifacts, and removes both when a write fails.  The removals   *)
(* run together with each other and with what is left of the write:        *)
(* Promise.all has rejected, the call for the other file goes on.  The     *)
(* commands that write the child reports may run at the same time, so that *)
(* each child is read as whatever its file holds at that moment.           *)
(***************************************************************************)
EXTENDS ReportFiles, Naturals

VARIABLES
    pc,         \* where the command is
    loaded,     \* what each child was read as, "pending" before
    failed,     \* the failure it has met: "none", "input" or "runtime"
    verdict,    \* the status that this run's report states
    removing,   \* where the rm call for each name is
    exit,       \* the exit code of the last run
    finding     \* history: what this run found under each name

vars == <<pc, loaded, failed, verdict, removing, exit, finding, fileVars>>

Killed == 137

Child == {"http", "async"}

\* The status of a child report, and of the combined one.
Status == {"ok", "partial", "invalid"}

\* A file that cannot be read, that holds no JSON (or half of it), another
\* schema or the report of another phase; and a validation that throws.
UnusableChild == {"missing", "torn", "otherSchema", "otherPhase"}

Init ==
    /\ InitFiles
    /\ pc = "idle"
    /\ loaded = [c \in Child |-> "pending"]
    /\ failed = "none"
    /\ verdict = "none"
    /\ removing = [f \in File |-> "no"]
    /\ exit = Killed
    /\ finding = [f \in File |-> "absent"]

-----------------------------------------------------------------------------
(* The steps of executeCombinedReportCommand, from one await to the next   *)

StartRun ==
    /\ pc = "idle"
    /\ pc' = "loading"
    /\ loaded' = [c \in Child |-> "pending"]
    /\ failed' = "none"
    /\ verdict' = "none"
    /\ removing' = [f \in File |-> "no"]
    /\ NewRun
    /\ finding' = artifact'
    /\ UNCHANGED exit

\* loadCombinedHttpChildReport or loadCombinedAsyncChildReport settles.
LoadChild(c, content) ==
    /\ pc = "loading"
    /\ loaded[c] = "pending"
    /\ loaded' = [loaded EXCEPT ![c] = content]
    /\ UNCHANGED <<pc, failed, verdict, removing, exit, finding, fileVars>>

Loaded(contents) == \E c \in Child : loaded[c] \in contents

\* Promise.all over both.  An input failure takes precedence.
AwaitChildren ==
    /\ pc = "loading"
    /\ ~Loaded({"pending"})
    /\ failed' = IF Loaded(UnusableChild) THEN "input"
                 ELSE IF Loaded({"throws"}) THEN "runtime" ELSE "none"
    /\ pc' = IF failed' = "none" THEN "building" ELSE "exit"
    /\ UNCHANGED <<loaded, verdict, removing, exit, finding, fileVars>>

\* buildCombinedReport throws, as its report does not validate: nothing is
\* written or removed.
FailBuild ==
    /\ pc = "building"
    /\ failed' = "runtime"
    /\ pc' = "exit"
    /\ UNCHANGED <<loaded, verdict, removing, exit, finding, fileVars>>

\* resolveCombinedReportStatus
CombinedStatus ==
    IF Loaded({"invalid"}) THEN "invalid"
    ELSE IF Loaded({"partial"}) THEN "partial" ELSE "ok"

BuildReport ==
    /\ pc = "building"
    /\ verdict' = CombinedStatus
    /\ pc' = "built"
    /\ UNCHANGED <<loaded, failed, removing, exit, finding, fileVars>>

WriteReport ==
    /\ pc = "built"
    /\ pc' = "writing"
    /\ StartWrites
    /\ UNCHANGED <<loaded, verdict, failed, removing, exit, finding>>

\* Mutant: only the JSON is removed.
StartRemoval_JsonOnly ==
    /\ failed' = "runtime"
    /\ removing' = [f \in File |-> IF f = "json" THEN "started" ELSE "removed"]
    /\ pc' = "removing"
    /\ UNCHANGED <<loaded, verdict, exit, finding, fileVars>>

\* cleanupCombinedArtifacts starts both removals.
StartRemoval ==
    /\ failed' = "runtime"
    /\ removing' = [f \in File |-> "started"]
    /\ pc' = "removing"
    /\ UNCHANGED <<loaded, verdict, exit, finding, fileVars>>

\* mkdir fails, or the combined report does not validate.
RefuseReport == pc = "built" /\ StartRemoval

RejectReport == pc = "writing" /\ Rejected /\ StartRemoval

FulfilReport ==
    /\ pc = "writing"
    /\ Fulfilled
    /\ pc' = "exit"
    /\ UNCHANGED <<loaded, verdict, failed, removing, exit, finding, fileVars>>

Remove(f) ==
    /\ removing[f] = "started"
    /\ RemoveFile(f)
    /\ removing' = [removing EXCEPT ![f] = "removed"]
    /\ UNCHANGED <<loaded, verdict, pc, failed, exit, finding>>

\* No permission on the directory, ...
FailRemove(f) ==
    /\ removing[f] = "started"
    /\ removing' = [removing EXCEPT ![f] = "failed"]
    /\ UNCHANGED <<loaded, verdict, pc, failed, exit, finding, fileVars>>

\* Mutant: the command waits for the files to be gone.
AwaitRemoval_NeedsBoth ==
    /\ pc = "removing"
    /\ \A f \in File : removing[f] = "removed"
    /\ pc' = "exit"
    /\ UNCHANGED <<loaded, verdict, failed, removing, exit, finding, fileVars>>

\* Promise.allSettled: the outcome of the removals does not matter.
AwaitRemoval ==
    /\ pc = "removing"
    /\ \A f \in File : removing[f] # "started"
    /\ pc' = "exit"
    /\ UNCHANGED <<loaded, verdict, failed, removing, exit, finding, fileVars>>

\* The process ends when nothing is under way any more.
Exit ==
    /\ pc = "exit"
    /\ Settled
    /\ exit' = CASE failed = "none"    -> 0
                 [] failed = "input"   -> 2
                 [] failed = "runtime" -> 6
    /\ pc' = "idle"
    /\ UNCHANGED <<loaded, verdict, failed, removing, finding, fileVars>>

BackgroundWrite ==
    /\ WriteStep
    /\ UNCHANGED <<loaded, verdict, pc, failed, removing, exit, finding>>

Kill ==
    /\ pc # "idle"
    /\ pc' = "idle"
    /\ exit' = Killed
    /\ writing' = [f \in File |-> "no"]
    /\ removing' = [f \in File |-> "no"]
    /\ UNCHANGED <<loaded, verdict, failed, finding, artifact>>

Command ==
    \/ \E c \in Child, content \in Status \cup UnusableChild \cup {"throws"} :
          LoadChild(c, content)
    \/ AwaitChildren
    \/ BuildReport
    \/ FailBuild
    \/ WriteReport
    \/ RefuseReport
    \/ RejectReport
    \/ FulfilReport
    \/ AwaitRemoval
    \/ Exit

Background == BackgroundWrite \/ \E f \in File : Remove(f) \/ FailRemove(f)

Next ==
    \/ StartRun
    \/ Command
    \/ Background
    \/ Kill

Spec == Init /\ [][Next]_vars

\* Awaited calls settle and the event loop goes on.
Fairness == WF_vars(Command) /\ WF_vars(Background)

FairSpec == Spec /\ Fairness

-----------------------------------------------------------------------------
(* Properties                                                              *)

\* The exit code tells what lies under the two names.  A green run leaves its
\* own report, whole, under both.  A run whose report could not be written
\* does not leave a pair that looks like one: where files can be removed, at
\* least one of the two is gone, whether an earlier run or this one had made
\* it, and the other holds at most what this run was still writing when it
\* gave up.  A run that was refused leaves the artifacts as they were.
\* And whatever became of the run, a report of its own under either name is
\* made of two child reports that were each read whole, and is no better than
\* they are.
ArtifactsMatchExit ==
    pc = "idle" =>
        /\ exit = 0 => \A f \in File : artifact[f] = "current"
        /\ exit = 6 /\ (\A f \in File : removing[f] = "removed") =>
              /\ \E f \in File : artifact[f] = "absent"
              /\ \A f \in File : artifact[f] # "stale"
        /\ exit = 2 => artifact = finding
        /\ (\E f \in File : artifact[f] = "current") =>
              \A c \in Child :
                  /\ loaded[c] \in Status
                  /\ loaded[c] # "ok" => verdict # "ok"
                  /\ loaded[c] = "invalid" => verdict = "invalid"

\* Every run ends, whichever writes and removals fail.
EveryRunEnds == pc # "idle" ~> pc = "idle"

=============================================================================
