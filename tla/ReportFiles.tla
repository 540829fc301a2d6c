---------------------------- MODULE ReportFiles ----------------------------
(***************************************************************************)
(* The two artifacts of a report command, <name>.json and <name>.html in   *)
(* the output directory, and how writeYanoteReport,                        *)
(* writeAsyncYanoteReport and writeCombinedYanoteReport write them: two    *)
(* writeFile calls under one Promise.all.  writeFile opens the file        *)
(* (creating or emptying it) and then fills it; each step can fail.        *)
(* Promise.all rejects with the first failure and does not stop the other  *)
(* call, which goes on behind the command's back.                          *)
(***************************************************************************)

VARIABLES
    artifact,   \* what the name holds: nothing, a part of a report, the
                \* whole report of an earlier run, or that of this run
    writing     \* where the writeFile call for each name is

fileVars == <<artifact, writing>>

File == {"json", "html"}

FilesTypeOK ==
    /\ artifact \in [File -> {"absent", "torn", "stale", "current"}]
    /\ writing \in [File -> {"no", "opening", "open", "unlinked", "written",
                             "failed"}]

InitFiles ==
    /\ artifact = [f \in File |-> "absent"]
    /\ writing = [f \in File |-> "no"]

\* A new run: what was this run's report is now an earlier one's.
NewRun ==
    /\ artifact' = [f \in File |-> IF artifact[f] = "current" THEN "stale"
                                   ELSE artifact[f]]
    /\ writing' = [f \in File |-> "no"]

StartWrites ==
    /\ writing' = [f \in File |-> "opening"]
    /\ UNCHANGED artifact

OpenFile(f) ==
    /\ writing[f] = "opening"
    /\ writing' = [writing EXCEPT ![f] = "open"]
    /\ artifact' = [artifact EXCEPT ![f] = "torn"]

\* The rest of the call; a file that was removed meanwhile has no name any
\* more, and what is written to it is lost.
FillFile(f) ==
    /\ writing[f] \in {"open", "unlinked"}
    /\ writing' = [writing EXCEPT ![f] = "written"]
    /\ artifact' = IF writing[f] = "open"
                   THEN [artifact EXCEPT ![f] = "current"] ELSE artifact

FailWrite(f) ==
    /\ writing[f] \in {"opening", "open", "unlinked"}
    /\ writing' = [writing EXCEPT ![f] = "failed"]
    /\ UNCHANGED artifact

WriteStep == \E f \in File : OpenFile(f) \/ FillFile(f) \/ FailWrite(f)

\* rm(path, { force: true })
RemoveFile(f) ==
    /\ artifact' = [artifact EXCEPT ![f] = "absent"]
    /\ writing' = [writing EXCEPT ![f] = IF @ = "open" THEN "unlinked" ELSE @]

\* The promise of Promise.all, and whether any call is still going on.
Fulfilled == \A f \in File : writing[f] = "written"
Rejected == \E f \in File : writing[f] = "failed"
Settled == \A f \in File : writing[f] \in {"no", "written", "failed"}

=============================================================================
