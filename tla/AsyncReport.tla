---------------------------- MODULE AsyncReport ----------------------------
(***************************************************************************)
(* `yanote async-report`, run again and again by a CI job: it loads the    *)
(* policy, fetches and finds the specification, reads the events, applies  *)
(* the gates, writes the two artifacts, removes the fetched specification  *)
(* and exits with the code of the failure that takes precedence.  It has   *)
(* no baseline, no exclusions and no aggregate.  The output directory      *)
(* survives from run to run.  A run may be killed at any moment.           *)
(***************************************************************************)
EXTENDS AsyncCoverage, ReportFiles, SpecSource

CONSTANTS
    Inputs   \* what runs may be given: policy file and options (file, cli),
             \* what --spec is (spec), the document found there (doc), the
             \* lines of the evidence file (lines)

\* A line is [form, event].  "null" is the JSON text null, a "foreign" line an
\* object that is no event of a message.
LineForms == {"event", "malformed", "null", "foreign"}

ASSUME InputsAssumption ==
    /\ IsFiniteSet(Operations)
    /\ \A i \in Inputs :
        /\ {i.file.minCoverage, i.cli.minCoverage} \subseteq 0..100 \cup {Unset}
        /\ i.spec \in LocalSpecs \cup RefusedUrls \cup RemoteSpecs
        /\ DOMAIN i.doc.nodes \subseteq Nat
        /\ DeclaredOperations(i.doc) \subseteq Operations
        /\ \A o \in DeclaredOperations(i.doc) :
              \A c \in ContractOf(i.doc, o).messages :
                  c.headers # None =>
                      c.headers.required \cup DOMAIN c.headers.admits \subseteq Headers
        /\ \A line \in i.lines :
              /\ line.form \in LineForms
              /\ line.form = "event" =>
                    line.event.headers \in
                        [Headers -> HeaderEvidence \cup {"empty"}]

VARIABLES
    pc,         \* where the command is
    run,        \* its input
    failures,   \* failureCandidates, by kind
    thrown,     \* the exception on its way to the outer catch, by kind
    exit,       \* the exit code of the last run, Killed until it has one
    found       \* history: the artifacts as the run found them

vars == <<pc, run, failures, thrown, exit, found, fileVars, sourceVars>>

Killed == 137

TypeOK ==
    /\ FilesTypeOK
    /\ SourceTypeOK
    /\ pc \in {"idle", "options", "source", "loading", "mkdir", "writing",
               "cleanup", "exit"}
    /\ run \in Inputs
    /\ failures \subseteq FailureKinds
    /\ thrown \subseteq FailureKinds
    /\ exit \in {0, 2, 3, 4, 5, 6, Killed}
    /\ found \in [File -> {"absent", "torn", "stale", "current"}]

Init ==
    /\ InitFiles
    /\ InitSource
    /\ pc = "idle"
    /\ run \in Inputs
    /\ failures = {}
    /\ thrown = {}
    /\ exit = Killed
    /\ found = artifact

-----------------------------------------------------------------------------
(* What the run makes of its input                                         *)

policy == ResolvePolicy(run.file, run.cli)

HasLine(form) == \E line \in run.lines : line.form = form

\* normalizeAsyncHeaderEvidence drops a captured header without a value.
NormalizeEvent(event) ==
    [kind |-> event.kind, action |-> event.action, channel |-> event.channel,
     message |-> event.message, payload |-> event.payload,
     headers |-> [h \in Headers |-> IF event.headers[h] = "empty" THEN "absent"
                                    ELSE event.headers[h]]]

\* The items of readAsyncEventsJsonl.
events == {NormalizeEvent(line.event) :
              line \in {l \in run.lines : l.form = "event"}}

\* INPUT_ASYNC_EVENTS_INVALID_LINES
EvidenceFailures == IF HasLine("malformed") THEN {"input"} ELSE {}

FoundFailures == EvidenceFailures \cup AsyncGateFailures(policy, run.doc, events)

-----------------------------------------------------------------------------
(* The steps of executeAsyncReportCommand, from one await to the next      *)

StartRun(i) ==
    /\ pc = "idle"
    /\ pc' = "options"
    /\ run' = i
    /\ failures' = {}
    /\ thrown' = {}
    /\ NewRun
    /\ NewSource
    /\ found' = artifact'
    /\ exit' = Killed

\* An option or the policy is refused.
RefuseOptions(kind) ==
    /\ pc = "options"
    /\ kind \in {"input", "runtime"}
    /\ thrown' = {kind}
    /\ pc' = "exit"
    /\ UNCHANGED <<run, failures, exit, found, fileVars, sourceVars>>

AcceptOptions ==
    /\ pc = "options"
    /\ pc' = "source"
    /\ UNCHANGED <<run, failures, thrown, exit, found, fileVars, sourceVars>>

ResolveSource ==
    /\ pc = "source"
    /\ SourceStep(run.spec)
    /\ UNCHANGED <<pc, run, failures, thrown, exit, found, fileVars>>

\* resolveSpecSource returns or throws; cleanup() is not at hand yet.
TakeSource ==
    /\ pc = "source"
    /\ \/ source = "ready" /\ pc' = "loading" /\ UNCHANGED thrown
       \/ source = "failed" /\ pc' = "exit" /\ thrown' = {refusal}
    /\ UNCHANGED <<run, failures, exit, found, fileVars, sourceVars>>

\* The finally block: what is thrown passes cleanup() on its way.
Throw(kind) ==
    /\ thrown' = {kind}
    /\ pc' = "cleanup"
    /\ source' = "releasing"
    /\ UNCHANGED <<run, exit, found, fileVars, hops, temp, refusal, dripped>>

\* There is no AsyncAPI document, or it cannot be read or parsed, or there is
\* no evidence file; anything else that goes wrong with a local document or
\* the evidence file is no input failure.
FailLoading(kind) ==
    /\ pc = "loading"
    /\ kind \in {"input", "semantic", "runtime"}
    /\ Throw(kind)
    /\ UNCHANGED failures

\* ASYNC_SEMANTIC_SPEC_INVALID
RefuseDocument ==
    /\ pc = "loading"
    /\ HasInvalid(run.doc)
    /\ Throw("semantic")
    /\ UNCHANGED failures

\* A line that is the JSON text null parses, and has no fields to read.
FailEvents ==
    /\ pc = "loading"
    /\ ~HasInvalid(run.doc) /\ HasLine("null")
    /\ Throw("runtime")
    /\ UNCHANGED failures

\* Everything is loaded: coverage, gates and the report.
Analyze ==
    /\ pc = "loading"
    /\ ~HasInvalid(run.doc) /\ ~HasLine("null")
    /\ failures' = FoundFailures
    /\ pc' = "mkdir"
    /\ UNCHANGED <<run, thrown, exit, found, fileVars, sourceVars>>

\* buildAsyncReport throws: its report does not validate, or the time of an
\* event is no date.
FailReport ==
    /\ pc = "loading"
    /\ ~HasInvalid(run.doc) /\ ~HasLine("null")
    /\ failures' = FoundFailures
    /\ Throw("runtime")

WriteReport ==
    /\ pc = "mkdir"
    /\ pc' = "writing"
    /\ StartWrites
    /\ UNCHANGED <<run, failures, thrown, exit, found, sourceVars>>

\* What follows the write of the report, with the failures known by then.
AfterReport(known) ==
    /\ failures' = known
    /\ pc' = "cleanup"
    /\ source' = "releasing"
    /\ UNCHANGED <<run, thrown, exit, found, fileVars, hops, temp, refusal, dripped>>

\* mkdir fails, or the normalised report does not validate.
RefuseReport == pc = "mkdir" /\ AfterReport(failures \cup {"runtime"})

\* Mutant: a failed write is no failure of the run.
AwaitReport_Swallows ==
    /\ pc = "writing"
    /\ Fulfilled \/ Rejected
    /\ AfterReport(failures)

AwaitReport ==
    /\ pc = "writing"
    /\ \/ Fulfilled /\ AfterReport(failures)
       \/ Rejected /\ AfterReport(failures \cup {"runtime"})

\* An error of the cleanup takes the place of what was on its way.
Cleanup(works) ==
    /\ pc = "cleanup"
    /\ Release(works)
    /\ thrown' = IF works THEN thrown ELSE {"runtime"}
    /\ pc' = "exit"
    /\ UNCHANGED <<run, failures, exit, found, fileVars>>

\* The process ends when nothing is under way any more.
Exit ==
    /\ pc = "exit"
    /\ Settled
    /\ exit' = ExitCode(failures \cup thrown)
    /\ pc' = "idle"
    /\ UNCHANGED <<run, failures, thrown, found, fileVars, sourceVars>>

BackgroundWrite ==
    /\ WriteStep
    /\ UNCHANGED <<pc, run, failures, thrown, exit, found, sourceVars>>

\* The server sends, or does not.
Network ==
    /\ pc = "source"
    /\ ServerStep
    /\ UNCHANGED <<pc, run, failures, thrown, exit, found, fileVars>>

Clock ==
    /\ pc = "source"
    /\ Quiet \/ Timeout
    /\ UNCHANGED <<pc, run, failures, thrown, exit, found, fileVars>>

\* The CI job is cancelled, the machine fails, ...
Kill ==
    /\ pc # "idle"
    /\ pc' = "idle"
    /\ exit' = Killed
    /\ writing' = [f \in File |-> "no"]
    /\ UNCHANGED <<run, failures, thrown, found, artifact, sourceVars>>

Command ==
    \/ \E kind \in FailureKinds : RefuseOptions(kind) \/ FailLoading(kind)
    \/ AcceptOptions
    \/ ResolveSource
    \/ TakeSource
    \/ RefuseDocument
    \/ FailEvents
    \/ Analyze
    \/ FailReport
    \/ RefuseReport
    \/ WriteReport
    \/ AwaitReport
    \/ \E works \in BOOLEAN : Cleanup(works)
    \/ Exit

Next ==
    \/ \E i \in Inputs : StartRun(i)
    \/ Command
    \/ BackgroundWrite
    \/ Network
    \/ Clock
    \/ Kill

Spec == Init /\ [][Next]_vars

\* Awaited calls of the file system settle, the event loop goes on and time
\* passes.  Nothing is assumed of the server.
Fairness == WF_vars(Command) /\ WF_vars(BackgroundWrite) /\ WF_vars(Clock)

FairSpec == Spec /\ Fairness

-----------------------------------------------------------------------------
(* Properties                                                              *)

\* The event cannot be a message of the contract: it carries another name, or
\* a header has another value than the one the contract fixes.
RuledOut(contract, event) ==
    \/ event.message # None /\ contract.name # event.message
    \/ \E h \in Headers : /\ HeaderHint(contract, h) # None
                          /\ Captured(event, h)
                          /\ HeaderHint(contract, h) # event.headers[h]

\* The event is this message of the operation and can be no other one.
IsMessage(contract, event, contracts) ==
    /\ event.message \in {None, contract.name}
    /\ \A other \in contracts : other = contract \/ RuledOut(other, event)

\* The payload and the headers are what the named schemas say.
Conforms(contract, event) ==
    /\ contract.payload # None /\ IsPublic(contract.payload.id) =>
          /\ contract.contentType = "json" /\ contract.payload.compiles
          /\ event.payload \in contract.payload.admits
    /\ contract.headers # None /\ IsPublic(contract.headers.id) =>
          /\ contract.headers.compiles
          /\ \A h \in contract.headers.required : Captured(event, h)
          /\ \A h \in DOMAIN contract.headers.admits :
                event.headers[h] \in contract.headers.admits[h] \cup {"absent"}

\* The event is a message the document knows, of an operation it declares,
\* and what it shows is what the document promises of it.
Deserved(doc, event) ==
    LET contract == ContractOf(doc, OperationKey(event))
    IN  /\ OperationKey(event) \in DeclaredOperations(doc)
        /\ contract.messages # {} =>
              \E c \in contract.messages :
                  /\ IsMessage(c, event, contract.messages)
                  /\ Conforms(c, event)
                  /\ event.kind = "kafka" /\ c.correlation # None =>
                        c.correlation \in Headers /\ Captured(event, c.correlation)
        /\ event.kind = "kafka" /\ contract.reply # None =>
              /\ contract.reply.location \in Headers
              /\ Captured(event, contract.reply.location)
              /\ contract.reply.channel \in
                    {None, event.headers[contract.reply.location]}

\* Fail closed: a run that exits 0 had a document without an invalid part and
\* a log without an unreadable line, every event of which deserved it; it
\* observed every critical operation of the document and reached the
\* threshold where thresholds are enforced.
FailClosed ==
    pc = "idle" /\ exit = 0 =>
        LET p == ResolvePolicy(run.file, run.cli)
            declared == DeclaredOperations(run.doc)
            observed == {OperationKey(e) : e \in events}
        IN  /\ ~HasLine("malformed") /\ ~HasLine("null")
            /\ ~HasInvalid(run.doc)
            /\ \A e \in events : Deserved(run.doc, e)
            /\ p.critical \cap declared \subseteq observed
            /\ p.thresholdErrors =>
                  100 * Cardinality(declared \cap observed)
                    >= p.minCoverage * Cardinality(declared)

\* A report that says "ok" is one of a run that no gate stopped, and of
\* evidence that shows every declared operation and every declared message:
\* no two messages are taken for one, and none counts for another.
OkReportIsDeserved ==
    pc = "idle" /\ artifact["json"] = "current"
      /\ ReportStatus(run.doc, events) = "ok" =>
        /\ exit \notin {3, 4, 5}
        /\ \A o \in DeclaredOperations(run.doc) :
              /\ \E e \in events : OperationKey(e) = o
              /\ \A c \in ContractOf(run.doc, o).messages :
                    \E e \in events :
                        /\ OperationKey(e) = o
                        /\ IsMessage(c, e, ContractOf(run.doc, o).messages)

\* The exit code tells what lies under the two names.  A green run leaves its
\* own report, whole, under both; a file that a run left in pieces is a
\* failure of that run, whatever else it met; and a run that never came to
\* write leaves the artifacts as they were.
ArtifactsMatchFailures ==
    pc = "idle" =>
        /\ exit = 0 => \A f \in File : artifact[f] = "current"
        /\ exit # Killed /\ "runtime" \notin failures \cup thrown =>
              \/ artifact = found
              \/ \A f \in File : artifact[f] = "current"

\* A run that was not killed has removed the directory it fetched the
\* specification into, or reports that something went wrong (the removal
\* failed, or the name of the document could not be decoded).
TempDirectoryIsAccountedFor ==
    pc = "idle" /\ exit # Killed /\ temp => "runtime" \in thrown

\* Every run ends unless the server goes on sending for ever: the timeout
\* bounds its silence, redirects are bounded, and no failure of a write or
\* of a cleanup leaves the command waiting.
RunsEndUnlessDripped ==
    <>[]~dripped => (pc # "idle" ~> pc = "idle")

=============================================================================
