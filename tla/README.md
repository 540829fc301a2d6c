# Yanote in TLA+

Yanote measures how much of an API description (OpenAPI, AsyncAPI) the tests of
a service exercise. *Recorders* run inside the service under test and append
one JSON event per HTTP call or message to `events.jsonl`. The *analyzer*
(`yanote report`, `async-report`, `combined-report`) compares that file with the
description, writes a report in JSON and HTML, and fails a CI job when a gate is
not met. This directory holds TLA+ models of the parts of both whose behaviour
depends on order, failure or history, the TLC configurations that check them,
and proofs of the results that matter most.

## 1. The system

| Component | State it keeps | Operations | Interacts with |
|---|---|---|---|
| Evidence log writer, `EventJsonlWriter` | the file | `write(event)`: open with CREATE and APPEND, one buffered line, close | every recorder, from any thread of any JVM; no lock |
| Event readers, `readJsonl.ts`, `readAsyncEventsJsonl.ts` | none | split into lines, parse, count invalid lines | the file, the report commands |
| Test metadata, `TestMetadataContextHolder` | a thread-local pair (test run, suite) | set, get, clear | all recorders |
| RabbitMQ recorder | three thread-locals (metadata, message listened to, send in progress), message headers | template advice, two message post-processors, listener advice | broker, listener container, retry advice |
| Kafka recorder | metadata thread-local, record headers | producer interceptor, producer listener, record interceptor | the producer's I/O thread, the listener container |
| ActiveMQ (JMS) recorder | as for RabbitMQ | template advice, message creator wrappers, listener advice | broker, listener container |
| Spring MVC and WebFlux recorders | metadata thread-local or reactor context, captured bodies | filter around an exchange | servlet container, reactor |
| Test tags (Cucumber, REST Assured) | system properties | set the suite of a scenario, add the headers | the HTTP recorders |
| Governance, `gates/` | none | resolve the policy, drop excluded operations, evaluate the gates, order the failures | the report commands |
| Baseline, `baseline/` | the baseline file | read, compare, write | the HTTP report command, run after run |
| Report commands, `cli.ts` and `report/write*.ts` | the output directory, the baseline file, a temporary directory | load, analyse, write two files, update the baseline, clean up, exit with a code | file system, CI job |
| Coverage and conformance, `coverage/` | none | match events to operations, percentages, judge payloads, parameters, security | the report commands |
| Specification source and loaders, `spec/` | a temporary directory | fetch or find the description, walk it | HTTP servers, file system |
| Report building, normalisation, schema, HTML, `report/` | none | build, sort, validate, render | the report commands |
| Gradle plugin | task inputs | make the analyzer's arguments, run it, pass its failure on | the analyzer |

`PROJECT.json` lists every component with its files and what is or is not
modelled of it.

What is hard in this system, and hence what the properties are for (the full
list with its lines is under "hazards" in `PROJECT.json`):

* **Appends without a lock.** Threads and JVMs append to one file through
  buffers. Long lines go out in pieces, writes fail half way, JVMs die.
* **Thread-locals on pooled threads.** Attribution must not leak from one test
  to another through a listener that throws, is retried, is rejected by another
  post-processor, sends in turn, or sends while it sends.
* **Recording on another thread, later.** Kafka sends are recorded when the I/O
  thread completes them, and the broker may have served the record by then.
* **Two files under one `Promise.all`.** When one write fails the other goes on
  behind the command's back, and races with the removal of both.
* **State across runs.** Reports of earlier runs and the baseline stay in place;
  a run may be killed between the truncation and the write of a file.
* **Bodies in pieces.** WebFlux shows a body chunk by chunk, MVC at the end; a
  client leaves, a copy fails, an error is rendered where no filter looks.
* **Overlapping declarations.** Templates, status ranges and media types with
  wildcards overlap; several passes choose among them, each with code of its own.
* **Which message is it?** Several messages of one operation are told apart by
  their names and by the values of headers, in an order, with headers that may be
  missing or redacted; two messages taken for one make a report complete that
  is not.
* **Fetching the description.** Redirects, a timeout that only bounds silence, a
  temporary directory that every path out of the command has to remove.
* **Reports read while others write them.** The combined report takes whatever
  lies under the children's names at that moment.
* **Declared twice, or not quite.** Two path items may be one operation, and what
  a walk over a description passes over must not get lost.
* **Fail closed.** Overlapping rules (profile, policy file, options, critical
  operations, exclusions, five kinds of failure) decide one exit code.

What makes each component correct:

* log and readers: a call whose write succeeded is counted once, or the report
  fails; no failure takes away what is safely stored;
* recorders: each call, send and delivery recorded once, with the metadata of
  the test that caused it and of no other;
* governance and report command: exit 0 only for evidence and coverage that
  deserve it, and with this run's report in place; the baseline changes only on
  success and never loses coverage of an operation that still exists;
* combined report: no mixture of old, new and torn artifacts that looks like a
  report; a refused run touches nothing;
* commands: every run ends;
* coverage: an event is evidence for its own operation or a diagnostic, in
  whatever order events were written; scores say what the operations say;
* report and summary: status, sections and scores of one report agree, although
  four passes read the log; what made the run fail is what it says first;
* HTTP recorders and conformance: at most one event per exchange, the same from
  either stack; a body that was seen in full is judged by the contract it falls
  under, and so is every parameter and key of the call; what is judged valid is
  also counted as covered;
* asynchronous coverage and report: exit 0 only if every event deserves it; a report
  that says "ok" has seen every declared operation and every declared message;
  artifacts and temporary directory are accounted for; a run ends unless the server
  drips for ever;
* loaders: what is written in an accepted description is scored, and what cannot be
  scored is refused.

## 2. Modules

    RecordStore   <- implemented by -  EventLog          EventLogProofs
    TestMetadata  <- extended by ----  AmqpRecorder      AmqpRecorderProofs
    TestMetadata  <- extended by ----  KafkaRecorder     KafkaRecorderProofs
    TestMetadata  <- extended by ----  JmsRecorder       JmsRecorderProofs
    MessageEvidence <- implemented by  the same three, as their proofs show
    Governance, ReportFiles <- ext. -  ReportCommand     ReportCommandProofs
    ReportFiles   <- extended by ----  CombinedReport    ReportCommandProofs
    HttpMatching  <- extended by ----  OpenApiModel
    OpenApiModel, CoverageDimensions, Governance
                  <- extended by ----  HttpCoverage
    HttpCoverage  <- extended by ----  HttpReport
    HttpReport    <- extended by ----  HttpSummary       HttpCoverageProofs
    AsyncContracts <- extended by ---  AsyncConformance
    AsyncConformance, Governance
                  <- extended by ----  AsyncCoverage
    AsyncCoverage, ReportFiles, SpecSource
                  <- extended by ----  AsyncReport       AsyncReportProofs
    PayloadCapture, CoverageDimensions
                  <- extended by ----  PayloadConformance
    RequestEvidence <- ext. by ------  RequestConformance
    PayloadConformance, RequestConformance
                  <- extended by ----  HttpRecorders     HttpRecordersProofs

A module `MC<Module>` holds the constants of the module's small instances. An operator whose comment begins with
"Mutant:" is no part of a model: it is the definition after it with a plausible
mistake, kept to show that a property would notice.

### EventLog and RecordStore

`file` is the sequence of *cells* in the evidence file. A cell is a share of an
encoded line; `BufferCells` of them fill the writer's buffer, `Size[e]` of them
are the JSON text of event `e` and one more is its newline. `BeginWrite` is the
entry of `write(event)`; `FlushBuffer` is one `write(2)` on the O_APPEND
descriptor, the last of which carries the newline and returns normally;
`DropEvent` is an `IOException`, after which the recorder drops the event with a
warning; `CrashProcess` takes the buffers of a JVM. Threads of one JVM and of
different ones interleave between any two flushes.

`ReadItems` and `InvalidLines` are what the analyzer's readers make of the file
as it stands at any moment: a line is what lies between newlines, and it parses
as the event whose text it is, whole and alone. A line made of a piece of one
event and the rest of another may happen to be valid JSON; such lines are
counted neither as items nor as invalid, so that `NoSilentLoss` does not rest on
them. It is assumed that an event is not cut where its beginning alone would be
valid JSON (it is one object, so only its closing brace completes it).

`RecordStore` is the promise: a set of stored events that only grows, an event
being stored in the step that tells its recorder so. `EventLog!StoreSpec` states
that the log implements it, with `stored <- WholeLines(file)`, as long as every
event begun so far fits one buffer (`AllFit`). Beyond that the log promises less
(`NoSilentLoss`).

### TestMetadata, AmqpRecorder, KafkaRecorder, JmsRecorder, MessageEvidence

A header or thread-local holds a usable value, nothing (`Null`), or something
that is present but reads as nothing (`Unreadable`: blank, not text).

*AmqpRecorder* has request threads, which serve calls that set the metadata, and
listener threads. `PostProcessReceived` is the container's after-receive
post-processor, `EnterAdvice` and `LeaveAdvice` the listener advice (inside
`FinishDelivery` when the delivery is over and in `RetryDelivery` when a retry
advice of the application calls it again), `RejectReceived` a delivery that
another post-processor stops in between. `StartSend`, `PostProcessPublished` and
`EndSend` are the three moments of a template call; `frames` is the stack of the
calls in progress on a thread, since converters and post-processors of the
application may send as well. The histories `origin`, `fate` and `overlapped`
say what the events should have been.

*KafkaRecorder* has the same threads and the producer's I/O thread. `Send` is
`onSend` and the acceptance by the producer, which closes the headers;
`CompleteSend` runs the producer listener later, and `CompleteUnheard` is a completion
at which a listener of the application, called before the recorder's, throws; `unheard`
counts the events that are lost so. `Resend` is a send of the same
record again. `Store` is the broker's: it puts the record in its log, before the producer
hears of it, after it went on without an acknowledgement, although it gave the record up, or
never. `Intercept` and `FinishRecord` surround a listener; a record in the log is delivered
as often as a consumer seeks back to it, on two threads at once, and before its send is recorded.
`RecordedOnce` is hence two sums, of the sends and of the deliveries, and relates neither to the other.

*JmsRecorder* differs from AmqpRecorder where the code does: the proxied
`JmsTemplate` takes a call's arguments apart and makes the call anew. `StartSend`
is the advice up to that call, `Capture` the wrapped message creator or
post-processor, `EndSend` the rest. The arguments of a call are kept as what
`instanceof` tells apart, so that `Meaning` (which overload Spring takes) can be
compared with `Dispatch` (which one the advice takes); a call of the wrong
overload is modelled as one whose message is never made. `Listen` and
`FinishListening` are the listener's proxy. `execute` and `sendAndReceive` are
not instrumented.

In both of AmqpRecorder and JmsRecorder a thread has one place for the send that is pending.
A call made inside another (`overlapped`) takes it and clears it, so that the outer call is sent,
received and attributed, but its send is never recorded. `RecordedOnce` says so: which calls
have a send event and which have none, and that an event tells the outcome of its own call.

*MessageEvidence* is what the three promise, without threads, headers, thread-locals or a
broker: `Issue` settles the cause of a message, a call's or that of a message issued before,
and `RecordSend` and `RecordReceipt` add events that say what it was. It is no translation of
code. The recorders' proofs map them to it: a message is issued when the template is called
(a record when an interceptor first sees it), its cause is the history `origin`, and of the
events only the metadata count. Two constants hold where the recorders differ. `Once` is true
of RabbitMQ and JMS, where a message is sent at most once, and false of Kafka, where a record
may be sent again; `Complete` is false of RabbitMQ only, whose retries lose the context.

### Governance, ReportFiles, ReportCommand, CombinedReport

*Governance* holds the pure decisions: `ResolvePolicy`, `IncludedOperations`,
the gates, the precedence of failures and the exit codes.

*ReportFiles* is the output directory under `writeFile`: opening a name empties
it (`torn`), filling it makes it this run's (`current`), and a new run turns what
is there into an earlier one's (`stale`). Either step may fail. `Rejected` holds
as soon as one call has failed, the other may still be going on.

*ReportCommand* is `executeReportCommand`, one action from each await to the
next, repeated for ever on the same directory and baseline file by `StartRun`
with any of `Inputs`. `FailLoading`, `FailAnalysis`, `RefuseBaseline`,
`RefuseReport`, `AwaitReport` (rejected), `FailBaseline` and `Cleanup` are its
error paths; `Kill` stops a run anywhere. A process exits only when its file
operations have settled (`Exit`), as Node does.

*CombinedReport* is `executeCombinedReportCommand`. The two children are read at
once, each as whatever its file holds when its turn comes (`LoadChild`: a status, or
missing, torn, of another schema or phase), `AwaitChildren` decides, `BuildReport`
takes the worse of the two statuses (`CombinedStatus`). The removals of
`cleanupCombinedArtifacts` are concurrent steps (`Remove`, `FailRemove`).

### AsyncContracts, AsyncConformance, AsyncCoverage, SpecSource, AsyncReport

*AsyncContracts* is `buildAsyncApiSemantics`. A document is a sequence of nodes
(operations of version 3, the publish and subscribe of channels of version 2), each
with its place, messages, bindings and reply. `Protocol` is what its servers agree
on, `ResolveChannel` and `OperationOf` which operation a node is. The first node of
an operation counts (`ContractOf`). `SelectionMode` says whether the messages of an
operation can be told apart: by their identity (`Identity`: the name, the schema and
what the headers fix) and by names or by headers whose fixed values differ
(`Discriminates`). If they cannot, the operation is ambiguous and has no contract.
`HasInvalid` is every diagnostic of kind "invalid", each of which refuses the document.

*AsyncConformance* is one event against one contract. `Candidates` narrows the messages
by the name, then by the first header rule the event can answer (`FirstRule`, in the order
of the header names); a header is a value, absent, or "unavailable" when it was
redacted or not retained. `SelectedMessage` is the one message left, if one is.
`PayloadDefects` and `HeaderDefects` are the diagnostics of the schemas,
`CorrelationProof` and `ReplyProof` those of correlation ids and replies.

*AsyncCoverage* is the set of events against the document: operations, channels and
messages covered, the public diagnostics, `ReportStatus` and the gates
(`AsyncGateFailures`, where a diagnostic silences the threshold). The order of the
events decides nothing here, so that they are a set.

*SpecSource* is `resolveSpecSource` and the cleanup that it returns. `ResolveLocal` looks
a path up; `MakeTemp`, `Redirect` (at most `MaxRedirects`), `Answer`, `StoreAnswer` and
`RemoveTemp` are the fetch. The timeout is one of the socket: `Drip` is a piece of
the answer, `Quiet` that none has come for a moment, and only then may `Timeout` fire.

*AsyncReport* is `executeAsyncReportCommand`, repeated like ReportCommand on one output
directory. `ResolveSource` takes the steps of SpecSource while the server (`Network`)
and time (`Clock`) take theirs; `Throw` is the way through the `finally` block, where
`Cleanup` may put an error of its own in place of the one on its way. A line of
`null` in the evidence parses and has no fields, so that reading it throws
(`FailEvents`); a malformed line is counted and reported.

### HttpMatching, OpenApiModel, CoverageDimensions, HttpCoverage

*HttpMatching* is how an event finds its operation, once as `computeCoverage`
does it (`ResolveOperation`: the exact key, then the templates through
path-to-regexp, of which one must be left) and once as `OperationMatcher` of the
Java core does it (`JavaMatch`). *CoverageDimensions* is the arithmetic of the
scores: which declared statuses and required parameters are covered, percentages
in hundredths, the weighted aggregate, the states.

*OpenApiModel* is `loadOpenApiCoverageModel`. A document is a sequence of path items
with a node per method. `KeyOf` normalises the route, so that two items may declare one
operation: both passes over the document keep the first (`DeclaringItem`) and pass over
the others. `HasInvalid` is everything that refuses a document, `ContractOf` the statuses
and the merged parameters of an operation. `JavaOperations` is what the Java core reads
from the same document.

*HttpCoverage* reads a log event by event: `Credit` is `recordOperationEvidence`,
`Diagnose` an unmatched or ambiguous event, `Throw` the `URIError` that leaves
the loop when a parameter's value cannot be decoded. `Init` takes any document that is
not refused and any part of its operations, since exclusions may have taken out the
rest. `JavaVerdicts` is the outcome of the Java calculator on its own operations, and
`RuntimesAgreeOnPlainRoutes` compares the two at every prefix of the log.

### HttpReport, HttpSummary

*HttpReport* is what becomes of a log after the coverage has read it. The passes over
payloads, parameters and security look up the operation of each event again, each with its
own copy of `resolveOperation` (`LookUp`), pass over what is unmatched or ambiguous, and
keep counters of their own (`TargetState`, `OperationTruths`, `OverallTruths`), which
`buildReport` sums up (`PayloadSection`, `RequestSection`, `SecuritySection`). A failed
finding becomes a failure in two places: in `evaluateGateFailures`, for the exit code, and in
`mergeGovernanceDiagnostics`, for the report; the second classifies payloads and security
again and takes the parameters over from the first. `ResolveReportStatus` is the status. The
findings themselves are the constants `PayloadCode`, `ParameterTruths` and `SecurityTruth`:
PayloadConformance and RequestConformance say what they are. The gates are those of
*Governance*, an instance named `Gates`.

*HttpSummary* is the end of the command: `JudgedFailures` are the failures collected after
the log has been read, `PrimaryFailures` what `sortFailuresByPrecedence` may put first,
`CollectIssues` the list of the summary, in which a failed finding that is already a failure
is not said again (`Listed`), and `FirstIssues` its first line after
`prioritizePrimaryIssue`. Sorting alone would put a gate or an unreadable line before or
after the failure that decides the exit code as their names happen to sort.

### PayloadCapture, PayloadConformance, RequestEvidence, RequestConformance, HttpRecorders

*PayloadCapture* is what the recorders make of a body: `CaptureMvc` of the cached
body at the end, `AppendBytes`, `ObserveContentType` and `FinishSession` of the
WebFlux `CaptureSession`. *PayloadConformance* is the judgement of an event's
payload: `SelectResponseContract`, `FindMatchingMediaType`, the codes, and those
that fail a run.

*RequestEvidence* is what the recorders keep of parameters, headers and cookies
(`CaptureRequest`) and how the analyzer looks it up (`Lookup`, `CapturedKeys`). A
value is captured, redacted because of its name, or omitted because of what it
is; one value that must be left out takes the others of its key along. The stacks
differ: MVC takes the fields of a form for query parameters and reads a query
parameter without `=` as empty, WebFlux sees neither fields nor a value.
*RequestConformance* judges that evidence: `ParameterTruth` of a declared
parameter, `SecurityTruth` of the requirements that `ResolveSecurity` finds for the
operation. Of several requirements one is enough, of a requirement all schemes
are needed, and of several failures an unsupported one comes before an
unavailable and that before a missing one (`WorstFailure`).

*HttpRecorders* is one exchange on one stack. `PassChunk` is a chunk that goes
through and is copied, `LoseChunk` one whose copy failed, `Answer` what the
application does to the response (`writeWith`, `writeAndFlushWith` or
`setComplete`). `Complete` ends the chain and records. An exchange may also end
in other ways. On MVC, `SendError` and `StartAsync` leave the chain before the
container renders the answer in a dispatch that `OncePerRequestFilter` skips, and
`Fail` records nothing. On WebFlux, the error goes on to the handlers outside of
the filter before `doFinally` runs, so that `RenderError` may come before
`RecordFailure` or, if the handler waits for something, after it; `Cancel` records
nothing. `Record` also decides whether a handler had been found (`mapped`), which is
what path variables depend on. The bodies are JSON objects or arrays, so that a piece of one is malformed.

## 3. Runs

| Run | Bounds | What it shows |
|---|---|---|
| `event_log` | 3 threads in 2 JVMs, 4 events of 1, 2, 3 and 7 cells, buffer of 3 | `NoSilentLoss`, `CountedOnce`, `SmallEventsIntact`, `StoredForGood` under every interleaving of flushes, drops and crashes; `StoreSpec`: the log implements `RecordStore` |
| `event_log_format` | 2 events longer than the buffer | the documented format "one JSON object per line" is broken without any failure (a finding) |
| `amqp_recorder` | 1 request and 1 listener thread, 3 messages, 2 attempts, 2 deliveries, 2 nested sends | no bleed (`NoForeignAttribution`), complete attribution (`AttributionKept`), sends and deliveries recorded once, but no send that another overlaps (`RecordedOnce`), clean threads |
| `kafka_recorder` | 1 request and 1 listener thread, 2 records, each sent and delivered up to twice, stored by the broker at any time after a send; at the completion of one a listener of the application may throw | events carry their origin, sends and deliveries are recorded once in any order of completion and delivery (`RecordedOnce`), clean threads; sends are recorded in the end unless that listener throws (`SendsEventuallyRecorded`) |
| `jms_recorder` | 1 request and 1 listener thread, 3 messages, 2 deliveries, 2 nested sends | events carry their origin and destination, sends and deliveries are recorded once, but no send that another overlaps (`RecordedOnce`), clean threads |
| `jms_delivery` | 1 message, `convertAndSend("text", postProcessor)` | the message is never made (a finding) |
| `report_command` | specifications of 1 and 2 operations, 4 policies, all sets of observed operations, one defect at a time | `FailClosed`, `GreenRunHasItsReport`, `RejectedRunKeepsBaseline`, `BaselineRatchet` over any number of runs; `EveryRunEnds` |
| `async_report` | documents of up to 2 operations and 3 messages (among them a node declared twice, messages nothing tells apart, unusable schemas, and 13 documents that are refused), up to 3 events from a pool for each document, every kind of `--spec` | `FailClosed`: a green run has a document, a log and events that deserve it; `OkReportIsDeserved`: "ok" means that every operation and message was seen; `ArtifactsMatchFailures`, `TempDirectoryIsAccountedFor` over any number of runs; `RunsEndUnlessDripped` |
| `combined_report` | none needed: the model is finite | `ArtifactsMatchExit`: green runs have their report, failed ones leave no pair, refused ones touch nothing, and no report is better than the children it was made of; `EveryRunEnds` |
| `http_coverage` | 3 accepted documents, any part excluded, beside 10 that are refused, logs of up to 3 of 12 events, some of which fail a payload, a parameter, a key or several of them; 2 gate policies, a baseline that has nothing or everything for covered | the runtimes agree on plain routes, an event under a declared route is never misattributed, no status falls between the ranges and default, scores match the operations that are written in the document and never shrink; `ReportTellsTheLog`: the status is "invalid" and "ok" exactly when the log and the document say so, and the sections agree; `VerdictIsShown`: the first issue is a failure of the kind that gave the exit code, and nothing that is wrong is missing in the list |
| `http_coverage_templates` | the same | an event under its declared template is not credited (a finding) |
| `http_recorders` | 7 contracts, 10 bodies of up to 2 chunks around the limit, 7 requests with parameters, 4 statuses | `RecordersAgree`: MVC and WebFlux keep the same; `VerdictsAreDeserved`: the gate is right about bodies seen in full; `RequestVerdictsAreDeserved`: the gates are right about parameters and keys; `JudgedIsCovered`: coverage counts what the conformance judges |

Why the bounds are enough. In the log, three threads allow two in one JVM (a
crash takes both) and one outside it; with its newline an event takes less than
the buffer, just the buffer, one flush and a newline, or three flushes. In the
recorders of messages, a bleed needs one earlier and one later piece of work on a
thread, a nested send needs two messages, and a chain from a call through a
listener to its own send needs two, of which the third message is the independent
one; the two tests and a header set by the application give all the values that
can differ. In the report commands the state that survives a run is finite, so
that the runs are unbounded; two operations make lost, removed and excluded ones
differ. In the asynchronous report, two messages of one operation agree in the name and
differ in a header, or differ in both; two events show both of them or one of them twice,
and a third is of another operation. What the source is and what the document says do not
interact, so that one document meets every kind of source. In the coverage, two events meet on one operation and a third falls
between; the three documents have a literal beside a template, three
templates that overlap and an item that repeats one of them under other names, and a literal with a capital; each refused
document has one mistake. Reports of all three statuses, three kinds of failure in one run, and
a partial report without any failure occur in it. An HTTP body of one or two
chunks reaches the limit exactly and exceeds it in its first or its second chunk;
the contracts declare statuses and media types that are exact, wildcards (`*/*` among
them), both, and none. The requests carry parameters of every place with legal, illegal, repeated,
bare, long and control values, keys that are redacted or missing, and form fields
with and without the name of a query parameter; the requirements are none, empty, one
of several schemes and several of one scheme. `MaxAttempts`, `MaxDeliveries`, `MaxNesting`, `MaxSends` and `MaxEvents`
are bounds of the models, not of the code; `MaxCapture` is the code's
`MAX_CAPTURE_BYTES` counted in large shares.

`CHECK_DEADLOCK FALSE` stands in the configurations of the log, where every event
has been written or lost in the end, of the coverage, where the log ends, and of
the HTTP recorders, where the exchange does.

Fairness. `KafkaRecorder` assumes that the I/O thread goes on: the producer
completes each accepted send, with success or, by `delivery.timeout.ms`, with an
error. The report commands assume that an awaited file operation settles and
that the event loop then runs the continuation (`Command`, `BackgroundWrite`,
`Background`). Nothing is assumed about new runs, kills or the outcome of an
operation. In ReportCommand and CombinedReport loading takes one step for each file;
AsyncReport has the fetch in it. There time passes (`Clock`), and nothing is assumed of
the server: it may redirect, answer, fail, stay silent or send one byte at a time.
The last of these the code's timeout does not exclude, hence `RunsEndUnlessDripped`:
every run ends if the server does not go on sending for ever.

The findings. `EventJsonlWriter` hands its line to a `BufferedWriter`. A line
longer than the buffers below it is appended in several writes, and recorders
capture payloads of up to 64 KiB, so that two such lines can interleave in
normal operation. The analyzer then counts invalid lines and the report fails
with `INPUT_EVENTS_INVALID_LINES`; `NoSilentLoss` shows that this always happens
when a call is lost that way.

The advice of `JmsTemplate` decides by `instanceof` what a call's arguments are.
In `convertAndSend("text", m -> m)`, which Java resolves to
`convertAndSend(Object, MessagePostProcessor)`, it takes the text for the
destination's name and calls the wrong overload: the post-processor is converted
to a message for a queue named like the text. (In `convertAndSend("text")` it only
records the send under the text; the call itself is right.) Calls that name their
destination, and calls with other payloads, are as they should be
(`jms_recorder`).

`computeCoverage` normalises the declared routes (`{id}` to `{param}`) and not
those of the events, which carry the framework's own pattern. So an event under a
declared template is not found by its key but only through the templates, and
when another of them overlaps it is ambiguous and its operation stays uncovered.
It is never credited to another operation (`DeclaredRouteIsNeverMisattributed`).

A difference that the runs leave out: the fallback of the TypeScript analyzer compares
literals without case and tolerates a trailing slash, that of the Java core does
neither. `RuntimesAgreeOnPlainRoutes` is about all other routes.

## 4. Proofs

TLAPS checks these for every value of the constants that satisfies the named
assumptions of the modules (`ProcessAssumption`, `SizeAssumption`,
`BufferAssumption`, `NoEventAssumption` of the log; `NullAssumption`,
`UnreadableAssumption`, `AmqpAssumption`, `KafkaAssumption`, `JmsAssumption` of the
recorders; `UnsetAssumption`, `InputsAssumption` of the report command; `MatchingAssumption`,
`EventsAssumption`, `BoundAssumption`, `DocumentsAssumption` of the coverage,
`FindingsAssumption` of its report;
`HeaderRankAssumption`, `NoneAssumption`, `AnonymousIdsAssumption` and another
`InputsAssumption` of the asynchronous report; `MaxCaptureAssumption`, `SchemasAssumption`,
`ContractsAssumption`, `RequestsAssumption`, `BodiesAssumption`, `StatusesAssumption` of the
HTTP recorders). TLC evaluates all of them on the instances of the runs.

*EventLogProofs.* `TypeCorrect`, `SmallEventsStayIntact`, `NothingCountedTwice`,
`LinesStoredForGood`, `ImplementsRecordStore` and `LossesShow`. That an event is readable at
most once cannot be shown from the file alone. The invariant adds that no cell is
in the file twice, that only one thread writes an event, that this event is not
yet acknowledged and that the file holds nothing of it beyond what its writer has
sent (`CellInv`, `WriterInv`). While all events fit the buffer it says more: the
file is a sequence of the whole lines of the acknowledged events (`LinesInv`).
The refinement rests on that, since a flush then stores exactly the event it
acknowledges. `LossesShow` needs the order of the cells as well. `OrderInv` says that the
cells of an event stand in the file in the order in which its writer sent them. So take an
event whose write succeeded and the line on which its first cell lies. If something stands
before it there, the line is no event. If not, then either the event follows whole, up to its
newline, and is read; or there is a first cell that is not its next one, and the line on
which that cell lies is torn.

*ReportCommandProofs.* `TypeCorrect`, `GreenRunsDeserveIt`, `GreenRunsReport`,
`RejectionKeepsBaseline` and `BaselineOnlyRatchetsUp`. The inductive invariant
`IInv` is the conjunction of `TypeOK` and four parts. `GreenInv` carries from
`Analyze` to `Exit` the fact that an empty set of failures means evidence and
coverage that deserve it, judged against the baseline as it was when the run
began. `BaselineInv` says that until `OpenBaseline` the baseline is that one, and
that from there on no failure but a runtime one can be on its way. `FilesInv`
says which states of the two writes go with each place in the command, and
`ExitInv` what the last exit code tells about the run. `GreenInv` rests on lemmas about the
failures (the primary one is one of them, `PrimaryIsAFailure`, and tells which exit code it
is, `ExitCodeOfFailures`) and about what a percentage says of the two counts it was made of
(`PercentReached`); AsyncReportProofs has the same ones for the asynchronous gates, and
`FullCoverageIsEnough`.

`CombinedRunsTellTheirArtifacts` is about the combined report, over variables of its own. Its
invariant `CombinedInv` says which states of the removals and writes go with each place in the
command (`StagesInv`), that what is written is made of two child reports that were both read
whole (`ContentInv`), and what the exit code says of the two names (`CodeInv`). The removals
of a failed run go on together with each other and with the write that has not failed;
`RemovalInv` holds through that race: a removal leaves nothing of an earlier run behind, and
where removals run at all, the write of one of the names has failed or never began, so that
nothing brings this one back.

*AsyncReportProofs.* `TypeCorrect`, `GreenAsyncRunsDeserveIt`, `OkReportsAreDeserved`,
`ExitTellsTheArtifacts` and `TempDirectoriesAreAccountedFor`. The invariant `IInv` is in
five parts. `SourceInv` says which states of the resolution go with each place in the command
and that a temporary directory that is still there after the cleanup has put "runtime" on
its way. `FilesInv` does the same for the two writes and adds what `found` has to do with
the artifacts. `GreenInv` carries "no failure, so the evidence deserved it" from `Analyze`
to `Exit`; `ReportInv` that a run which has a report on the disk has no failures beyond
those it found and a runtime one, without which `OkReportIsDeserved` is not inductive;
`ExitInv` ties the exit code to both sets of failures.

Before that the module proves what the analysis of messages establishes.
`IdentitiesAreDistinct`: messages of an operation that has a contract
have different identities, so that the report does not count two for one. The order of
the headers has a least element (`HeadersHaveAFirst`), and from that
`SelectedIsTheMessage`: if one candidate is left, the event is this message and can be no
other. `UndiagnosedEventsDeserveIt` puts the diagnostics together, and
`OkReportsShowEverything` follows a report that says "ok" back to an event for every
operation and every message.

*HttpCoverageProofs.* `CoverageTypeCorrect`, `CoverageIsOfTheEvents` and
`DeclaredRouteAttribution`. A
declared template matches its own text (an induction-free fact about
`TemplateMatches`), so that an event under a declared route has its operation
among its candidates; the invariant carries that from the step that reads the
event to the evidence or the diagnostic, both of which only grow.
`CoverageIsOfTheEvents` says what the loop computes: the evidence for an operation is
gathered from the set of those events of the log that fit it alone, so that neither the order
nor the repetition of lines changes a score.
`StatusesAreCounted` says that no status of an event falls between the exact statuses, the
ranges and default, in any state: it is a fact about which declared statuses count.
`AcceptedDocumentsLoseNothing` is about the loader: of a document that is not
refused, every node is one of the operations that are scored, and the Java core reads the
same ones.

And about the percentages, `CoveredMeansNothingMissing`: a dimension of fewer
than 20000 items is COVERED exactly when none is missing. Half a hundredth of a
percent is one in 20000, and above that a report may round an uncovered item
away. `AggregateCoveredMeansNothingMissing` follows the second rounding: the
aggregate is COVERED only when nothing is missing, for up to 19999 operations,
3999 declared statuses and 2857 required parameters. Of any size
`PercentagesAreSound` says what rounding cannot take away: a dimension has no percentage
exactly if nothing is declared in it, what is covered in full has exactly 100%, none exceeds
that, and the aggregate is missing exactly if some dimension is, and else lies between the
lowest and the highest of the three. That is also what ReportCommand assumes of the aggregate
it is given.

`SummariesAreExact` brings the two together for every reachable state: what the summaries
call COVERED, PARTIAL and N/A is what the sets of operations, statuses and parameters of the
document say, under the hypothesis `WithinRounding`, which is those three sizes. It needs
that the sum over operations of what was hit equals the sum of what was declared only where
each operation misses nothing (`CountsTell`), hence sums over finite sets; these are folds,
and what they compute is shown by induction over the subsets of a set. `ContractInv` says
that each operation in scope has the contract of its own node. `CoverageGrows` is the
action property: one more event only adds to the sets, sums and rounded quotients keep the
order, and so does the rounded weighted sum.

`RuntimesAgree` compares the verdicts of the two matchers event by event. On a plain route
both compare the same segments (`PlainResolvesAlike`), so the exact key, the candidates
among the templates and the diagnostic are the same; that the two lists of diagnostics are
equal then needs what `FlattenSeq` makes of a list of at most one each.

`ReportsTellTheLog` and `VerdictsAreShown` are about the report and the summary. `LogInv`,
which the steps keep, says what the loop has made of the whole log: the suites of an
operation are those of the events that fit it alone, and there is a diagnostic of a kind
exactly when some event fits none, or several. The passes go into exactly those events
(`PassesGoWhereEventsFit`), although each looks them up again. From there on the proof is
about counting: findings are finitely many, counted by operation or by truth they add up to
one number (`CountedByValue`), and those of a security requirement correspond to the calls one
to one (`EvaluatedOnce`). The status needs `SummariesAreExact` for its last two parts, and hence
`WithinRounding`; for the findings `FaultsFail`, that some failure reaches the report exactly
when some call fails what its operation declares. `ReportsOfAnySizeTellTheLog` keeps what does
not depend on that hypothesis: the sections agree, the status is "invalid" exactly if some
event fits several operations, "ok" only if nothing failed and every operation in scope has
an event that fits it alone, and always "ok" if nothing failed and nothing is missing at all.
`VerdictsAreShown` has no hypothesis either. Every
failure has a weight, by its class and then by its code, so that a primary one exists
(`PrimaryFailureExists`); and the codes of findings come before the fail-closed status, so
that a run that failed on a finding names its operation (`PrimaryGivesExitCode`).

The three message recorders implement MessageEvidence: `AmqpImplementsMessageEvidence`,
`KafkaImplementsMessageEvidence`, `JmsImplementsMessageEvidence`. The step that issues a
message is the first to look at the thread, and the invariants below say that the thread has
then what its call came with (`CallersInv`) or the message it handles. All other steps
either record one event or are stutters. From the same two invariants follow `AmqpOneTestPerEvent`,
`KafkaOneTestPerEvent` and `JmsOneTestPerEvent`: where the application sets no header by
itself, every cause is the metadata of one call (`CausesInv`), and so no event mixes the run of
one test with the suite of another, however long the chain of messages.

*AmqpRecorderProofs.* `AmqpNoForeignAttribution`, `AmqpCleanBetweenDeliveries`,
`AmqpRecordedOnce` and `AmqpAttributionKept`. The
events say what the headers of their message say, so the headers must be right
(`HeadersInv`), whose missing ones the post-processor fills in from the thread: hence
`FrameInv`, which compares the thread with the origin of each message of a send in
progress, and `CauseInv`, which compares the thread of a listener with the origin of the
message it handles. A retry empties the context, so that both say "this or nothing".
`SentInv` says that no event, queue or thread-local holds a message before it is sent, since
its origin is settled then, and `PhaseInv` that the context of a thread does not change while
it sends. The last two theorems rest on a second invariant, `RInv`: where each message is
(`FlowInv`) and which of its invocations a listener is in (`ListenInv`); that the pending send
of a thread is its innermost one, and that nothing is pending if another was made inside it
(`PendingInv`), from which the outer call has no event; that the
headers of a message have all of the metadata of its cause as long as the thread has
(`KeptInv`); and the counts of the events themselves (`SendInv`, `ReceiveInv`).

*JmsRecorderProofs.* `JmsEventsCarryTheirOrigin`, `JmsCleanBetweenDeliveries`,
`JmsRecordedOnce`, `JmsEventsTellDestinations` and `JmsEventsNameTheirDestination`.
`FlowInv` says where a message is,
`ThreadInv` that a thread carries the metadata of what it serves, exactly, since a redelivery
starts anew; `PendingInv` and `KeptInv` follow the pending send and the metadata kept aside
through nested sends (nothing is pending while a thread makes a message exactly if another
send was made inside); `MessageInv` says what the properties of a message at the broker read
as. `JmsEventsTellDestinations` allows every argument list: a receipt is always recorded under
the destination, and so is a send, except that of a text alone, which the advice takes for the
destination's name (the second finding). `JmsEventsNameTheirDestination` follows where the
application never sends a text alone to the default destination
(`<<"Text">> \notin Calls`).

*KafkaRecorderProofs.* `KafkaEventsCarryTheirOrigin`, `KafkaRecordsOnce` and
`KafkaCleanBetweenRecords`. None of the three is inductive. That an event carries the
metadata of its origin needs that the closed headers of a record read as its origin does
(`OriginInv`), which holds because whoever sends a record has its context from the call or
the record it serves (`ThreadInv`), and that nothing becomes of a record before it is
accepted or stored (`FreshInv`). `RecordedOnce` is a statement about sums: `Balanced` is the two
of them for every record, which every step keeps. That a thread handles one record at a time
makes the second a matter of one thread joining or leaving the handlers, a finite set; and the
first bounds what was accepted from below by what is in flight or unheard (`AcceptedBound`), so that the
counts stay within `MaxSends`.

*HttpRecordersProofs.* `JudgedCovered`: the payload pass and the coverage pass
choose among overlapping statuses with code of their own, and agree; and a parameter
that is found valid is one whose key the coverage counts. The second needs that
the evidence of the event, which is written once, is in one of the recorder's three
states (`IInv`): the state of the evidence is itself a truth of the parameter when it
is not "captured", and must not be taken for one that passes.

`RecordersKeepTheSame` is about every limit and every way to cut a body in chunks. What a
capture session has gathered (`Gathers`) is a function of the bytes that went through: the
buffer holds them as long as they fit, and once they do not the session says "oversized" and
keeps nothing. `CaptureInv` holds that along the exchange; the bytes of a body
are a recursive sum (`BytesOf`), of which the proof uses that it grows by one chunk at a time.

`RequestVerdicts` and `PayloadVerdicts` are about `EventInv`: what the event says is what
the exchange was. From there on they follow the judgement. For a parameter, a value that
the recorder shows is the one that was sent, so that the two sides of the gate are decided by
the values admitted (`ParameterJudged`); for security, each requirement is judged by itself
(`BranchJudged`), and then the order of the failures decides (`SecurityJudged`).
For a payload, `NarrowestIsSelected` and `NarrowestIsFound` say that the scores by which the
code picks a status and a media type find the narrowest of the declared ones that admit the
message; `SnapshotInFull` that the event holds what MVC makes of the body in one piece; and
`BodyJudged` compares the code with the schema. The assumptions are what the loader makes of a
document (one entry for a status, one for a media type, both by a `Map`; no requirements where
none are declared), what a client can send (a body has a byte and a media type without
wildcards; a value is bare in a query only) and that statuses are HTTP's.

Only model-checked: the three findings, and everything under fairness
(`SendsEventuallyRecorded`, `EveryRunEnds`, `RunsEndUnlessDripped`), which the prover does not
reach.

## 5. What the models leave out

* Contents: payloads and their redaction, routes, timestamps, wording of
  failures, warnings, HTML. They decide nothing that the properties speak of.
* In ReportCommand, which operations the events exercise, whether conformance
  fails and the aggregate percentage are inputs; HttpCoverage and HttpRecorders
  model where they come from.
* ReportCommand takes the errors that stop the analysis before any artifact is written for one
  (`FailAnalysis`): they have the same exit code and leave the same files.
* `--baseline` and `--update-baseline` are given the same file.
* The file system appends atomically per `write(2)` and loses nothing that it
  has accepted; power failures are not modelled.
* In EventLog, the last `write(2)` of a flush and the return of `write(event)` are one step
  (`FlushBuffer`): no crash and no error of `close` falls between the two, where a line would be
  stored and not acknowledged. `NoSilentLoss` speaks of acknowledged events; that `StoreSpec`
  stores an event in the step of its acknowledgement is owed to this.
* Record interceptors of the application in a Kafka chain do not throw.
* `EndSend` of AmqpRecorder and JmsRecorder publishes the message and records the send in one
  step, where the code publishes first, so that a delivery may precede the record of the send.
  No property relates the two.
* In JmsRecorder, a post-processor of the application that returns another message than it was
  given, and a received message that is forwarded as it is (its properties
  are read-only), property names that are not Java identifiers, and failures of
  the listener container.
* In HttpMatching, parameters that fill a part of a segment and the characters
  that are special to path-to-regexp; in HttpCoverage, optional parameters and
  breakdowns by location, which decide nothing.
* In HttpReport and HttpSummary, the branches of a security requirement, warnings and the
  issues about exclusion rules, media types and suites in the sections, the order of
  issues after the first, and the cut after five issues of a run that is not verbose.
* In OpenApiModel, the resolution of references (done by a library), bodies and their
  schemas, and the spelling of status tokens.
* In the asynchronous modules, a schema is the set of values it admits, and diagnostics
  are told apart by kind only. `async-report` reads no baseline and no exclusions, so that
  the regression gate of the asynchronous governance is never reached. The identity of a Kafka
  message is a record (`Identity`), where `operationKey.ts:142` joins names and header values
  without escaping ", ", "=", "[" and "; ": names or values chosen to contain these may give
  two messages one identity in the code, and `IdentitiesAreDistinct` says nothing of those.
* In RequestConformance, the schema of a parameter beyond the set of values that it
  admits, and the order of the requirements (it picks the message only). Documents
  with invalid security declarations are refused while loading (OpenApiModel).
  `RequestVerdictsAreDeserved` does not speak of MVC calls with a form field that
  has the name of a declared query parameter or key: the servlet API merges them
  and the recorder keeps the union. It takes path variables to be named as in the
  description. A required parameter that a call does not send gets no diagnostic;
  it shows as uncovered.
* In HttpRecorders, the text of the route template and the WebFlux bridge of the
  test metadata across threads. `VerdictsAreDeserved` speaks of
  bodies that went through the recorder in full. A body that the application did
  not read, that could not be copied or that an error handler outside of the
  filter rendered is in the event as a missing or malformed one, and may fail the
  run as `MISSING_BODY` (the filters see the exchange, not the wire). It does not
  call a JSON body right under a declared type that is not JSON (`*/*`, `application/*`)
  or under a schema that cannot be compiled; these get `UNSUPPORTED_MEDIA_TYPE` and
  `UNSUPPORTED_SCHEMA`, whatever the body.
* A whole child report of an earlier run cannot be told from the current one, neither by
  the code nor by CombinedReport.

## 6. Not modelled, and why

* Test tags (Cucumber, REST Assured): a property of the JVM set by one hook and read by
  one filter. Scenarios that run in parallel overwrite it for each other; that needs no
  state space to see, and is a hazard without a property.
* Gradle plugin: it translates an extension into the arguments of a command and passes its
  exit code on, in one call without state.
* HTML rendering, the normalisation and schemas of the reports, the summary scripts: they
  copy, sort and lay out what has been decided, or fail, which the report commands have as
  an outcome.
* CI and release scripts, examples: not part of the running system.
* The bridge that carries the test metadata from the reactor context to a thread: its
  scope is a matter of the reactor library.
* The Java parser of OpenAPI and the parsers and validators of the analyzer (AsyncAPI,
  ajv, path-to-regexp): libraries, of which the models have what the code relies on.
