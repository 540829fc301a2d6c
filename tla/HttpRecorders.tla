---------------------------- MODULE HttpRecorders ----------------------------
(***************************************************************************)
(* One HTTP exchange as the two recorders see it, from the first byte of   *)
(* the request to the event, and what the analyzer makes of the event's    *)
(* payloads, parameters and keys.                                          *)
(*                                                                         *)
(* The MVC filter wraps request and response, lets the chain run, and      *)
(* looks at the cached bodies when the chain has returned.  The WebFlux    *)
(* filter copies every chunk on its way, and records when the chain has    *)
(* ended, by completion or by an error.  Either may never see a body that  *)
(* the application does not read, or that an error handler outside the     *)
(* filter renders.                                                         *)
(***************************************************************************)
EXTENDS PayloadConformance, RequestConformance, Sequences, SequencesExt

CONSTANTS
    Contracts,   \* operations' contracts: [request, responses, parameters,
                 \* root, security], the last two of the document and its own
    Requests,    \* what a client may send: [body, parameters]
    Bodies,      \* what a party may send: [type, form, chunks], chunk sizes
    Statuses     \* statuses the application answers with

Places == {"path", "query", "header", "cookie"}

\* A content has an entry for a media type; a schema that no validator can be
\* made of has the reason in its place.
IsContent(content) ==
    /\ \A c \in content :
          /\ c.media = MediaType(c.media.type, c.media.base, c.media.suffix)
          /\ c.schema \in Schemas \cup {None, "unsupported-format", "uncompilable"}
    /\ \A c, e \in content : c.media = e.media => c = e

StatusTokens ==
    [type : {"code", "range"}, value : Nat] \cup {[type |-> "default", value |-> 0]}

\* What normalizeResponses and appendOperation make of a document.
ASSUME ContractsAssumption ==
    \A c \in Contracts :
        /\ IsContent(c.request.content)
        /\ \A r \in c.responses : r.status \in StatusTokens /\ IsContent(r.content)
        /\ \A r, s \in c.responses : r.status = s.status => r = s
        /\ \A p \in c.parameters : p.in \in Places
        /\ \A security \in {c.root, c.security} :
              ~security.declared => security.requirements = {}

\* A value is bare in a query only; "null" is how WebFlux reads it there.
ASSUME RequestsAssumption ==
    \A r \in Requests : \A p \in r.parameters :
        /\ p.in \in Places \cup {"form"}
        /\ p.values \in Seq(STRING)
        /\ \A i \in DOMAIN p.values :
              p.values[i] # "null" /\ (p.values[i] = "bare" => p.in = "query")

Nothing == [type |-> NoType, form |-> None, chunks |-> <<>>]

\* A body has a byte or more, and a media type without wildcards if it has one.
ASSUME BodiesAssumption ==
    \A b \in (Bodies \cup {r.body : r \in Requests}) \ {Nothing} :
        /\ b.type = MediaType(b.type.type, b.type.base, b.type.suffix)
        /\ "*" \notin {b.type.type, b.type.base}
        /\ b.form \in Forms
        /\ b.chunks \in Seq(Nat) /\ \E i \in DOMAIN b.chunks : b.chunks[i] > 0

ASSUME StatusesAssumption == Statuses \subseteq 100..599

Directions == {"request", "response"}

ServerDefault == 200   \* the status of a response nobody has given one

VARIABLES
    stack,      \* the recorder in place
    contract,   \* of the operation that is called
    parameters, \* of the request
    sent,       \* sent[d]: the body its party sends
    status,     \* of the response, as set so far
    phase,      \* of the exchange
    passed,     \* passed[d]: how many chunks of it went through the recorder
    session,    \* session[d]: the CaptureSession of the WebFlux filter
    lost,       \* the directions in which a chunk could not be copied
    bypassed,   \* the response is rendered outside of the filter
    events      \* what the recorder wrote

vars == <<stack, contract, parameters, sent, status, phase, passed, session, lost,
          bypassed, events>>

exchange == <<stack, contract, parameters>>

\* The bytes of the first n chunks.
BytesOf(d, n) ==
    LET upTo[k \in 0..Len(sent[d].chunks)] ==
          IF k = 0 THEN 0 ELSE upTo[k - 1] + sent[d].chunks[k]
    IN  upTo[n]

\* A piece of a JSON text is no JSON text.
FormOf(d, size) ==
    IF size = BytesOf(d, Len(sent[d].chunks)) THEN sent[d].form ELSE "malformed"

Init ==
    /\ stack \in {"mvc", "webflux"}
    /\ contract \in Contracts
    /\ \E request \in Requests :
          /\ parameters = request.parameters
          /\ sent = [request |-> request.body, response |-> Nothing]
          /\ session = [request |-> NewSession(request.body.type),
                        response |-> NewSession(NoType)]
    /\ status = ServerDefault
    /\ phase = "handling"
    /\ passed = [d \in Directions |-> 0]
    /\ lost = {}
    /\ bypassed = FALSE
    /\ events = <<>>

-----------------------------------------------------------------------------
(* The bodies pass                                                         *)

\* The application reads the request until it ends its answer; the server
\* takes the response once there is one.
Moves(d) ==
    /\ IF d = "request" THEN phase \in {"handling", "answering"}
       ELSE phase = "answering"
    /\ passed[d] < Len(sent[d].chunks)
    /\ passed' = [passed EXCEPT ![d] = @ + 1]

\* A chunk goes through: captureChunk copies it, the MVC wrapper caches it.
PassChunk(d) ==
    /\ Moves(d)
    /\ session' =
          IF stack = "mvc" THEN session
          ELSE [session EXCEPT ![d] =
                  AppendBytes(@, sent[d].chunks[passed[d] + 1])]
    /\ UNCHANGED <<exchange, sent, status, phase, lost, bypassed, events>>

\* copyBytes throws: the chunk goes through all the same.
LoseChunk(d) ==
    /\ stack = "webflux"
    /\ Moves(d)
    /\ session' = [session EXCEPT ![d] = MarkUnexpectedFailure(@)]
    /\ lost' = lost \cup {d}
    /\ UNCHANGED <<exchange, sent, status, phase, bypassed, events>>

\* The application answers: writeWith and setComplete take a look at the
\* content type, writeAndFlushWith gives the capture up.
Answer(s, body, flush) ==
    /\ phase = "handling"
    /\ flush => stack = "webflux" /\ body # Nothing
    /\ status' = s
    /\ sent' = [sent EXCEPT !.response = body]
    /\ phase' = "answering"
    /\ session' =
          LET observed == ObserveContentType(session.response, body.type)
          IN  [session EXCEPT !.response =
                 IF flush THEN MarkUnsupported(observed) ELSE observed]
    /\ UNCHANGED <<exchange, passed, lost, bypassed, events>>

-----------------------------------------------------------------------------
(* The event                                                               *)

Snapshot(d) ==
    LET size == BytesOf(d, passed[d])
    IN  IF stack = "mvc" THEN CaptureMvc(sent[d].type, FormOf(d, size), size)
        ELSE FinishSession(session[d], FormOf(d, session[d].kept))

\* record and recordSafely.  A handler had been found or not, which decides
\* whether the request has its attributes: the pattern that becomes the route
\* and the path variables.  When the write fails the event is dropped.
Record(s) ==
    /\ phase' = "over"
    /\ \/ \E mapped \in BOOLEAN :
             events' = Append(events,
                 [status   |-> s,
                  mapped   |-> mapped,
                  evidence |-> CaptureRequest(stack, parameters, mapped),
                  request  |-> Snapshot("request"),
                  response |-> Snapshot("response")])
       \/ UNCHANGED events

\* The chain completes.
Complete ==
    /\ phase = "answering"
    /\ passed["response"] = Len(sent["response"].chunks)
    /\ Record(status)
    /\ UNCHANGED <<exchange, sent, status, passed, session, lost, bypassed>>

\* MVC: response.sendError ends the chain; the container renders the error
\* in a dispatch that the filter, once per request, does not take part in.
SendError(s) ==
    /\ stack = "mvc" /\ phase = "handling" /\ s >= 400
    /\ status' = s
    /\ bypassed' = TRUE
    /\ Record(s)
    /\ UNCHANGED <<exchange, sent, passed, session, lost>>

\* MVC: the handler goes asynchronous, and the chain returns before there is
\* an answer; the filter takes no part in the dispatch that brings it.
StartAsync ==
    /\ stack = "mvc" /\ phase = "handling"
    /\ bypassed' = TRUE
    /\ Record(status)
    /\ UNCHANGED <<exchange, sent, status, passed, session, lost>>

\* The chain throws.  doFilterInternal does not record then; doFinally does,
\* after the error has gone on to the handlers outside of the filter.
Fail ==
    /\ phase \in {"handling", "answering"}
    /\ phase' = IF stack = "mvc" THEN "over" ELSE "failing"
    /\ UNCHANGED <<exchange, sent, status, passed, session, lost, bypassed,
                   events>>

\* WebFlux: a handler outside of the filter answers, unless the application
\* had; it may do so at once, or after doFinally.
RenderError(s) ==
    /\ phase = "failing" /\ sent["response"] = Nothing /\ ~bypassed
    /\ status' = s
    /\ bypassed' = TRUE
    /\ UNCHANGED <<exchange, sent, phase, passed, session, lost, events>>

RecordFailure ==
    /\ phase = "failing"
    /\ Record(status)
    /\ UNCHANGED <<exchange, sent, status, passed, session, lost, bypassed>>

\* WebFlux: the client goes away, and nothing is recorded.
Cancel ==
    /\ stack = "webflux" /\ phase \in {"handling", "answering"}
    /\ phase' = "over"
    /\ UNCHANGED <<exchange, sent, status, passed, session, lost, bypassed,
                   events>>

Next ==
    \/ \E d \in Directions : PassChunk(d)
    \/ \E d \in Directions : LoseChunk(d)
    \/ \E s \in Statuses, body \in Bodies, flush \in BOOLEAN :
          Answer(s, body, flush)
    \/ Complete
    \/ \E s \in Statuses : SendError(s)
    \/ StartAsync
    \/ Fail
    \/ \E s \in Statuses : RenderError(s)
    \/ RecordFailure
    \/ Cancel

Spec == Init /\ [][Next]_vars

-----------------------------------------------------------------------------
(* What the analyzer makes of the event                                    *)

Code(e, d) ==
    IF d = "request" THEN EvaluateRequest(e.request, contract.request)
    ELSE EvaluateResponse(e.response, contract.responses, e.status)

Security == ResolveSecurity(contract.root, contract.security)

ParameterEvidence(e) ==
    [suites |-> {"a suite"}, queryKeys  |-> CapturedKeys(e.evidence, "query"),
                             headerKeys |-> CapturedKeys(e.evidence, "header")]

-----------------------------------------------------------------------------
(* Properties                                                              *)

BodyType == [form : Forms \cup {None}, size : Nat]

\* What is kept never exceeds the limit, and no exchange has two events.
TypeOK ==
    /\ contract \in Contracts
    /\ phase \in {"handling", "answering", "failing", "over"}
    /\ \A d \in Directions :
          /\ sent[d] \in Bodies \cup {Nothing} \cup {r.body : r \in Requests}
          /\ passed[d] \in 0..Len(sent[d].chunks)
          /\ session[d].kept \in 0..MaxCapture
          /\ session[d].reason \in Reasons \cup {None}
    /\ status \in Statuses \cup {ServerDefault}
    /\ lost \subseteq Directions
    /\ bypassed \in BOOLEAN
    /\ Len(events) <= 1
    /\ \A i \in DOMAIN events : \A d \in Directions :
          /\ events[i][d].body \in BodyType
          /\ events[i][d].state \in {"captured", "omitted", None}
          /\ events[i][d].reason \in Reasons \cup {None}

\* The recorder of either stack keeps the same of a body: what WebFlux has
\* gathered chunk by chunk is what MVC makes of the same bytes in one piece.
\* Streaming types apart, and answers that are flushed bit by bit.
RecordersAgree ==
    \A d \in Directions :
        LET size     == BytesOf(d, passed[d])
            flushed  == session[d].reason = "unsupported"
        IN  stack = "webflux" /\ d \notin lost /\ ~flushed
              => Snapshot(d) = CaptureMvc(session[d].type, FormOf(d, size), size)

\* What OpenAPI says of a message, in sets: a declared status or media type
\* speaks for all it admits, and of several the narrowest counts.
Admits(declared, type) ==
    /\ declared.type \in {"*", type.type}
    /\ \/ declared.base = type.base /\ declared.suffix = type.suffix
       \/ declared.base = "*" /\ declared.suffix \in {"", type.suffix}

Answerable(r) == {s \in 100..599 : MatchesStatusToken(s, r.status)}

DeclaredContent(d) ==
    LET options == {r \in contract.responses : status \in Answerable(r)}
    IN  IF d = "request" THEN contract.request.content
        ELSE UNION {r.content : r \in
               {r \in options : \A o \in options : Answerable(r) \subseteq Answerable(o)}}

Counts(d) ==
    LET options == {c \in DeclaredContent(d) : Admits(c.media, sent[d].type)}
    IN  {c \in options : \A o \in options : Admits(o.media, c.media)}

InFull(d) ==
    /\ passed[d] = Len(sent[d].chunks) /\ d \notin lost
    /\ d = "response" => ~bypassed

\* The message is what the contract asks for: of a message that is not JSON its
\* type is enough.  JSON of a type that is declared by no JSON type, as */*, is
\* left out: it fails the run as unsupported, whatever its schema.
KeepsContract(d) ==
    IF sent[d] = Nothing
    THEN IF d = "request" THEN ~contract.request.required
         ELSE DeclaredContent(d) = {}
    ELSE \/ DeclaredContent(d) = {}
         \/ \E c \in Counts(d) :
               \/ ~IsJson(sent[d].type)
               \/ IsJson(c.media) /\ sent[d].form = c.schema

\* The message is JSON of a schema that is not the declared one.
BreaksContract(d) ==
    /\ sent[d].form \in Forms \ {"malformed"}
    /\ \E c \in Counts(d) : /\ IsJson(c.media) /\ c.schema \in Schemas
                            /\ sent[d].form # c.schema

Recordable(d) ==
    /\ IsMediaType(sent[d].type) /\ IsJson(sent[d].type)
    /\ ~IsStreaming(sent[d].type)
    /\ BytesOf(d, passed[d]) <= MaxCapture
    /\ session[d].reason # "unsupported"

\* The gate is right about every message that has gone through the recorder
\* in full, in whatever chunks: one that keeps its contract does not fail the
\* run, and one that breaks it does unless the recorder had to omit it.
VerdictsAreDeserved ==
    \A i \in DOMAIN events : \A d \in Directions : InFull(d) =>
        /\ KeepsContract(d) => Code(events[i], d) \notin FailClosedCodes
        /\ BreaksContract(d) /\ Recordable(d)
              => Code(events[i], d) = "INVALID_BODY"

\* What a client sends to the application (the headers that tag a test are
\* the recorder's own), and how the application reads a value.
Sent(in, name) ==
    IF in = "header" /\ name \in ReservedHeaders THEN <<>>
    ELSE ValuesOf(parameters, in, name)
Carried(in, name) == Sent(in, name) # <<>>
Text(value) == IF value = "bare" THEN "" ELSE value

Legal(p) ==
    /\ \A i \in DOMAIN Sent(p.in, p.name) : Text(Sent(p.in, p.name)[i]) \in p.admitted
    /\ p.type = "scalar" => Len(Sent(p.in, p.name)) = 1

\* What a recorder can show: no secret, no value that it must leave out.
Showable(in, name) ==
    /\ in \in {"header", "cookie"} => name \notin SensitiveNames
    /\ \A i \in DOMAIN Sent(in, name) :
          Sent(in, name)[i] \notin {"bare", "control", "long"}

ParametersAreJudged(e) ==
    \A p \in contract.parameters :
        LET truth == ParameterTruth(e.evidence, p)
        IN  /\ ~Carried(p.in, p.name) => truth = NoTruth
            /\ Carried(p.in, p.name) /\ (p.in = "path" => e.mapped)
                 => /\ ~Legal(p) => truth \in FailClosedParameterTruths
                    /\ Legal(p) => truth # "captured-invalid"
                    /\ Legal(p) /\ Showable(p.in, p.name)
                          /\ DeclaredSupport(p) # "unsupported"
                         => truth = "captured-valid"

\* The call carries every key that one of the alternatives asks for.
CarriesAll(requirement) ==
    \A s \in requirement :
        s.type = "apiKey" /\ s.in \in KeyLocations /\ Carried(s.in, s.key)

SecurityIsJudged(e) ==
    LET declared == IF contract.security.declared THEN contract.security
                    ELSE contract.root
        truth    == SecurityTruth(e.evidence, Security)
        carried  == {r \in declared.requirements : CarriesAll(r)}
        shown    == {r \in carried : \A s \in r : Showable(s.in, s.key)}
    IN  /\ truth \notin FailClosedSecurityTruths
             => carried # {} \/ declared.requirements = {}
        /\ truth = "missing" => carried = {}
        /\ shown # {} => truth \notin FailClosedSecurityTruths

\* The gates on parameters and security are right about every recorded call,
\* on either stack: what is not sent is not judged, an illegal value and a
\* call that carries the keys of no alternative always fail the run, a legal
\* value is never called invalid nor a key that was sent missing, and what a
\* recorder can show passes.  Calls whose form has a field named like a query
\* parameter are left out: MVC takes one for the other.
NoFieldLikeAParameter ==
    stack = "mvc" =>
        \A p \in parameters : p.in = "form" =>
            /\ ~\E q \in contract.parameters : q.in = "query" /\ q.name = p.name
            /\ ~\E r \in Security.requirements : \E s \in r :
                   s.in = "query" /\ s.key = p.name

RequestVerdictsAreDeserved ==
    \A i \in DOMAIN events : NoFieldLikeAParameter =>
        ParametersAreJudged(events[i]) /\ SecurityIsJudged(events[i])

\* The two halves of a report agree.  The declared status whose content an
\* answer is judged by is also the one that the coverage ticks off for it, and
\* so is every parameter that is found valid.
JudgedStatusIsCovered(e) ==
    LET declared == {r.status : r \in contract.responses}
    IN  \A r \in SelectResponseContract(contract.responses, e.status) :
            r.status \in CoveredStatuses(declared, {e.status})

ValidParameterIsCovered(e) ==
    \A p \in contract.parameters :
        p.in # "cookie" /\ ParameterTruth(e.evidence, p) = "captured-valid"
            => IsParameterCovered(p, ParameterEvidence(e))

JudgedIsCovered ==
    \A i \in DOMAIN events :
        JudgedStatusIsCovered(events[i]) /\ ValidParameterIsCovered(events[i])

=============================================================================
