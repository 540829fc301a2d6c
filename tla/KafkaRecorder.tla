--------------------------- MODULE KafkaRecorder ---------------------------
(***************************************************************************)
(* The Kafka recorder: the producer interceptor that adds the thread's     *)
(* test metadata to the record a KafkaTemplate sends, the producer         *)
(* listener that records the send when the producer's I/O thread completes *)
(* it, and the record interceptor around a listener.                       *)
(*                                                                         *)
(* A send is recorded later and on another thread than the one that made   *)
(* it, from the headers of the record alone.  The producer makes these     *)
(* headers read-only when it accepts the record; an application that sends *)
(* the same record again meets the interceptor again.                      *)
(*                                                                         *)
(* The broker serves a record from its log as soon as it has stored it,    *)
(* whether or not the producer has heard of it or given it up, and however *)
(* often a consumer seeks back to it: after a listener threw, after a lost *)
(* commit or a rebalance, and on two threads at once.                      *)
(*                                                                         *)
(* A producer listener of the application is called before the recorder's  *)
(* and may throw, so that the recorder's is not.  Record interceptors of   *)
(* the application return normally; the container calls clearThreadState   *)
(* only where the context is already clear.                                *)
(***************************************************************************)
EXTENDS TestMetadata, Naturals, FiniteSets, Sequences, SequencesExt

CONSTANTS
    RequestThreads, ListenerThreads,
    Records,             \* every record that may be sent
    Callers,             \* the metadata with which calls arrive
    ApplicationHeaders,  \* the headers an application may set by itself
    ThrowsOn,            \* the records at whose completion a producer
                         \* listener of the application may throw
    MaxSends,            \* bound: times one record is accepted
    MaxDeliveries,       \* bound: deliveries of one record
    NoRecord             \* null: no record

ASSUME KafkaAssumption ==
    /\ RequestThreads \cap ListenerThreads = {}
    /\ Callers \subseteq Metadata
    /\ ApplicationHeaders \subseteq Headers
    /\ MaxSends \in Nat \ {0} /\ MaxDeliveries \in Nat
    /\ NoRecord \notin Records
    /\ ThrowsOn \subseteq Records
    /\ IsFiniteSet(ListenerThreads)

Threads == RequestThreads \cup ListenerThreads

VARIABLES
    context,       \* TestMetadataContextHolder, per thread
    busy,          \* the threads that serve a call or a record
    handling,      \* the record the container delivers on each thread
    headers,       \* the headers of each record
    readOnly,      \* the records whose headers the producer has closed
    inFlight,      \* sends of each record that are not completed
    stored,        \* the records in the log of the broker
    sendEvents, receiveEvents,   \* what was recorded for each record
    accepted,      \* history: sends of each record the producer accepted
    deliveries,    \* history: deliveries of each record
    abandoned,     \* history: records whose first send threw
    unheard,       \* history: completed sends of each record that a listener
                   \* of the application kept from the recorder
    origin         \* history: the metadata each record should carry

threadVars == <<context, busy, handling>>
brokerVars == <<headers, readOnly, inFlight, stored>>
eventVars == <<sendEvents, receiveEvents>>
historyVars == <<accepted, deliveries, abandoned, unheard, origin>>
vars == <<threadVars, brokerVars, eventVars, historyVars>>

\* How a send or a delivery ended.
Outcomes == {"ok", "error"}

Event == [attribution : Metadata, outcome : Outcomes]

TypeOK ==
    /\ context \in [Threads -> Metadata]
    /\ busy \subseteq Threads
    /\ handling \in [Threads -> Records \cup {NoRecord}]
    /\ headers \in [Records -> Headers]
    /\ readOnly \subseteq Records
    /\ inFlight \in [Records -> 0..MaxSends]
    /\ stored \subseteq Records
    /\ sendEvents \in [Records -> Seq(Event)]
    /\ receiveEvents \in [Records -> Seq(Event)]
    /\ accepted \in [Records -> 0..MaxSends]
    /\ deliveries \in [Records -> 0..MaxDeliveries]
    /\ abandoned \subseteq Records
    /\ unheard \in [Records -> 0..MaxSends]
    /\ origin \in [Records -> Metadata]

Init ==
    /\ context = [t \in Threads |-> NoMetadata]
    /\ busy = {}
    /\ handling = [t \in Threads |-> NoRecord]
    /\ headers = [r \in Records |-> NoHeaders]
    /\ readOnly = {}
    /\ inFlight = [r \in Records |-> 0]
    /\ stored = {}
    /\ sendEvents = [r \in Records |-> <<>>]
    /\ receiveEvents = [r \in Records |-> <<>>]
    /\ accepted = [r \in Records |-> 0]
    /\ deliveries = [r \in Records |-> 0]
    /\ abandoned = {}
    /\ unheard = [r \in Records |-> 0]
    /\ origin = [r \in Records |-> NoMetadata]

\* record(...): the event carries what the record's headers say.
EventOf(r, outcome) == [attribution |-> Read(headers[r]), outcome |-> outcome]

-----------------------------------------------------------------------------
(* Calls: the environment of the sender                                    *)

BeginCall(t, meta) ==
    /\ t \in RequestThreads \ busy
    /\ context' = [context EXCEPT ![t] = meta]
    /\ busy' = busy \cup {t}
    /\ UNCHANGED <<handling, brokerVars, eventVars, historyVars>>

EndCall(t) ==
    /\ t \in RequestThreads \cap busy
    /\ context' = [context EXCEPT ![t] = NoMetadata]
    /\ busy' = busy \ {t}
    /\ UNCHANGED <<handling, brokerVars, eventVars, historyVars>>

-----------------------------------------------------------------------------
(* Sending                                                                 *)

\* The metadata a record sent now for the first time should carry: its
\* cause's, except where the application has set a header.
Attribution(t, h) ==
    Read(ApplyContextIfAbsent(h, IF handling[t] = NoRecord THEN context[t]
                                 ELSE origin[handling[t]]))

\* Mutant: the ambient context replaces headers the application has set.
NewHeaders_Overwrites(t, h) == ApplyContextIfAbsent(context[t], h)

\* onSend of a new record.
NewHeaders(t, h) == ApplyContextIfAbsent(h, context[t])

\* Mutant: the send is recorded when it is made, and again when it completes.
Send_RecordsAtOnce(t, r, h) ==
    /\ t \in busy
    /\ r \notin readOnly \cup abandoned
    /\ headers' = [headers EXCEPT ![r] = NewHeaders(t, h)]
    /\ origin' = [origin EXCEPT ![r] = Attribution(t, h)]
    /\ readOnly' = readOnly \cup {r}
    /\ inFlight' = [inFlight EXCEPT ![r] = @ + 1]
    /\ accepted' = [accepted EXCEPT ![r] = @ + 1]
    /\ sendEvents' = [sendEvents EXCEPT ![r] =
                        Append(@, [attribution |-> origin'[r], outcome |-> "ok"])]
    /\ UNCHANGED <<threadVars, stored, receiveEvents, deliveries, abandoned,
                   unheard>>

\* KafkaTemplate.send: the interceptor, then the producer accepts the record.
Send(t, r, h) ==
    /\ t \in busy
    /\ r \notin readOnly \cup abandoned
    /\ headers' = [headers EXCEPT ![r] = NewHeaders(t, h)]
    /\ origin' = [origin EXCEPT ![r] = Attribution(t, h)]
    /\ readOnly' = readOnly \cup {r}
    /\ inFlight' = [inFlight EXCEPT ![r] = @ + 1]
    /\ accepted' = [accepted EXCEPT ![r] = @ + 1]
    /\ UNCHANGED <<threadVars, stored, eventVars, deliveries, abandoned,
                   unheard>>

\* The producer throws before it accepts the record (it cannot serialise
\* it): no listener is called, and the application gives the record up.  (An
\* interceptor of the application that throws does so before the recorder's
\* is called: nothing has happened.)
FailSend(t, r, h) ==
    /\ t \in busy
    /\ r \notin readOnly \cup abandoned
    /\ headers' = [headers EXCEPT ![r] = NewHeaders(t, h)]
    /\ origin' = [origin EXCEPT ![r] = Attribution(t, h)]
    /\ abandoned' = abandoned \cup {r}
    /\ UNCHANGED <<threadVars, readOnly, inFlight, stored, eventVars,
                   accepted, deliveries, unheard>>

\* The application sends the same record again.  Where the interceptor would
\* add a header to the closed ones, headers.add throws in its face and
\* nothing is sent: only sends that add nothing get through.
Resend(t, r) ==
    /\ t \in busy
    /\ r \in readOnly /\ accepted[r] < MaxSends
    /\ ApplyContextIfAbsent(headers[r], context[t]) = headers[r]
    /\ inFlight' = [inFlight EXCEPT ![r] = @ + 1]
    /\ accepted' = [accepted EXCEPT ![r] = @ + 1]
    /\ UNCHANGED <<threadVars, headers, readOnly, stored, eventVars,
                   deliveries, abandoned, unheard, origin>>

\* The broker appends the record to its log: before the producer hears of it,
\* or although the producer gives it up, or (acks=0) after it went on.
Store(r) ==
    /\ r \in readOnly \ stored
    /\ stored' = stored \cup {r}
    /\ UNCHANGED <<threadVars, headers, readOnly, inFlight, eventVars,
                   historyVars>>

\* Mutant: sends are recorded only while some thread has a context.
CompleteSend_NeedsContext(r, outcome) ==
    /\ inFlight[r] > 0
    /\ \E t \in Threads : context[t] # NoMetadata
    /\ inFlight' = [inFlight EXCEPT ![r] = @ - 1]
    /\ sendEvents' = [sendEvents EXCEPT ![r] = Append(@, EventOf(r, outcome))]
    /\ UNCHANGED <<threadVars, headers, readOnly, stored, receiveEvents,
                   historyVars>>

\* The I/O thread completes a send: ProducerListener.onSuccess or onError.
CompleteSend(r, outcome) ==
    /\ inFlight[r] > 0
    /\ inFlight' = [inFlight EXCEPT ![r] = @ - 1]
    /\ sendEvents' = [sendEvents EXCEPT ![r] = Append(@, EventOf(r, outcome))]
    /\ UNCHANGED <<threadVars, headers, readOnly, stored, receiveEvents,
                   historyVars>>

\* ChainedProducerListener: a listener of the application throws, and the
\* producer, which has completed the send, takes no notice.
CompleteUnheard(r) ==
    /\ r \in ThrowsOn
    /\ inFlight[r] > 0
    /\ inFlight' = [inFlight EXCEPT ![r] = @ - 1]
    /\ unheard' = [unheard EXCEPT ![r] = @ + 1]
    /\ UNCHANGED <<threadVars, headers, readOnly, stored, eventVars, accepted,
                   deliveries, abandoned, origin>>

-----------------------------------------------------------------------------
(* Listening                                                               *)

\* The threads on which the listener runs for r.
Handlers(r) == {t \in Threads : handling[t] = r}

Intercept(t, r) ==
    /\ t \in ListenerThreads \ busy
    /\ r \in stored /\ deliveries[r] < MaxDeliveries
    /\ context' = [context EXCEPT ![t] = Read(headers[r])]
    /\ handling' = [handling EXCEPT ![t] = r]
    /\ busy' = busy \cup {t}
    /\ deliveries' = [deliveries EXCEPT ![r] = @ + 1]
    /\ UNCHANGED <<brokerVars, eventVars, accepted, abandoned, unheard,
                   origin>>

\* Mutant: afterRecord does not clear the context.
FinishRecord_KeepsContext(t, outcome) ==
    LET r == handling[t]
    IN  /\ t \in ListenerThreads \cap busy
        /\ receiveEvents' = [receiveEvents EXCEPT ![r] =
                                Append(@, EventOf(r, outcome))]
        /\ UNCHANGED context
        /\ handling' = [handling EXCEPT ![t] = NoRecord]
        /\ busy' = busy \ {t}
        /\ UNCHANGED <<brokerVars, sendEvents, historyVars>>

\* The listener returns or throws: success or failure, then afterRecord.
FinishRecord(t, outcome) ==
    LET r == handling[t]
    IN  /\ t \in ListenerThreads \cap busy
        /\ receiveEvents' = [receiveEvents EXCEPT ![r] =
                                Append(@, EventOf(r, outcome))]
        /\ context' = [context EXCEPT ![t] = NoMetadata]
        /\ handling' = [handling EXCEPT ![t] = NoRecord]
        /\ busy' = busy \ {t}
        /\ UNCHANGED <<brokerVars, sendEvents, historyVars>>

-----------------------------------------------------------------------------

IOThread ==
    \E r \in Records :
        \/ \E outcome \in Outcomes : CompleteSend(r, outcome)
        \/ CompleteUnheard(r)

Next ==
    \/ \E t \in Threads :
          \/ \E meta \in Callers : BeginCall(t, meta)
          \/ EndCall(t)
          \/ \E r \in Records, h \in ApplicationHeaders :
                Send(t, r, h) \/ FailSend(t, r, h)
          \/ \E r \in Records : Resend(t, r)
          \/ \E r \in Records : Intercept(t, r)
          \/ \E outcome \in Outcomes : FinishRecord(t, outcome)
    \/ \E r \in Records : Store(r)
    \/ IOThread

\* delivery.timeout.ms: the producer completes every send it accepts.
Spec == Init /\ [][Next]_vars /\ WF_vars(IOThread)

-----------------------------------------------------------------------------
(* Properties                                                              *)

\* No metadata bleed, although sends are recorded when the thread that made
\* them serves another test ("shouldClearListenerContextWhen-
\* RecordingFailsAndPreventMetadataBleed"): every event of a record carries
\* exactly the metadata of
\* the call or record that caused it, through any chain of them, and what
\* the application had set.
EventsCarryTheirOrigin ==
    \A r \in Records :
        \A e \in ToSet(sendEvents[r]) \cup ToSet(receiveEvents[r]) :
            e.attribution = origin[r]

\* Each accepted send is recorded once, when it completes, unless a listener
\* of the application keeps the completion to itself, and of a record that the
\* producer refused nothing is.  Each delivery is recorded once, when its
\* listener is done, also before the send of the record is, and however often
\* and wherever the record is delivered.
RecordedOnce ==
    \A r \in Records :
        /\ Len(sendEvents[r]) + unheard[r] + inFlight[r] = accepted[r]
        /\ r \in abandoned => sendEvents[r] = <<>> /\ receiveEvents[r] = <<>>
        /\ Len(receiveEvents[r]) + Cardinality(Handlers(r)) = deliveries[r]

\* A thread between two pieces of work carries no metadata.
CleanBetweenRecords ==
    \A t \in Threads \ busy : context[t] = NoMetadata

\* Every send that the producer accepts is recorded, however late, unless
\* a listener of the application throws.
SendsEventuallyRecorded ==
    \A r \in Records \ ThrowsOn, n \in 1..MaxSends :
        accepted[r] >= n ~> Len(sendEvents[r]) >= n

=============================================================================
