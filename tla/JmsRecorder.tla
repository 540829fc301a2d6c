---------------------------- MODULE JmsRecorder ----------------------------
(***************************************************************************)
(* The ActiveMQ recorder: the proxied JmsTemplate, the proxy around a      *)
(* message listener, and the thread-locals they share.                     *)
(*                                                                         *)
(* Other than the RabbitMQ recorder, the template's advice takes the call  *)
(* apart and makes it anew, with a message creator or post-processor of    *)
(* its own; and the listener's proxy sets the message and its metadata     *)
(* itself, immediately around the listener, so that a redelivery always    *)
(* starts with them.  As there, threads are pooled, and the creators,      *)
(* converters and post-processors of the application may send in turn.     *)
(*                                                                         *)
(* The arguments of a call are abstracted to what the advice tells apart   *)
(* (instanceof) and what they stand for: a Destination, a string that is a *)
(* destination's Name, a string that is a Text payload, another Object, a  *)
(* message Creator, a PostProcessor.  A Default destination is the         *)
(* template's own.                                                         *)
(***************************************************************************)
EXTENDS TestMetadata, Naturals, Sequences, SequencesExt

CONSTANTS
    RequestThreads, ListenerThreads,
    Messages,            \* every message that may be sent
    Callers,             \* the metadata with which calls arrive
    ApplicationHeaders,  \* the properties an application may set by itself
    Calls,               \* the argument lists applications use
    MaxDeliveries,       \* bound: deliveries of one message
    MaxNesting,          \* bound: sends in progress on one thread
    NoMessage,           \* null: no message
    NoSend               \* null: no PendingSendContext

\* The signatures of JmsTemplate.send and convertAndSend.
Signatures ==
    LET destination == {"Destination", "Name"}
        payload == {"Text", "Object"}
    IN  {<<"Creator">>} \cup {<<d, "Creator">> : d \in destination}
        \cup {<<p>> : p \in payload}
        \cup {<<p, "PostProcessor">> : p \in payload}
        \cup {<<d, p>> : d \in destination, p \in payload}
        \cup {<<d, p, "PostProcessor">> : d \in destination, p \in payload}

ASSUME JmsAssumption ==
    /\ RequestThreads \cap ListenerThreads = {}
    /\ Callers \subseteq Metadata
    /\ ApplicationHeaders \subseteq Headers
    /\ Calls \subseteq Signatures
    /\ MaxDeliveries \in Nat /\ MaxNesting \in Nat
    /\ {NoMessage, NoSend} \cap Messages = {} /\ NoMessage # NoSend

Threads == RequestThreads \cup ListenerThreads

VARIABLES
    context,    \* TestMetadataContextHolder, per thread
    pending,    \* YanoteJmsSendContextHolder.CONTEXT, per thread: NoSend,
                \* NoMessage (started, nothing captured) or the message
    busy,       \* the threads that serve a call or a message
    handling,   \* the message the listener runs for on each thread
    frames,     \* the template calls in progress, innermost last
    headers,    \* the properties of each message
    queue,      \* the messages at the broker
    deliveries, \* deliveries of each message
    sendEvents, receiveEvents,   \* what was recorded for each message
    call,       \* history: the arguments of the call that sent it
    origin,     \* history: the metadata each message should carry
    fate,       \* history: how that call went
    overlapped  \* history: messages whose call had another call inside

threadVars == <<context, pending, busy, handling, frames>>
brokerVars == <<headers, queue, deliveries>>
eventVars == <<sendEvents, receiveEvents>>
historyVars == <<call, origin, fate, overlapped>>
vars == <<threadVars, brokerVars, eventVars, historyVars>>

Channels == {"Destination", "Name", "Text", "Default"}
Frame == [message : Messages, hint : Channels, captured : BOOLEAN]
Event == [attribution : Metadata, channel : Channels, error : BOOLEAN]
Fates == {"unsent", "sending", "sent", "failed", "failedEarly"}

TypeOK ==
    /\ context \in [Threads -> Metadata]
    /\ pending \in [Threads -> Messages \cup {NoMessage, NoSend}]
    /\ busy \subseteq Threads
    /\ handling \in [Threads -> Messages \cup {NoMessage}]
    /\ frames \in [Threads -> Seq(Frame)]
    /\ headers \in [Messages -> Headers]
    /\ queue \subseteq Messages
    /\ deliveries \in [Messages -> 0..MaxDeliveries]
    /\ sendEvents \in [Messages -> Seq(Event)]
    /\ receiveEvents \in [Messages -> Seq(Event)]
    /\ call \in [Messages -> Calls \cup {<<>>}]
    /\ origin \in [Messages -> Metadata]
    /\ fate \in [Messages -> Fates]
    /\ overlapped \subseteq Messages

Init ==
    /\ context = [t \in Threads |-> NoMetadata]
    /\ pending = [t \in Threads |-> NoSend]
    /\ busy = {}
    /\ handling = [t \in Threads |-> NoMessage]
    /\ frames = [t \in Threads |-> <<>>]
    /\ headers = [m \in Messages |-> NoHeaders]
    /\ queue = {}
    /\ deliveries = [m \in Messages |-> 0]
    /\ sendEvents = [m \in Messages |-> <<>>]
    /\ receiveEvents = [m \in Messages |-> <<>>]
    /\ call = [m \in Messages |-> <<>>]
    /\ origin = [m \in Messages |-> NoMetadata]
    /\ fate = [m \in Messages |-> "unsent"]
    /\ overlapped = {}

-----------------------------------------------------------------------------
(* The arguments of a call                                                 *)

\* What Spring makes of the arguments: the destination and what is sent.
Meaning(args) ==
    LET plain == IF Last(args) = "PostProcessor" THEN Front(args) ELSE args
    IN  IF Len(plain) = 1
        THEN [destination |-> "Default", payload |-> plain[1]]
        ELSE [destination |-> plain[1], payload |-> plain[2]]

\* instanceof Destination || instanceof String
LooksLikeDestination(arg) == arg \in {"Destination", "Name", "Text"}

\* The call the advice makes on the template in its place.
Dispatch(args) ==
    IF Len(args) > 1 /\ LooksLikeDestination(args[1])
    THEN [destination |-> args[1], payload |-> args[2]]
    ELSE [destination |-> "Default", payload |-> args[1]]

\* Mutant: the default destination is not looked up.
DestinationHint_First(args) == args[1]

\* resolveDestinationHint: the channel a send is recorded under.
DestinationHint(args) ==
    IF LooksLikeDestination(args[1]) THEN args[1] ELSE "Default"

-----------------------------------------------------------------------------

\* record(...): the event carries what the message's properties say now.
EventOf(m, channel, error) ==
    [attribution |-> Read(headers[m]), channel |-> channel, error |-> error]

-----------------------------------------------------------------------------
(* Calls: the environment of the sender                                    *)

BeginCall(t, meta) ==
    /\ t \in RequestThreads \ busy
    /\ context' = [context EXCEPT ![t] = meta]
    /\ busy' = busy \cup {t}
    /\ UNCHANGED <<pending, handling, frames, brokerVars, eventVars,
                   historyVars>>

EndCall(t) ==
    /\ t \in RequestThreads \cap busy /\ frames[t] = <<>>
    /\ context' = [context EXCEPT ![t] = NoMetadata]
    /\ busy' = busy \ {t}
    /\ UNCHANGED <<pending, handling, frames, brokerVars, eventVars,
                   historyVars>>

-----------------------------------------------------------------------------
(* Listening                                                               *)

\* The container calls the listener's proxy: the message and its metadata
\* are put on the thread, then the listener runs.
Listen(t, m) ==
    /\ t \in ListenerThreads \ busy
    /\ m \in queue /\ deliveries[m] < MaxDeliveries
    /\ queue' = queue \ {m}
    /\ context' = [context EXCEPT ![t] = Read(headers[m])]
    /\ handling' = [handling EXCEPT ![t] = m]
    /\ busy' = busy \cup {t}
    /\ deliveries' = [deliveries EXCEPT ![m] = @ + 1]
    /\ UNCHANGED <<pending, frames, headers, eventVars, historyVars>>

\* Mutant: the finally block is missing.
FinishListening_KeepsContext(t, error) ==
    LET m == handling[t]
    IN  /\ t \in ListenerThreads \cap busy /\ frames[t] = <<>>
        /\ receiveEvents' =
              [receiveEvents EXCEPT ![m] =
                  Append(@, EventOf(m, Meaning(call[m]).destination, error))]
        /\ UNCHANGED context
        /\ handling' = [handling EXCEPT ![t] = NoMessage]
        /\ busy' = busy \ {t}
        /\ queue' \in IF error THEN {queue, queue \cup {m}} ELSE {queue}
        /\ UNCHANGED <<pending, frames, headers, deliveries, sendEvents,
                       historyVars>>

\* The listener returns or throws: the receive is recorded, under the
\* destination the broker has put on the message, and the thread is cleared.
\* The container gives up a message whose listener threw, or rolls it back.
FinishListening(t, error) ==
    LET m == handling[t]
    IN  /\ t \in ListenerThreads \cap busy /\ frames[t] = <<>>
        /\ receiveEvents' =
              [receiveEvents EXCEPT ![m] =
                  Append(@, EventOf(m, Meaning(call[m]).destination, error))]
        /\ context' = [context EXCEPT ![t] = NoMetadata]
        /\ handling' = [handling EXCEPT ![t] = NoMessage]
        /\ busy' = busy \ {t}
        /\ queue' \in IF error THEN {queue, queue \cup {m}} ELSE {queue}
        /\ UNCHANGED <<pending, frames, headers, deliveries, sendEvents,
                       historyVars>>

-----------------------------------------------------------------------------
(* Sending                                                                 *)

\* The metadata a message sent now should carry: its cause's, except where
\* the application has set a property.
Attribution(t, h) ==
    Read(ApplyContextIfAbsent(h, IF handling[t] = NoMessage THEN context[t]
                                 ELSE origin[handling[t]]))

\* JmsTemplateSendAdvice up to the call of the template: only the code that
\* makes a message, before it is captured, may send in turn.
StartSend(t, m, h, args) ==
    /\ t \in busy /\ Len(frames[t]) < MaxNesting
    /\ frames[t] # <<>> => ~Last(frames[t]).captured
    /\ fate[m] = "unsent"
    /\ headers' = [headers EXCEPT ![m] = h]
    /\ pending' = [pending EXCEPT ![t] = NoMessage]
    /\ frames' = [frames EXCEPT ![t] =
                    Append(@, [message |-> m, hint |-> DestinationHint(args),
                               captured |-> FALSE])]
    /\ call' = [call EXCEPT ![m] = args]
    /\ origin' = [origin EXCEPT ![m] = Attribution(t, h)]
    /\ fate' = [fate EXCEPT ![m] = "sending"]
    /\ overlapped' = overlapped \cup {f.message : f \in ToSet(frames[t])}
    /\ UNCHANGED <<context, busy, handling, queue, deliveries, eventVars>>

\* Mutant: the context is not added.
Capture_NoContext(t) ==
    LET frame == Last(frames[t])
        m == frame.message
    IN  /\ frames[t] # <<>> /\ ~frame.captured
        /\ Dispatch(call[m]) = Meaning(call[m])
        /\ pending' = [pending EXCEPT ![t] = IF @ = NoSend THEN @ ELSE m]
        /\ frames' = [frames EXCEPT ![t] =
                        Append(Front(@), [frame EXCEPT !.captured = TRUE])]
        /\ UNCHANGED <<context, busy, handling, headers, queue, deliveries,
                       eventVars, historyVars>>

\* The wrapped creator or post-processor, on a message the template made
\* from what the application gave it: add the context, capture.
Capture(t) ==
    LET frame == Last(frames[t])
        m == frame.message
    IN  /\ frames[t] # <<>> /\ ~frame.captured
        /\ Dispatch(call[m]) = Meaning(call[m])
        /\ headers' = [headers EXCEPT ![m] =
                         ApplyContextIfAbsent(@, context[t])]
        /\ pending' = [pending EXCEPT ![t] = IF @ = NoSend THEN @ ELSE m]
        /\ frames' = [frames EXCEPT ![t] =
                        Append(Front(@), [frame EXCEPT !.captured = TRUE])]
        /\ UNCHANGED <<context, busy, handling, queue, deliveries, eventVars,
                       historyVars>>

\* Mutant: the pending send is recorded on success only.
EndSend_SuccessOnly(t, error) ==
    LET frame == Last(frames[t])
        m == frame.message
        sent == pending[t]
    IN  /\ frames[t] # <<>>
        /\ error \/ frame.captured
        /\ sendEvents' =
              IF error \/ sent \in {NoSend, NoMessage} THEN sendEvents
              ELSE [sendEvents EXCEPT ![sent] =
                        Append(@, EventOf(sent, frame.hint, error))]
        /\ pending' = [pending EXCEPT ![t] = NoSend]
        /\ frames' = [frames EXCEPT ![t] = Front(@)]
        /\ queue' = IF error THEN queue ELSE queue \cup {m}
        /\ fate' = [fate EXCEPT ![m] = IF ~error THEN "sent"
                                       ELSE IF frame.captured THEN "failed"
                                       ELSE "failedEarly"]
        /\ UNCHANGED <<context, busy, handling, headers, deliveries,
                       receiveEvents, call, origin, overlapped>>

\* The rest of the advice, after the template has returned (the broker has
\* the message) or thrown: record what is pending, clear it, return.
EndSend(t, error) ==
    LET frame == Last(frames[t])
        m == frame.message
        sent == pending[t]
    IN  /\ frames[t] # <<>>
        /\ error \/ frame.captured
        /\ sendEvents' =
              IF sent \in {NoSend, NoMessage} THEN sendEvents
              ELSE [sendEvents EXCEPT ![sent] =
                        Append(@, EventOf(sent, frame.hint, error))]
        /\ pending' = [pending EXCEPT ![t] = NoSend]
        /\ frames' = [frames EXCEPT ![t] = Front(@)]
        /\ queue' = IF error THEN queue ELSE queue \cup {m}
        /\ fate' = [fate EXCEPT ![m] = IF ~error THEN "sent"
                                       ELSE IF frame.captured THEN "failed"
                                       ELSE "failedEarly"]
        /\ UNCHANGED <<context, busy, handling, headers, deliveries,
                       receiveEvents, call, origin, overlapped>>

-----------------------------------------------------------------------------

Next ==
    \E t \in Threads :
        \/ \E meta \in Callers : BeginCall(t, meta)
        \/ EndCall(t)
        \/ \E m \in Messages : Listen(t, m)
        \/ \E error \in BOOLEAN : FinishListening(t, error)
        \/ \E m \in Messages, h \in ApplicationHeaders, args \in Calls :
              StartSend(t, m, h, args)
        \/ Capture(t)
        \/ \E error \in BOOLEAN : EndSend(t, error)

Spec == Init /\ [][Next]_vars

-----------------------------------------------------------------------------
(* Properties                                                              *)

Events(m) == ToSet(sendEvents[m]) \cup ToSet(receiveEvents[m])

\* Every event of a message carries exactly the metadata of the call or
\* message that caused it, through any chain of calls, listeners and nested
\* sends on pooled threads, redeliveries included.
EventsCarryTheirOrigin ==
    \A m \in Messages : \A e \in Events(m) : e.attribution = origin[m]

\* A send and the receipts of its message are recorded under the destination
\* the application gave (ActiveMqRecorderSingleServiceIntegrationTest:125,
\* "assertThat(event.channel()).isEqualTo(QUEUE)").
EventsNameTheirDestination ==
    \A m \in Messages : \A e \in Events(m) :
        e.channel = Meaning(call[m]).destination

\* The sends that the advice gets to record: the message was made, and no other
\* call of the template was made inside the call and took its place on the
\* thread.
Recorded(m) == fate[m] \in {"sent", "failed"} /\ m \notin overlapped

\* A template call is recorded once, when it is over and with its outcome, if
\* its message was made and no other call was made inside it: an outer call,
\* which loses its place to the inner one, is never recorded, and neither is a
\* message that was not made.  Each delivery gives one receive event, when its
\* listener is done, also of an outer call.
RecordedOnce ==
    \A m \in Messages :
        LET running == \E t \in Threads : handling[t] = m
        IN  /\ IF Recorded(m)
               THEN /\ Len(sendEvents[m]) = 1
                    /\ sendEvents[m][1].error = (fate[m] = "failed")
               ELSE sendEvents[m] = <<>>
            /\ Len(receiveEvents[m]) = deliveries[m] - (IF running THEN 1 ELSE 0)

\* A thread that waits for work carries no metadata and no pending send.
CleanBetweenDeliveries ==
    \A t \in Threads \ busy : context[t] = NoMetadata /\ pending[t] = NoSend

\* "recorder must not break message delivery" (YanoteJmsHeaders.java:270):
\* the advice calls the template with what the application asked it to send.
DeliveryNotBroken ==
    \A m \in Messages : fate[m] # "unsent" =>
        Dispatch(call[m]) = Meaning(call[m])

=============================================================================
