---------------------------- MODULE AmqpRecorder ----------------------------
(***************************************************************************)
(* The RabbitMQ recorder: the proxied RabbitTemplate, the before-publish   *)
(* and after-receive post-processors, the listener advice, and the three   *)
(* thread-locals they share (test metadata, the message being listened to, *)
(* the send in progress).                                                  *)
(*                                                                         *)
(* Threads are pooled and reused.  A request thread serves calls that set  *)
(* the test metadata and then use the template.  A listener thread takes a *)
(* message from the broker, runs our post-processor, then the container's  *)
(* advice chain: ours is its last, innermost element, so that a retry      *)
(* advice of the application calls it again, without a new post-processor  *)
(* run.  The code of a call or of a listener may send; while a send        *)
(* converts or post-processes its message, application code runs that may  *)
(* send again, on the same thread.                                         *)
(***************************************************************************)
EXTENDS TestMetadata, Naturals, Sequences, SequencesExt

CONSTANTS
    RequestThreads, ListenerThreads,
    Messages,            \* every message object that may be sent
    Callers,             \* the metadata with which calls arrive
    ApplicationHeaders,  \* the headers an application may set by itself
    MaxAttempts,         \* listener invocations per delivery
    MaxDeliveries,       \* deliveries of one message
    MaxNesting,          \* sends in progress on one thread
    NoMessage,           \* null: no message
    NoSend               \* null: no PendingSendContext

ASSUME AmqpAssumption ==
    /\ RequestThreads \cap ListenerThreads = {}
    /\ Callers \subseteq Metadata
    /\ ApplicationHeaders \subseteq Headers
    /\ MaxAttempts \in Nat /\ MaxDeliveries \in Nat /\ MaxNesting \in Nat
    /\ {NoMessage, NoSend} \cap Messages = {} /\ NoMessage # NoSend

Threads == RequestThreads \cup ListenerThreads

VARIABLES
    context,    \* TestMetadataContextHolder, per thread
    current,    \* YanoteAmqpListenerState.CURRENT_MESSAGE, per thread
    pending,    \* YanoteAmqpSendContextHolder.CONTEXT, per thread: NoSend,
                \* NoMessage (started, nothing captured) or the message
    phase,      \* where each thread is
    handling,   \* the message the container delivers on each thread
    local,      \* the message the advice read on entry
    attempts,   \* invocations of the listener for this delivery
    frames,     \* the template calls in progress, innermost last
    headers,    \* the headers of each message
    queue,      \* the messages at the broker
    deliveries, \* how often each message was given to a listener
    sendEvents, receiveEvents,   \* what was recorded for each message
    origin,     \* history: the metadata each message should carry
    fate,       \* history: how the template call of each message went
    overlapped  \* history: messages whose call had another call inside

threadVars == <<context, current, pending, phase, handling, local, attempts,
                frames>>
brokerVars == <<headers, queue, deliveries>>
eventVars == <<sendEvents, receiveEvents>>
historyVars == <<origin, fate, overlapped>>
vars == <<threadVars, brokerVars, eventVars, historyVars>>

Frame == [message : Messages, hooked : BOOLEAN]
Event == [attribution : Metadata, error : BOOLEAN]
Fates == {"unsent", "sending", "sent", "failed", "failedEarly"}

TypeOK ==
    /\ context \in [Threads -> Metadata]
    /\ current \in [Threads -> Messages \cup {NoMessage}]
    /\ pending \in [Threads -> Messages \cup {NoMessage, NoSend}]
    /\ phase \in [Threads -> {"idle", "received", "running"}]
    /\ handling \in [Threads -> Messages \cup {NoMessage}]
    /\ local \in [Threads -> Messages \cup {NoMessage}]
    /\ attempts \in [Threads -> 0..MaxAttempts]
    /\ frames \in [Threads -> Seq(Frame)]
    /\ headers \in [Messages -> Headers]
    /\ queue \subseteq Messages
    /\ deliveries \in [Messages -> 0..MaxDeliveries]
    /\ sendEvents \in [Messages -> Seq(Event)]
    /\ receiveEvents \in [Messages -> Seq(Event)]
    /\ origin \in [Messages -> Metadata]
    /\ fate \in [Messages -> Fates]
    /\ overlapped \subseteq Messages

Init ==
    /\ context = [t \in Threads |-> NoMetadata]
    /\ current = [t \in Threads |-> NoMessage]
    /\ pending = [t \in Threads |-> NoSend]
    /\ phase = [t \in Threads |-> "idle"]
    /\ handling = [t \in Threads |-> NoMessage]
    /\ local = [t \in Threads |-> NoMessage]
    /\ attempts = [t \in Threads |-> 0]
    /\ frames = [t \in Threads |-> <<>>]
    /\ headers = [m \in Messages |-> NoHeaders]
    /\ queue = {}
    /\ deliveries = [m \in Messages |-> 0]
    /\ sendEvents = [m \in Messages |-> <<>>]
    /\ receiveEvents = [m \in Messages |-> <<>>]
    /\ origin = [m \in Messages |-> NoMetadata]
    /\ fate = [m \in Messages |-> "unsent"]
    /\ overlapped = {}

\* record(...): the event carries what the message's headers say now.
EventOf(m, error) == [attribution |-> Read(headers[m]), error |-> error]

-----------------------------------------------------------------------------
(* Calls: the environment of the sender                                    *)

\* The HTTP recorder, or a test, puts the caller's metadata on the thread.
BeginCall(t, meta) ==
    /\ t \in RequestThreads /\ phase[t] = "idle"
    /\ context' = [context EXCEPT ![t] = meta]
    /\ phase' = [phase EXCEPT ![t] = "running"]
    /\ UNCHANGED <<current, pending, handling, local, attempts, frames,
                   brokerVars, eventVars, historyVars>>

EndCall(t) ==
    /\ t \in RequestThreads /\ phase[t] = "running" /\ frames[t] = <<>>
    /\ context' = [context EXCEPT ![t] = NoMetadata]
    /\ phase' = [phase EXCEPT ![t] = "idle"]
    /\ UNCHANGED <<current, pending, handling, local, attempts, frames,
                   brokerVars, eventVars, historyVars>>

-----------------------------------------------------------------------------
(* Listening                                                               *)

\* Mutant: a header that is missing leaves what the thread had.
PostProcessReceived_Merges(t, m) ==
    /\ t \in ListenerThreads /\ phase[t] = "idle"
    /\ m \in queue /\ deliveries[m] < MaxDeliveries
    /\ queue' = queue \ {m}
    /\ current' = [current EXCEPT ![t] = m]
    /\ context' = [context EXCEPT ![t] =
                      ApplyContextIfAbsent(Read(headers[m]), @)]
    /\ handling' = [handling EXCEPT ![t] = m]
    /\ attempts' = [attempts EXCEPT ![t] = 0]
    /\ phase' = [phase EXCEPT ![t] = "received"]
    /\ UNCHANGED <<pending, local, frames, headers, deliveries, eventVars,
                   historyVars>>

\* The container takes m from the queue and our after-receive post-processor
\* publishes it, and its metadata, to the thread.
PostProcessReceived(t, m) ==
    /\ t \in ListenerThreads /\ phase[t] = "idle"
    /\ m \in queue /\ deliveries[m] < MaxDeliveries
    /\ queue' = queue \ {m}
    /\ current' = [current EXCEPT ![t] = m]
    /\ context' = [context EXCEPT ![t] = Read(headers[m])]
    /\ handling' = [handling EXCEPT ![t] = m]
    /\ attempts' = [attempts EXCEPT ![t] = 0]
    /\ phase' = [phase EXCEPT ![t] = "received"]
    /\ UNCHANGED <<pending, local, frames, headers, deliveries, eventVars,
                   historyVars>>

\* Another post-processor rejects the message: the advice never runs, and
\* nothing clears what ours has set.
RejectReceived(t) ==
    /\ phase[t] = "received" /\ attempts[t] = 0
    /\ phase' = [phase EXCEPT ![t] = "idle"]
    /\ handling' = [handling EXCEPT ![t] = NoMessage]
    /\ UNCHANGED <<context, current, pending, local, attempts, frames,
                   brokerVars, eventVars, historyVars>>

\* The advice is entered, for the first time or by a retry advice around it.
EnterAdvice(t) ==
    /\ phase[t] = "received"
    /\ local' = [local EXCEPT ![t] = current[t]]
    /\ attempts' = [attempts EXCEPT ![t] = @ + 1]
    /\ phase' = [phase EXCEPT ![t] = "running"]
    /\ deliveries' = IF attempts[t] = 0
                     THEN [deliveries EXCEPT ![handling[t]] = @ + 1]
                     ELSE deliveries
    /\ UNCHANGED <<context, current, pending, handling, frames, headers,
                   queue, eventVars, historyVars>>

\* Mutant: the finally block leaves the message on the thread.
LeaveAdvice_KeepsMessage(t, error) ==
    /\ receiveEvents' =
          IF local[t] = NoMessage THEN receiveEvents
          ELSE [receiveEvents EXCEPT ![local[t]] =
                    Append(@, EventOf(local[t], error))]
    /\ context' = [context EXCEPT ![t] = NoMetadata]
    /\ local' = [local EXCEPT ![t] = NoMessage]
    /\ UNCHANGED current

\* The listener returns or throws: the receive event is recorded if there
\* was a message, and the finally block clears the listener state.
LeaveAdvice(t, error) ==
    /\ receiveEvents' =
          IF local[t] = NoMessage THEN receiveEvents
          ELSE [receiveEvents EXCEPT ![local[t]] =
                    Append(@, EventOf(local[t], error))]
    /\ current' = [current EXCEPT ![t] = NoMessage]
    /\ context' = [context EXCEPT ![t] = NoMetadata]
    /\ local' = [local EXCEPT ![t] = NoMessage]

\* ... and the message is acknowledged, or given up: dropped or requeued.
FinishDelivery(t, error) ==
    /\ t \in ListenerThreads /\ phase[t] = "running" /\ frames[t] = <<>>
    /\ LeaveAdvice(t, error)
    /\ phase' = [phase EXCEPT ![t] = "idle"]
    /\ handling' = [handling EXCEPT ![t] = NoMessage]
    /\ queue' \in IF error THEN {queue, queue \cup {handling[t]}} ELSE {queue}
    /\ UNCHANGED <<pending, attempts, frames, headers, deliveries,
                   sendEvents, historyVars>>

\* ... or the retry advice around ours has an attempt left.
RetryDelivery(t) ==
    /\ t \in ListenerThreads /\ phase[t] = "running" /\ frames[t] = <<>>
    /\ attempts[t] < MaxAttempts
    /\ LeaveAdvice(t, TRUE)
    /\ phase' = [phase EXCEPT ![t] = "received"]
    /\ UNCHANGED <<pending, handling, attempts, frames, brokerVars,
                   sendEvents, historyVars>>

-----------------------------------------------------------------------------
(* Sending                                                                 *)

\* The metadata a message sent now should carry: its cause's, except where
\* the application has set a header.
Attribution(t, h) ==
    Read(ApplyContextIfAbsent(h, IF handling[t] = NoMessage THEN context[t]
                                 ELSE origin[handling[t]]))

\* RabbitTemplateSendAdvice.invoke up to proceed(): start the pending send,
\* and capture the message at once when it is an argument of the call.
StartSend(t, m, h, isArgument) ==
    /\ phase[t] = "running" /\ Len(frames[t]) < MaxNesting
    /\ fate[m] = "unsent"
    /\ headers' = [headers EXCEPT ![m] = h]
    /\ pending' = [pending EXCEPT ![t] = IF isArgument THEN m ELSE NoMessage]
    /\ frames' = [frames EXCEPT ![t] =
                    Append(@, [message |-> m, hooked |-> FALSE])]
    /\ origin' = [origin EXCEPT ![m] = Attribution(t, h)]
    /\ fate' = [fate EXCEPT ![m] = "sending"]
    /\ overlapped' = overlapped \cup {f.message : f \in ToSet(frames[t])}
    /\ UNCHANGED <<context, current, phase, handling, local, attempts, queue,
                   deliveries, eventVars>>

\* Mutant: the message is captured and the context not added.
PostProcessPublished_NoContext(t) ==
    LET frame == Last(frames[t])
    IN  /\ frames[t] # <<>> /\ ~frame.hooked
        /\ pending' = [pending EXCEPT ![t] = IF @ = NoSend THEN @
                                             ELSE frame.message]
        /\ frames' = [frames EXCEPT ![t] =
                        Append(Front(@), [frame EXCEPT !.hooked = TRUE])]
        /\ UNCHANGED <<context, current, phase, handling, local, attempts,
                       headers, queue, deliveries, eventVars, historyVars>>

\* YanoteAmqpOutboundMessagePostProcessor: add the context, capture.
PostProcessPublished(t) ==
    LET frame == Last(frames[t])
        m == frame.message
    IN  /\ frames[t] # <<>> /\ ~frame.hooked
        /\ headers' = [headers EXCEPT ![m] =
                         ApplyContextIfAbsent(@, context[t])]
        /\ pending' = [pending EXCEPT ![t] = IF @ = NoSend THEN @ ELSE m]
        /\ frames' = [frames EXCEPT ![t] =
                        Append(Front(@), [frame EXCEPT !.hooked = TRUE])]
        /\ UNCHANGED <<context, current, phase, handling, local, attempts,
                       queue, deliveries, eventVars, historyVars>>

\* Mutant: the pending send is not cleared.
EndSend_KeepsPending(t, error) ==
    LET frame == Last(frames[t])
        m == frame.message
        captured == pending[t]
    IN  /\ frames[t] # <<>>
        /\ error \/ frame.hooked
        /\ sendEvents' =
              IF captured \in {NoSend, NoMessage} THEN sendEvents
              ELSE [sendEvents EXCEPT ![captured] =
                        Append(@, EventOf(captured, error))]
        /\ frames' = [frames EXCEPT ![t] = Front(@)]
        /\ queue' = IF error THEN queue ELSE queue \cup {m}
        /\ fate' = [fate EXCEPT ![m] = IF ~error THEN "sent"
                                       ELSE IF frame.hooked THEN "failed"
                                       ELSE "failedEarly"]
        /\ UNCHANGED <<context, current, pending, phase, handling, local,
                       attempts, headers, deliveries, receiveEvents, origin,
                       overlapped>>

\* The rest of the advice, after proceed() has returned (the broker has m)
\* or thrown: record what is pending, clear it, return to the caller.
EndSend(t, error) ==
    LET frame == Last(frames[t])
        m == frame.message
        captured == pending[t]
    IN  /\ frames[t] # <<>>
        /\ error \/ frame.hooked
        /\ sendEvents' =
              IF captured \in {NoSend, NoMessage} THEN sendEvents
              ELSE [sendEvents EXCEPT ![captured] =
                        Append(@, EventOf(captured, error))]
        /\ pending' = [pending EXCEPT ![t] = NoSend]
        /\ frames' = [frames EXCEPT ![t] = Front(@)]
        /\ queue' = IF error THEN queue ELSE queue \cup {m}
        /\ fate' = [fate EXCEPT ![m] = IF ~error THEN "sent"
                                       ELSE IF frame.hooked THEN "failed"
                                       ELSE "failedEarly"]
        /\ UNCHANGED <<context, current, phase, handling, local, attempts,
                       headers, deliveries, receiveEvents, origin,
                       overlapped>>

-----------------------------------------------------------------------------

Next ==
    \E t \in Threads :
        \/ \E meta \in Callers : BeginCall(t, meta)
        \/ EndCall(t)
        \/ \E m \in Messages : PostProcessReceived(t, m)
        \/ RejectReceived(t)
        \/ EnterAdvice(t)
        \/ \E error \in BOOLEAN : FinishDelivery(t, error)
        \/ RetryDelivery(t)
        \/ \E m \in Messages, h \in ApplicationHeaders, arg \in BOOLEAN :
              StartSend(t, m, h, arg)
        \/ PostProcessPublished(t)
        \/ \E error \in BOOLEAN : EndSend(t, error)

Spec == Init /\ [][Next]_vars

-----------------------------------------------------------------------------
(* Properties                                                              *)

Events(m) == ToSet(sendEvents[m]) \cup ToSet(receiveEvents[m])

\* No metadata bleed ("shouldClearListenerContextWhenRecordingFailsAnd-
\* PreventMetadataBleed"): through any chain of calls, listeners, retries,
\* redeliveries and rejections on pooled threads, what is recorded for a
\* message is, header by header, what its cause and the application gave
\* it, or nothing.  It is never the metadata of another test.
NoForeignAttribution ==
    \A m \in Messages : \A e \in Events(m) : \A k \in {"run", "suite"} :
        e.attribution[k] \in {origin[m][k], Null}

\* The metadata of a send is complete unless a retry lost it on the way: a
\* message sent by a call, or on the first invocation of a listener whose
\* own message has its metadata, carries all of it.
AttributionKept ==
    \A t \in Threads : phase[t] = "running" /\ frames[t] # <<>> =>
        LET frame == Last(frames[t])
            cause == handling[t]
            intact == \/ cause = NoMessage
                      \/ /\ attempts[t] = 1
                         /\ Read(headers[cause]) = origin[cause]
        IN  frame.hooked /\ intact =>
                Read(headers[frame.message]) = origin[frame.message]

\* A template call is recorded once, with its outcome, if its message got as
\* far as our post-processor and no other call was made inside it.  An outer
\* call, which loses its place on the thread to the inner one, is never
\* recorded; nothing is recorded before its call is over, and a call that
\* failed before our post-processor at most as a failure.  Each delivery that
\* reached a listener gives one receive event, that of its first invocation,
\* however often the application retries it.
RecordedOnce ==
    \A m \in Messages :
        LET firstInvocation ==
              \E t \in Threads : /\ handling[t] = m /\ phase[t] = "running"
                                 /\ attempts[t] = 1
        IN  /\ Len(sendEvents[m]) <= 1
            /\ fate[m] \in {"unsent", "sending"} \/ m \in overlapped =>
                  sendEvents[m] = <<>>
            /\ fate[m] \in {"sent", "failed"} /\ m \notin overlapped =>
                  Len(sendEvents[m]) = 1
            /\ \A e \in ToSet(sendEvents[m]) : e.error = (fate[m] # "sent")
            /\ Len(receiveEvents[m]) =
                  deliveries[m] - (IF firstInvocation THEN 1 ELSE 0)

\* A thread that waits for work carries no message, metadata or send of the
\* work before, unless a post-processor after ours rejected the last message.
CleanBetweenDeliveries ==
    \A t \in Threads : phase[t] = "idle" =>
        /\ pending[t] = NoSend
        /\ current[t] = NoMessage => context[t] = NoMetadata
        /\ t \in RequestThreads => context[t] = NoMetadata

=============================================================================
