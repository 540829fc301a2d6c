-------------------------- MODULE AmqpRecorderProofs --------------------------
(***************************************************************************)
(* The RabbitMQ recorder never records a message under another test, keeps *)
(* all of its metadata unless a retry lost it, and records it once, for    *)
(* any number of pooled threads, messages, nested sends, retries,          *)
(* redeliveries and rejections.                                            *)
(***************************************************************************)
EXTENDS AmqpRecorder, SequenceTheorems, TLAPS

-----------------------------------------------------------------------------
(* The inductive invariant                                                 *)

\* What the proof needs of the types; the counters may be any numbers.
Typed ==
    /\ context \in [Threads -> Metadata]
    /\ current \in [Threads -> Messages \cup {NoMessage}]
    /\ pending \in [Threads -> Messages \cup {NoMessage, NoSend}]
    /\ phase \in [Threads -> {"idle", "received", "running"}]
    /\ handling \in [Threads -> Messages \cup {NoMessage}]
    /\ local \in [Threads -> Messages \cup {NoMessage}]
    /\ attempts \in [Threads -> Nat]
    /\ frames \in [Threads -> Seq(Frame)]
    /\ headers \in [Messages -> Headers]
    /\ queue \subseteq Messages
    /\ sendEvents \in [Messages -> Seq(Event)]
    /\ receiveEvents \in [Messages -> Seq(Event)]
    /\ origin \in [Messages -> Metadata]
    /\ fate \in [Messages -> Fates]

\* Header by header, a is b or says nothing.
Within(a, b) == \A k \in {"run", "suite"} : a[k] \in {b[k], Null}

\* The messages of the sends in progress on a thread.
Open(t) == {f.message : f \in ToSet(frames[t])}

\* The messages that have been handed to the template.
Sent == {m \in Messages : fate[m] # "unsent"}

\* A message is somewhere in the recorder only when a send of it was started.
SentInv ==
    /\ \A t \in Threads :
          /\ {current[t], handling[t], local[t]} \subseteq Sent \cup {NoMessage}
          /\ pending[t] \in Sent \cup {NoMessage, NoSend}
          /\ Open(t) \subseteq Sent
    /\ queue \subseteq Sent
    /\ \A m \in Messages \ Sent : sendEvents[m] = <<>> /\ receiveEvents[m] = <<>>

\* What a message says is what it should say, or nothing.
HeadersInv == \A m \in Sent : Within(Read(headers[m]), origin[m])

\* A listener's thread carries the metadata of its message, or nothing.
CauseInv ==
    \A t \in Threads :
        /\ t \in RequestThreads => handling[t] = NoMessage
        /\ t \in ListenerThreads /\ phase[t] # "idle" =>
              handling[t] # NoMessage /\ Within(context[t], origin[handling[t]])

\* Where the post-processor has still to add a header, the thread has what is
\* to be added, or nothing.
FrameInv ==
    \A t \in Threads : \A m \in Open(t) : \A k \in {"run", "suite"} :
        headers[m][k] = Null => context[t][k] \in {origin[m][k], Null}

\* What a thread carries in each phase.
PhaseInv ==
    \A t \in Threads :
        /\ phase[t] # "running" => frames[t] = <<>>
        /\ frames[t] = <<>> => pending[t] = NoSend
        /\ phase[t] = "received" /\ attempts[t] = 0 => current[t] # NoMessage
        /\ phase[t] = "received" => t \in ListenerThreads
        /\ phase[t] = "running" /\ t \in ListenerThreads => attempts[t] # 0
        /\ phase[t] = "idle" =>
              /\ current[t] = NoMessage => context[t] = NoMetadata
              /\ t \in RequestThreads => context[t] = NoMetadata

IInv ==
    /\ Typed
    /\ SentInv
    /\ HeadersInv
    /\ CauseInv
    /\ FrameInv
    /\ PhaseInv
    /\ NoForeignAttribution

-----------------------------------------------------------------------------
(* Metadata, headers and frames                                            *)

LEMMA ReadTyped == ASSUME NEW h \in Headers PROVE Read(h) \in Metadata
  BY UnreadableAssumption DEF Headers, Metadata, Read

LEMMA ApplyTyped ==
    ASSUME NEW h \in Headers, NEW c \in Metadata
    PROVE  /\ ApplyContextIfAbsent(h, c) \in Headers
           /\ \A k \in {"run", "suite"} :
                 ApplyContextIfAbsent(h, c)[k] = IF h[k] = Null THEN c[k] ELSE h[k]
  BY DEF Headers, Metadata, ApplyContextIfAbsent

LEMMA NoMetadataTyped ==
    /\ NoMetadata \in Metadata
    /\ \A a \in Metadata : Within(NoMetadata, a) /\ Within(a, a)
  BY DEF Metadata, NoMetadata, Within

\* What is read from a header is what the header says, if it is a name.
LEMMA ReadsAs ==
    ASSUME NEW h \in Headers, NEW k \in {"run", "suite"}
    PROVE  Read(h)[k] = IF h[k] = Unreadable THEN Null ELSE h[k]
  BY DEF Read

LEMMA MetadataReadable ==
    ASSUME NEW c \in Metadata, NEW k \in {"run", "suite"}
    PROVE  c[k] # Unreadable
  BY UnreadableAssumption DEF Metadata

LEMMA AppendFrame ==
    ASSUME NEW s \in Seq(Frame), NEW f \in Frame
    PROVE  /\ Append(s, f) \in Seq(Frame) /\ Append(s, f) # <<>>
           /\ ToSet(Append(s, f)) = ToSet(s) \cup {f}
<1>1. /\ Len(s) \in Nat /\ DOMAIN s = 1..Len(s)
      /\ Append(s, f) \in Seq(Frame) /\ Len(Append(s, f)) = Len(s) + 1
      /\ DOMAIN Append(s, f) = 1..(Len(s) + 1)
      /\ \A i \in 1..Len(s) : Append(s, f)[i] = s[i]
      /\ Append(s, f)[Len(s) + 1] = f
  BY AppendProperties, LenProperties
<1>2. Append(s, f) # <<>>
  BY <1>1
<1> QED BY <1>1, <1>2 DEF ToSet

LEMMA LastFrame ==
    ASSUME NEW s \in Seq(Frame), s # <<>>
    PROVE  /\ Last(s) \in ToSet(s) /\ Last(s) \in Frame
           /\ Front(s) \in Seq(Frame) /\ ToSet(Front(s)) \subseteq ToSet(s)
<1>1. Len(s) \in Nat \ {0} /\ DOMAIN s = 1..Len(s) /\ \A i \in 1..Len(s) : s[i] \in Frame
  BY LenProperties, ElementOfSeq, EmptySeq
<1>2. Last(s) \in ToSet(s) /\ Last(s) \in Frame
  BY <1>1 DEF Last, ToSet
<1>3. \A i \in 1..(Len(s) - 1) : s[i] \in Frame
  BY <1>1
<1>4. /\ Front(s) \in Seq(Frame)
      /\ \A i \in 1..(Len(s) - 1) : Front(s)[i] = s[1 + i - 1]
      /\ Len(Front(s)) = IF 1 <= Len(s) - 1 THEN (Len(s) - 1) - 1 + 1 ELSE 0
  BY <1>1, <1>3, SubSeqProperties DEF Front
<1>5. DOMAIN Front(s) = 1..(Len(s) - 1)
  <2>1. \A n \in Nat \ {0} : (IF 1 <= n - 1 THEN (n - 1) - 1 + 1 ELSE 0) = n - 1
    OBVIOUS
  <2>2. Len(Front(s)) = Len(s) - 1
    BY <1>1, <1>4, <2>1
  <2> QED BY <1>4, <2>2, LenProperties
<1>6. \A i \in 1..(Len(s) - 1) : Front(s)[i] = s[i] /\ i \in 1..Len(s)
  <2>1. \A n \in Nat \ {0} : \A i \in 1..(n - 1) : 1 + i - 1 = i /\ i \in 1..n
    OBVIOUS
  <2> QED BY <1>1, <1>4, <2>1
<1>7. ToSet(Front(s)) \subseteq ToSet(s)
  BY <1>1, <1>5, <1>6 DEF ToSet
<1> QED BY <1>2, <1>4, <1>7

-----------------------------------------------------------------------------
(* The steps                                                               *)

LEMMA InitiallyIInv == Init => IInv
<1> SUFFICES ASSUME Init PROVE IInv
  OBVIOUS
<1>1. Typed
  BY AmqpAssumption DEF Init, Typed, Metadata, Headers, NoMetadata, NoHeaders, Fates
<1>2. Sent = {} /\ \A t \in Threads : Open(t) = {}
  BY DEF Init, Sent, Open, ToSet
<1>3. SentInv /\ HeadersInv /\ FrameInv
  BY <1>2 DEF Init, SentInv, HeadersInv, FrameInv
<1>4. CauseInv /\ PhaseInv
  BY DEF Init, CauseInv, PhaseInv
<1>5. NoForeignAttribution
  BY DEF Init, NoForeignAttribution, Events, ToSet
<1> QED BY <1>1, <1>3, <1>4, <1>5 DEF IInv

LEMMA CallsKeep ==
    ASSUME IInv, NEW t \in Threads,
           EndCall(t) \/ \E meta \in Callers : BeginCall(t, meta)
    PROVE  IInv'
<1>1. /\ t \in RequestThreads /\ t \notin ListenerThreads
      /\ \E meta \in Metadata : context' = [context EXCEPT ![t] = meta]
      /\ \/ phase[t] = "running" /\ context' = [context EXCEPT ![t] = NoMetadata]
            /\ phase' = [phase EXCEPT ![t] = "idle"] /\ frames[t] = <<>>
         \/ phase[t] = "idle" /\ phase' = [phase EXCEPT ![t] = "running"]
      /\ UNCHANGED <<current, pending, handling, local, attempts, frames,
                     brokerVars, eventVars, historyVars>>
  BY AmqpAssumption, NoMetadataTyped DEF BeginCall, EndCall
<1>2. Typed /\ PhaseInv /\ CauseInv
  BY DEF IInv
<1>3. frames[t] = <<>>
  BY <1>1, <1>2 DEF PhaseInv
<1>4. Typed'
  BY <1>1, <1>2 DEF Typed, brokerVars, eventVars, historyVars
<1>5. SentInv' /\ HeadersInv' /\ NoForeignAttribution'
  BY <1>1 DEF IInv, SentInv, HeadersInv, NoForeignAttribution, Sent, Open, Events,
     brokerVars, eventVars, historyVars
<1>6. CauseInv'
  BY <1>1, <1>2 DEF CauseInv, Typed, historyVars
<1>7. FrameInv'
  <2> SUFFICES ASSUME NEW u \in Threads, NEW m \in Open(u), NEW k \in {"run", "suite"},
                      headers[m][k] = Null
               PROVE  context'[u][k] \in {origin[m][k], Null}
    BY <1>1 DEF FrameInv, Open, brokerVars, historyVars
  <2>1. u # t
    BY <1>3 DEF Open, ToSet
  <2>2. context'[u] = context[u]
    BY <1>1, <1>2, <2>1 DEF Typed
  <2> QED BY <2>2 DEF IInv, FrameInv
<1>8. PhaseInv'
  BY <1>1, <1>2, <1>3 DEF PhaseInv, Typed
<1> QED BY <1>4, <1>5, <1>6, <1>7, <1>8 DEF IInv

\* The container hands a message to a listener's thread.
LEMMA PostProcessReceivedKeeps ==
    ASSUME IInv, NEW t \in Threads, NEW m \in Messages, PostProcessReceived(t, m)
    PROVE  IInv'
<1>1. /\ t \in ListenerThreads /\ t \notin RequestThreads /\ phase[t] = "idle"
      /\ m \in queue /\ queue' = queue \ {m}
      /\ current' = [current EXCEPT ![t] = m]
      /\ context' = [context EXCEPT ![t] = Read(headers[m])]
      /\ handling' = [handling EXCEPT ![t] = m]
      /\ attempts' = [attempts EXCEPT ![t] = 0]
      /\ phase' = [phase EXCEPT ![t] = "received"]
      /\ UNCHANGED <<pending, local, frames, headers, deliveries, eventVars,
                     historyVars>>
  BY AmqpAssumption DEF PostProcessReceived
<1>2. Typed /\ SentInv /\ PhaseInv /\ CauseInv
  BY DEF IInv
<1>3. frames[t] = <<>> /\ m \in Sent /\ m # NoMessage
  BY <1>1, <1>2, AmqpAssumption DEF PhaseInv, SentInv
<1>4. Read(headers[m]) \in Metadata /\ Within(Read(headers[m]), origin[m])
  BY <1>2, <1>3, ReadTyped DEF IInv, Typed, HeadersInv
<1>5. Typed'
  BY <1>1, <1>2, <1>4 DEF Typed, eventVars, historyVars
<1>6. SentInv'
  BY <1>1, <1>2, <1>3 DEF SentInv, Typed, Sent, Open, eventVars, historyVars
<1>7. HeadersInv' /\ NoForeignAttribution'
  BY <1>1 DEF IInv, HeadersInv, NoForeignAttribution, Sent, Events, eventVars, historyVars
<1>8. CauseInv'
  BY <1>1, <1>2, <1>3, <1>4 DEF CauseInv, Typed, Within, historyVars
<1>9. FrameInv'
  <2> SUFFICES ASSUME NEW u \in Threads, NEW n \in Open(u), NEW k \in {"run", "suite"},
                      headers[n][k] = Null
               PROVE  context'[u][k] \in {origin[n][k], Null}
    BY <1>1 DEF FrameInv, Open, historyVars
  <2>1. u # t
    BY <1>3 DEF Open, ToSet
  <2>2. context'[u] = context[u]
    BY <1>1, <1>2, <2>1 DEF Typed
  <2> QED BY <2>2 DEF IInv, FrameInv
<1>10. PhaseInv'
  BY <1>1, <1>2, <1>3 DEF PhaseInv, Typed
<1> QED BY <1>5, <1>6, <1>7, <1>8, <1>9, <1>10 DEF IInv

\* A delivery is rejected before the listener, or reaches it.
LEMMA AdviceEntriesKeep ==
    ASSUME IInv, NEW t \in Threads, RejectReceived(t) \/ EnterAdvice(t)
    PROVE  IInv'
<1>1. /\ phase[t] = "received"
      /\ \/ /\ phase' = [phase EXCEPT ![t] = "idle"] /\ attempts[t] = 0
            /\ handling' = [handling EXCEPT ![t] = NoMessage]
            /\ UNCHANGED <<local, attempts>>
         \/ /\ phase' = [phase EXCEPT ![t] = "running"]
            /\ local' = [local EXCEPT ![t] = current[t]]
            /\ attempts' = [attempts EXCEPT ![t] = @ + 1]
            /\ UNCHANGED handling
      /\ UNCHANGED <<context, current, pending, frames, headers, queue, eventVars,
                     historyVars>>
  BY DEF RejectReceived, EnterAdvice, brokerVars
<1>2. Typed /\ SentInv /\ PhaseInv /\ CauseInv
  BY DEF IInv
<1>3. t \in ListenerThreads /\ t \notin RequestThreads /\ frames[t] = <<>>
  BY <1>1, <1>2, AmqpAssumption DEF PhaseInv
<1>4. Typed'
  <2>1. attempts' \in [Threads -> Nat]
    <3>1. attempts \in [Threads -> Nat] /\ attempts[t] + 1 \in Nat
      BY <1>2 DEF Typed
    <3> QED BY <1>1, <3>1
  <2> QED BY <1>1, <1>2, <2>1 DEF Typed, eventVars, historyVars
<1>5. SentInv'
  <2>1. /\ \A u \in Threads : /\ handling'[u] \in {handling[u], NoMessage}
                             /\ local'[u] \in {local[u], current[u]}
                             /\ Open(u)' = Open(u)
        /\ Sent' = Sent
    BY <1>1, <1>2 DEF Typed, Sent, Open, historyVars
  <2> QED BY <1>1, <1>2, <2>1 DEF SentInv, eventVars
<1>6. HeadersInv' /\ NoForeignAttribution' /\ FrameInv'
  BY <1>1 DEF IInv, HeadersInv, NoForeignAttribution, FrameInv, Sent, Open, Events,
     eventVars, historyVars
<1>7. CauseInv'
  BY <1>1, <1>2, <1>3 DEF CauseInv, Typed, historyVars
<1>8. PhaseInv'
  <2>1. attempts[t] \in Nat
    BY <1>2 DEF Typed
  <2>2. attempts[t] + 1 # 0
    BY <2>1
  <2> QED BY <1>1, <1>2, <1>3, <2>2 DEF PhaseInv, Typed
<1> QED BY <1>4, <1>5, <1>6, <1>7, <1>8 DEF IInv

\* What is recorded of a message is what its headers say.
LEMMA RecordedEvent ==
    ASSUME IInv, NEW m \in Sent, NEW error \in BOOLEAN
    PROVE  EventOf(m, error) \in Event /\ Within(EventOf(m, error).attribution, origin[m])
<1>1. m \in Messages /\ Within(Read(headers[m]), origin[m])
  BY DEF IInv, HeadersInv, Sent
<1>2. Read(headers[m]) \in Metadata
  BY <1>1, ReadTyped DEF IInv, Typed
<1> QED BY <1>1, <1>2 DEF EventOf, Event

\* An event more, or none, and the events are as they should be.
LEMMA RecordingKeeps ==
    ASSUME IInv, NEW m \in Sent, NEW e \in Event, Within(e.attribution, origin[m]),
           UNCHANGED origin,
           \/ UNCHANGED eventVars
           \/ /\ sendEvents' = [sendEvents EXCEPT ![m] = Append(@, e)]
              /\ UNCHANGED receiveEvents
           \/ /\ receiveEvents' = [receiveEvents EXCEPT ![m] = Append(@, e)]
              /\ UNCHANGED sendEvents
    PROVE  /\ NoForeignAttribution'
           /\ sendEvents' \in [Messages -> Seq(Event)]
           /\ receiveEvents' \in [Messages -> Seq(Event)]
           /\ \A n \in Messages \ Sent : sendEvents'[n] = <<>> /\ receiveEvents'[n] = <<>>
<1>1. /\ Typed /\ SentInv /\ NoForeignAttribution /\ m \in Messages
      /\ sendEvents \in [Messages -> Seq(Event)]
      /\ receiveEvents \in [Messages -> Seq(Event)]
  BY DEF IInv, Typed, Sent
<1>2. ASSUME NEW s \in Seq(Event)
      PROVE  Append(s, e) \in Seq(Event) /\ ToSet(Append(s, e)) = ToSet(s) \cup {e}
  <2>1. /\ Len(s) \in Nat /\ DOMAIN s = 1..Len(s)
        /\ Append(s, e) \in Seq(Event)
        /\ DOMAIN Append(s, e) = 1..(Len(s) + 1)
        /\ \A i \in 1..Len(s) : Append(s, e)[i] = s[i]
        /\ Append(s, e)[Len(s) + 1] = e
    BY AppendProperties, LenProperties
  <2> QED BY <2>1 DEF ToSet
<1>3. \A n \in Messages :
         \/ sendEvents'[n] = sendEvents[n] /\ receiveEvents'[n] = receiveEvents[n]
         \/ n = m /\ sendEvents'[n] = Append(sendEvents[n], e)
            /\ receiveEvents'[n] = receiveEvents[n]
         \/ n = m /\ receiveEvents'[n] = Append(receiveEvents[n], e)
            /\ sendEvents'[n] = sendEvents[n]
  BY <1>1 DEF eventVars
<1>4. /\ sendEvents' \in [Messages -> Seq(Event)]
      /\ receiveEvents' \in [Messages -> Seq(Event)]
  BY <1>1, <1>2 DEF eventVars
<1>5. NoForeignAttribution'
  <2> SUFFICES ASSUME NEW n \in Messages,
                      NEW f \in ToSet(sendEvents'[n]) \cup ToSet(receiveEvents'[n])
               PROVE  Within(f.attribution, origin[n])
    BY DEF NoForeignAttribution, Events, Within
  <2>1. \/ f \in ToSet(sendEvents[n]) \cup ToSet(receiveEvents[n])
        \/ n = m /\ f = e
    <3>1. sendEvents[n] \in Seq(Event) /\ receiveEvents[n] \in Seq(Event)
      BY <1>1
    <3>2. /\ ToSet(Append(sendEvents[n], e)) = ToSet(sendEvents[n]) \cup {e}
          /\ ToSet(Append(receiveEvents[n], e)) = ToSet(receiveEvents[n]) \cup {e}
      BY <1>2, <3>1
    <3>3. CASE sendEvents'[n] = sendEvents[n] /\ receiveEvents'[n] = receiveEvents[n]
      BY <3>3
    <3>4. CASE n = m /\ sendEvents'[n] = Append(sendEvents[n], e)
               /\ receiveEvents'[n] = receiveEvents[n]
      <4>1. f \in ToSet(Append(sendEvents[n], e)) \cup ToSet(receiveEvents[n])
        BY <3>4
      <4> QED BY <3>2, <3>4, <4>1, Zenon
    <3>5. CASE n = m /\ receiveEvents'[n] = Append(receiveEvents[n], e)
               /\ sendEvents'[n] = sendEvents[n]
      <4>1. f \in ToSet(sendEvents[n]) \cup ToSet(Append(receiveEvents[n], e))
        BY <3>5
      <4> QED BY <3>2, <3>5, <4>1, Zenon
    <3> QED BY <1>3, <3>3, <3>4, <3>5
  <2> QED BY <1>1, <2>1 DEF NoForeignAttribution, Events, Within
<1>6. \A n \in Messages \ Sent : sendEvents'[n] = <<>> /\ receiveEvents'[n] = <<>>
  BY <1>1, <1>3 DEF SentInv
<1> QED BY <1>4, <1>5, <1>6

\* A listener is done with a message, for good or until it is called again.
LEMMA DeliveryEndsKeep ==
    ASSUME IInv, NEW t \in Threads, NEW error \in BOOLEAN,
           FinishDelivery(t, error) \/ RetryDelivery(t)
    PROVE  IInv'
<1>1. /\ t \in ListenerThreads /\ t \notin RequestThreads
      /\ phase[t] = "running" /\ frames[t] = <<>>
      /\ current' = [current EXCEPT ![t] = NoMessage]
      /\ context' = [context EXCEPT ![t] = NoMetadata]
      /\ local' = [local EXCEPT ![t] = NoMessage]
      /\ UNCHANGED <<pending, attempts, frames, headers, deliveries, sendEvents,
                     historyVars>>
  BY AmqpAssumption DEF FinishDelivery, RetryDelivery, LeaveAdvice, brokerVars
<1>2. \/ /\ phase' = [phase EXCEPT ![t] = "idle"]
         /\ handling' = [handling EXCEPT ![t] = NoMessage]
         /\ queue' \in {queue, queue \cup {handling[t]}}
      \/ /\ phase' = [phase EXCEPT ![t] = "received"]
         /\ UNCHANGED <<handling, queue>>
  BY DEF FinishDelivery, RetryDelivery, brokerVars
<1>3. \E x \in BOOLEAN :
         receiveEvents' = IF local[t] = NoMessage THEN receiveEvents
                          ELSE [receiveEvents EXCEPT ![local[t]] =
                                   Append(@, EventOf(local[t], x))]
  BY DEF FinishDelivery, RetryDelivery, LeaveAdvice
<1>4. Typed /\ SentInv /\ PhaseInv /\ CauseInv
  BY DEF IInv
<1>5. handling[t] \in Sent
  BY <1>1, <1>4 DEF CauseInv, SentInv
<1>6. /\ NoForeignAttribution'
      /\ receiveEvents' \in [Messages -> Seq(Event)]
      /\ \A n \in Messages \ Sent : sendEvents'[n] = <<>> /\ receiveEvents'[n] = <<>>
  <2>1. UNCHANGED origin /\ UNCHANGED sendEvents
    BY <1>1 DEF historyVars
  <2>2. CASE local[t] = NoMessage
    <3>1. UNCHANGED eventVars
      BY <1>3, <2>1, <2>2 DEF eventVars
    <3>2. /\ EventOf(handling[t], error) \in Event
          /\ Within(EventOf(handling[t], error).attribution, origin[handling[t]])
      BY <1>5, RecordedEvent
    <3> QED BY <1>5, <2>1, <3>1, <3>2, RecordingKeeps
  <2>3. CASE local[t] # NoMessage
    <3>1. local[t] \in Sent
      BY <1>4, <2>3 DEF SentInv
    <3>2. PICK x \in BOOLEAN :
             receiveEvents' = [receiveEvents EXCEPT ![local[t]] =
                                  Append(@, EventOf(local[t], x))]
      BY <1>3, <2>3
    <3>3. /\ EventOf(local[t], x) \in Event
          /\ Within(EventOf(local[t], x).attribution, origin[local[t]])
      BY <3>1, RecordedEvent
    <3> QED BY <2>1, <3>1, <3>2, <3>3, RecordingKeeps
  <2> QED BY <2>2, <2>3
<1>7. handling[t] \in Messages /\ queue' \subseteq Messages /\ queue' \subseteq Sent
  BY <1>2, <1>4, <1>5 DEF SentInv, Sent
<1>8. Typed'
  BY <1>1, <1>2, <1>4, <1>6, <1>7, NoMetadataTyped DEF Typed, historyVars
<1>9. SentInv'
  <2>1. /\ \A u \in Threads : /\ handling'[u] \in {handling[u], NoMessage}
                             /\ local'[u] \in {local[u], NoMessage}
                             /\ current'[u] \in {current[u], NoMessage}
                             /\ Open(u)' = Open(u)
        /\ Sent' = Sent
    BY <1>1, <1>2, <1>4 DEF Typed, Sent, Open, historyVars
  <2> QED BY <1>1, <1>4, <1>6, <1>7, <2>1 DEF SentInv
<1>10. HeadersInv'
  BY <1>1 DEF IInv, HeadersInv, Sent, historyVars
<1>11. CauseInv'
  <2>1. Within(NoMetadata, origin[handling[t]])
    BY <1>4, <1>7, NoMetadataTyped DEF Typed
  <2> QED BY <1>1, <1>2, <1>4, <2>1 DEF CauseInv, Typed, historyVars
<1>12. FrameInv'
  <2> SUFFICES ASSUME NEW u \in Threads, NEW n \in Open(u), NEW k \in {"run", "suite"},
                      headers[n][k] = Null
               PROVE  context'[u][k] \in {origin[n][k], Null}
    BY <1>1 DEF FrameInv, Open, historyVars
  <2>1. u # t
    BY <1>1 DEF Open, ToSet
  <2>2. context'[u] = context[u]
    BY <1>1, <1>4, <2>1 DEF Typed
  <2> QED BY <2>2 DEF IInv, FrameInv
<1>13. PhaseInv'
  BY <1>1, <1>2, <1>4 DEF PhaseInv, Typed
<1> QED BY <1>6, <1>8, <1>9, <1>10, <1>11, <1>12, <1>13 DEF IInv

\* What a message that is sent now should carry: what its headers say, and
\* where they say nothing, what the thread carries, unless a retry lost it.
LEMMA AttributionOfSend ==
    ASSUME IInv, NEW t \in Threads, phase[t] = "running", NEW h \in ApplicationHeaders
    PROVE  /\ h \in Headers /\ Attribution(t, h) \in Metadata
           /\ Within(Read(h), Attribution(t, h))
           /\ \A k \in {"run", "suite"} :
                 h[k] = Null => context[t][k] \in {Attribution(t, h)[k], Null}
<1> DEFINE cause == IF handling[t] = NoMessage THEN context[t] ELSE origin[handling[t]]
           applied == ApplyContextIfAbsent(h, cause)
<1>1. Typed /\ CauseInv /\ h \in Headers
  BY AmqpAssumption DEF IInv
<1>2. cause \in Metadata /\ Within(context[t], cause)
  <2>1. CASE handling[t] = NoMessage
    BY <1>1, <2>1, NoMetadataTyped DEF Typed
  <2>2. CASE handling[t] # NoMessage
    BY <1>1, <2>2 DEF Typed, CauseInv, Threads
  <2> QED BY <2>1, <2>2
<1>3. Attribution(t, h) = Read(applied)
  BY DEF Attribution
<1> HIDE DEF cause
<1>4. /\ applied \in Headers
      /\ \A k \in {"run", "suite"} : applied[k] = IF h[k] = Null THEN cause[k] ELSE h[k]
  BY <1>1, <1>2, ApplyTyped
<1> HIDE DEF applied
<1>5. ASSUME NEW k \in {"run", "suite"}
      PROVE  /\ Read(h)[k] \in {Read(applied)[k], Null}
             /\ h[k] = Null => context[t][k] \in {Read(applied)[k], Null}
  <2>1. /\ Read(h)[k] = IF h[k] = Unreadable THEN Null ELSE h[k]
        /\ Read(applied)[k] = IF applied[k] = Unreadable THEN Null ELSE applied[k]
    BY <1>1, <1>4, ReadsAs
  <2>2. cause[k] # Unreadable /\ context[t][k] \in {cause[k], Null}
    BY <1>2, MetadataReadable DEF Within
  <2>3. Null # Unreadable
    BY UnreadableAssumption
  <2> QED BY <1>4, <2>1, <2>2, <2>3
<1>6. Read(applied) \in Metadata
  BY <1>4, ReadTyped
<1> QED BY <1>1, <1>3, <1>5, <1>6 DEF Within

LEMMA StartSendKeeps ==
    ASSUME IInv, NEW t \in Threads, NEW m \in Messages, NEW h \in ApplicationHeaders,
           NEW arg \in BOOLEAN, StartSend(t, m, h, arg)
    PROVE  IInv'
<1> DEFINE f == [message |-> m, hooked |-> FALSE]
<1>1. /\ phase[t] = "running" /\ fate[m] = "unsent"
      /\ headers' = [headers EXCEPT ![m] = h]
      /\ pending' = [pending EXCEPT ![t] = IF arg THEN m ELSE NoMessage]
      /\ frames' = [frames EXCEPT ![t] = Append(@, f)]
      /\ origin' = [origin EXCEPT ![m] = Attribution(t, h)]
      /\ fate' = [fate EXCEPT ![m] = "sending"]
      /\ UNCHANGED <<context, current, phase, handling, local, attempts, queue,
                     deliveries, eventVars>>
  BY DEF StartSend
<1>2. Typed /\ SentInv /\ PhaseInv /\ CauseInv /\ FrameInv
  BY DEF IInv
<1>3. m \notin Sent /\ Sent' = Sent \cup {m} /\ Sent \subseteq Messages
  BY <1>1, <1>2 DEF Typed, Sent
<1>4. /\ h \in Headers /\ Attribution(t, h) \in Metadata
      /\ Within(Read(h), Attribution(t, h))
      /\ \A k \in {"run", "suite"} :
            h[k] = Null => context[t][k] \in {Attribution(t, h)[k], Null}
  BY <1>1, AttributionOfSend
<1>5. /\ f \in Frame /\ f.message = m
  BY DEF Frame
<1>6. /\ frames[t] \in Seq(Frame)
      /\ Append(frames[t], f) \in Seq(Frame) /\ Append(frames[t], f) # <<>>
      /\ ToSet(Append(frames[t], f)) = ToSet(frames[t]) \cup {f}
  <2>1. frames[t] \in Seq(Frame)
    BY <1>2 DEF Typed
  <2> QED BY <1>5, <2>1, AppendFrame
<1> HIDE DEF f
<1>7. \A u \in Threads : Open(u)' = IF u = t THEN Open(u) \cup {m} ELSE Open(u)
  <2>1. \A u \in Threads : u # t => frames'[u] = frames[u]
    BY <1>1, <1>2 DEF Typed
  <2>2. ToSet(frames'[t]) = ToSet(frames[t]) \cup {f}
    BY <1>1, <1>2, <1>6 DEF Typed
  <2>3. Open(t)' = Open(t) \cup {m}
    BY <1>5, <2>2 DEF Open
  <2> QED BY <2>1, <2>3 DEF Open
<1>8. Typed'
  <2>1. frames' \in [Threads -> Seq(Frame)]
    BY <1>1, <1>2, <1>6 DEF Typed
  <2> QED BY <1>1, <1>2, <1>4, <2>1 DEF Typed, Fates, eventVars
<1>9. SentInv'
  <2>1. \A u \in Threads : pending'[u] \in {pending[u], m, NoMessage}
    BY <1>1, <1>2 DEF Typed
  <2> QED BY <1>1, <1>2, <1>3, <1>7, <2>1 DEF SentInv, eventVars
<1>10. \A n \in Messages : n # m => origin'[n] = origin[n] /\ headers'[n] = headers[n]
  BY <1>1, <1>2 DEF Typed
<1>11. origin'[m] = Attribution(t, h) /\ headers'[m] = h
  BY <1>1, <1>2 DEF Typed
<1>12. HeadersInv'
  <2> SUFFICES ASSUME NEW n \in Sent \cup {m}
               PROVE  Within(Read(headers'[n]), origin'[n])
    BY <1>3 DEF HeadersInv, Within, Read
  <2>1. CASE n = m
    BY <1>4, <1>11, <2>1
  <2>2. CASE n # m
    BY <1>3, <1>10, <2>2 DEF IInv, HeadersInv
  <2> QED BY <2>1, <2>2
<1>13. CauseInv'
  <2>1. \A u \in Threads : handling[u] # NoMessage => origin'[handling[u]] = origin[handling[u]]
    BY <1>2, <1>3, <1>10 DEF SentInv
  <2> QED BY <1>1, <1>2, <2>1 DEF CauseInv, Within
<1>14. FrameInv'
  <2> SUFFICES ASSUME NEW u \in Threads, NEW n \in Open(u)', NEW k \in {"run", "suite"},
                      headers'[n][k] = Null
               PROVE  context[u][k] \in {origin'[n][k], Null}
    BY <1>1 DEF FrameInv
  <2>1. CASE n = m
    <3>1. u = t
      BY <1>2, <1>3, <1>7, <2>1 DEF SentInv
    <3> QED BY <1>4, <1>11, <2>1, <3>1
  <2>2. CASE n # m
    <3>1. n \in Open(u) /\ n \in Messages
      BY <1>2, <1>3, <1>7, <2>2 DEF SentInv
    <3> QED BY <1>2, <1>10, <2>2, <3>1 DEF FrameInv
  <2> QED BY <2>1, <2>2
<1>15. PhaseInv'
  <2>1. \A u \in Threads : frames'[u] = <<>> => u # t /\ frames[u] = <<>>
    BY <1>1, <1>2, <1>6 DEF Typed
  <2>2. \A u \in Threads : u # t => frames'[u] = frames[u] /\ pending'[u] = pending[u]
    BY <1>1, <1>2 DEF Typed
  <2> QED BY <1>1, <1>2, <2>1, <2>2 DEF PhaseInv
<1>16. NoForeignAttribution'
  <2> SUFFICES ASSUME NEW n \in Messages,
                      NEW e \in ToSet(sendEvents[n]) \cup ToSet(receiveEvents[n])
               PROVE  Within(e.attribution, origin'[n])
    BY <1>1 DEF NoForeignAttribution, Events, Within, eventVars
  <2>1. n # m
    BY <1>2, <1>3 DEF SentInv, ToSet
  <2> QED BY <1>10, <2>1 DEF IInv, NoForeignAttribution, Events, Within
<1> QED BY <1>8, <1>9, <1>12, <1>13, <1>14, <1>15, <1>16 DEF IInv

\* The post-processor adds what the thread carries where nothing is set.
LEMMA PostProcessPublishedKeeps ==
    ASSUME IInv, NEW t \in Threads, PostProcessPublished(t)
    PROVE  IInv'
<1> DEFINE frame == Last(frames[t])
           m == frame.message
           f == [frame EXCEPT !.hooked = TRUE]
           added == ApplyContextIfAbsent(headers[m], context[t])
<1>1. /\ frames[t] # <<>>
      /\ headers' = [headers EXCEPT ![m] = added]
      /\ pending' = [pending EXCEPT ![t] = IF @ = NoSend THEN @ ELSE m]
      /\ frames' = [frames EXCEPT ![t] = Append(Front(@), f)]
      /\ UNCHANGED <<context, current, phase, handling, local, attempts, queue,
                     deliveries, eventVars, historyVars>>
  BY DEF PostProcessPublished
<1>2. Typed /\ SentInv /\ PhaseInv /\ CauseInv /\ FrameInv /\ HeadersInv
  BY DEF IInv
<1>3. /\ frame \in ToSet(frames[t]) /\ frame \in Frame
      /\ Front(frames[t]) \in Seq(Frame) /\ ToSet(Front(frames[t])) \subseteq ToSet(frames[t])
  <2>1. frames[t] \in Seq(Frame)
    BY <1>2 DEF Typed
  <2> QED BY <1>1, <2>1, LastFrame
<1>4. /\ m \in Open(t) /\ m \in Sent /\ m \in Messages
  BY <1>2, <1>3 DEF Open, SentInv, Sent
<1>5. f \in Frame /\ f.message = m
  BY <1>3 DEF Frame
<1>6. /\ Append(Front(frames[t]), f) \in Seq(Frame) /\ Append(Front(frames[t]), f) # <<>>
      /\ ToSet(Append(Front(frames[t]), f)) = ToSet(Front(frames[t])) \cup {f}
  BY <1>3, <1>5, AppendFrame
<1>7. /\ headers[m] \in Headers /\ context[t] \in Metadata
      /\ added \in Headers
      /\ \A k \in {"run", "suite"} :
            added[k] = IF headers[m][k] = Null THEN context[t][k] ELSE headers[m][k]
  <2>1. headers[m] \in Headers /\ context[t] \in Metadata
    BY <1>2, <1>4 DEF Typed
  <2> QED BY <2>1, ApplyTyped
<1> HIDE DEF frame, m, f, added
<1>8. Within(Read(added), origin[m])
  <2> SUFFICES ASSUME NEW k \in {"run", "suite"}
               PROVE  Read(added)[k] \in {origin[m][k], Null}
    BY DEF Within
  <2>1. /\ Read(added)[k] = IF added[k] = Unreadable THEN Null ELSE added[k]
        /\ Read(headers[m])[k] = IF headers[m][k] = Unreadable THEN Null ELSE headers[m][k]
    BY <1>7, ReadsAs
  <2>2. Read(headers[m])[k] \in {origin[m][k], Null}
    BY <1>2, <1>4 DEF HeadersInv, Within
  <2>3. headers[m][k] = Null => context[t][k] \in {origin[m][k], Null}
    BY <1>2, <1>4 DEF FrameInv
  <2> QED BY <1>7, <2>1, <2>2, <2>3
<1>9. \A u \in Threads : Open(u)' \subseteq Open(u)
  <2>1. \A u \in Threads : u # t => frames'[u] = frames[u]
    BY <1>1, <1>2 DEF Typed
  <2>2. ToSet(frames'[t]) \subseteq ToSet(frames[t]) \cup {f}
    BY <1>1, <1>2, <1>3, <1>6 DEF Typed
  <2>3. Open(t)' \subseteq Open(t)
    BY <1>4, <1>5, <2>2 DEF Open
  <2> QED BY <2>1, <2>3 DEF Open
<1>10. Typed'
  <2>1. frames' \in [Threads -> Seq(Frame)] /\ headers' \in [Messages -> Headers]
    BY <1>1, <1>2, <1>6, <1>7 DEF Typed
  <2> QED BY <1>1, <1>2, <1>4, <2>1 DEF Typed, eventVars, historyVars
<1>11. Sent' = Sent
  BY <1>1 DEF Sent, historyVars
<1>12. SentInv'
  <2>1. \A u \in Threads : pending'[u] \in {pending[u], m}
    BY <1>1, <1>2 DEF Typed
  <2> QED BY <1>1, <1>2, <1>4, <1>9, <1>11, <2>1 DEF SentInv, eventVars
<1>13. HeadersInv'
  <2> SUFFICES ASSUME NEW n \in Sent PROVE Within(Read(headers'[n]), origin[n])
    BY <1>1, <1>11 DEF HeadersInv, Within, Read, historyVars
  <2>1. headers'[n] = IF n = m THEN added ELSE headers[n]
    BY <1>1, <1>2 DEF Typed, Sent
  <2> QED BY <1>2, <1>8, <2>1 DEF HeadersInv
<1>14. CauseInv' /\ NoForeignAttribution'
  BY <1>1 DEF IInv, CauseInv, NoForeignAttribution, Events, eventVars, historyVars
<1>15. FrameInv'
  <2> SUFFICES ASSUME NEW u \in Threads, NEW n \in Open(u)', NEW k \in {"run", "suite"},
                      headers'[n][k] = Null
               PROVE  context[u][k] \in {origin[n][k], Null}
    BY <1>1 DEF FrameInv, historyVars
  <2>1. n \in Open(u) /\ n \in Messages
    BY <1>2, <1>9 DEF SentInv, Sent
  <2>2. headers[n][k] = Null
    <3>1. headers'[n] = IF n = m THEN added ELSE headers[n]
      BY <1>1, <1>2, <2>1 DEF Typed
    <3> QED BY <1>7, <3>1
  <2> QED BY <1>2, <2>1, <2>2 DEF FrameInv
<1>16. PhaseInv'
  <2>1. \A u \in Threads : frames'[u] = <<>> => u # t /\ frames[u] = <<>>
    BY <1>1, <1>2, <1>6 DEF Typed
  <2>2. \A u \in Threads : u # t => frames'[u] = frames[u] /\ pending'[u] = pending[u]
    BY <1>1, <1>2 DEF Typed
  <2> QED BY <1>1, <1>2, <2>1, <2>2 DEF PhaseInv
<1> QED BY <1>10, <1>12, <1>13, <1>14, <1>15, <1>16 DEF IInv

\* A call of the template returns or throws, and what was captured is recorded.
LEMMA EndSendKeeps ==
    ASSUME IInv, NEW t \in Threads, NEW error \in BOOLEAN, EndSend(t, error)
    PROVE  IInv'
<1> DEFINE frame == Last(frames[t])
           m == frame.message
           captured == pending[t]
<1>1. /\ frames[t] # <<>>
      /\ sendEvents' =
            IF captured \in {NoSend, NoMessage} THEN sendEvents
            ELSE [sendEvents EXCEPT ![captured] = Append(@, EventOf(captured, error))]
      /\ pending' = [pending EXCEPT ![t] = NoSend]
      /\ frames' = [frames EXCEPT ![t] = Front(@)]
      /\ queue' \subseteq queue \cup {m}
      /\ \E how \in Fates \ {"unsent"} : fate' = [fate EXCEPT ![m] = how]
      /\ UNCHANGED <<context, current, phase, handling, local, attempts,
                     headers, deliveries, receiveEvents, origin>>
  <2> DEFINE how == IF ~error THEN "sent" ELSE IF frame.hooked THEN "failed" ELSE "failedEarly"
  <2>1. how \in Fates \ {"unsent"}
    BY DEF Fates
  <2>2. fate' = [fate EXCEPT ![m] = how]
    BY DEF EndSend
  <2>3. queue' \subseteq queue \cup {m}
    BY DEF EndSend
  <2> QED BY <2>1, <2>2, <2>3 DEF EndSend
<1>2. Typed /\ SentInv /\ PhaseInv /\ CauseInv /\ FrameInv
  BY DEF IInv
<1>3. /\ frame \in ToSet(frames[t])
      /\ Front(frames[t]) \in Seq(Frame) /\ ToSet(Front(frames[t])) \subseteq ToSet(frames[t])
  <2>1. frames[t] \in Seq(Frame)
    BY <1>2 DEF Typed
  <2> QED BY <1>1, <2>1, LastFrame
<1>4. m \in Sent /\ m \in Messages
  BY <1>2, <1>3 DEF Open, SentInv, Sent
<1> HIDE DEF frame, m
<1>5. Sent' = Sent
  <2> PICK how \in Fates \ {"unsent"} : fate' = [fate EXCEPT ![m] = how]
    BY <1>1
  <2> QED BY <1>2, <1>4 DEF Typed, Sent
<1>6. \A u \in Threads : Open(u)' \subseteq Open(u)
  <2>1. \A u \in Threads : frames'[u] = IF u = t THEN Front(frames[u]) ELSE frames[u]
    BY <1>1, <1>2 DEF Typed
  <2> QED BY <1>3, <2>1 DEF Open
<1>7. /\ NoForeignAttribution'
      /\ sendEvents' \in [Messages -> Seq(Event)]
      /\ \A n \in Messages \ Sent : sendEvents'[n] = <<>> /\ receiveEvents'[n] = <<>>
  <2>1. CASE captured \in {NoSend, NoMessage}
    <3>1. UNCHANGED eventVars /\ UNCHANGED origin
      BY <1>1, <2>1 DEF eventVars
    <3>2. EventOf(m, error) \in Event /\ Within(EventOf(m, error).attribution, origin[m])
      BY <1>4, RecordedEvent
    <3> QED BY <1>4, <3>1, <3>2, RecordingKeeps
  <2>2. CASE captured \notin {NoSend, NoMessage}
    <3>1. captured \in Sent
      BY <1>2, <2>2 DEF SentInv
    <3>2. /\ EventOf(captured, error) \in Event
          /\ Within(EventOf(captured, error).attribution, origin[captured])
      BY <3>1, RecordedEvent
    <3> HIDE DEF captured
    <3> QED BY <1>1, <2>2, <3>1, <3>2, RecordingKeeps
  <2> QED BY <2>1, <2>2
<1>8. Typed'
  <2>1. /\ frames' \in [Threads -> Seq(Frame)] /\ fate' \in [Messages -> Fates]
        /\ queue' \subseteq Messages
    BY <1>1, <1>2, <1>3, <1>4 DEF Typed
  <2> QED BY <1>1, <1>2, <1>7, <2>1 DEF Typed
<1>9. SentInv'
  <2>1. \A u \in Threads : pending'[u] \in {pending[u], NoSend}
    BY <1>1, <1>2 DEF Typed
  <2> QED BY <1>1, <1>2, <1>4, <1>5, <1>6, <1>7, <2>1 DEF SentInv
<1>10. HeadersInv' /\ CauseInv'
  BY <1>1, <1>2, <1>5 DEF IInv, HeadersInv, CauseInv
<1>11. FrameInv'
  BY <1>1, <1>2, <1>6 DEF FrameInv
<1>12. PhaseInv'
  <2>1. phase[t] = "running"
    BY <1>1, <1>2 DEF PhaseInv
  <2>2. \A u \in Threads : u # t => frames'[u] = frames[u] /\ pending'[u] = pending[u]
    BY <1>1, <1>2 DEF Typed
  <2>3. pending'[t] = NoSend
    BY <1>1, <1>2 DEF Typed
  <2> QED BY <1>1, <1>2, <2>1, <2>2, <2>3 DEF PhaseInv
<1> QED BY <1>7, <1>8, <1>9, <1>10, <1>11, <1>12 DEF IInv

-----------------------------------------------------------------------------
(* The theorems                                                            *)

LEMMA StepKeepsIInv == IInv /\ [Next]_vars => IInv'
<1> SUFFICES ASSUME IInv, [Next]_vars PROVE IInv'
  OBVIOUS
<1>1. CASE UNCHANGED vars
  BY <1>1 DEF IInv, Typed, SentInv, HeadersInv, CauseInv, FrameInv, PhaseInv, Sent, Open,
     NoForeignAttribution, Events, vars, threadVars, brokerVars, eventVars, historyVars
<1>2. CASE \E t \in Threads : EndCall(t) \/ \E meta \in Callers : BeginCall(t, meta)
  BY <1>2, CallsKeep
<1>3. CASE \E t \in Threads, m \in Messages : PostProcessReceived(t, m)
  BY <1>3, PostProcessReceivedKeeps
<1>4. CASE \E t \in Threads : RejectReceived(t) \/ EnterAdvice(t)
  BY <1>4, AdviceEntriesKeep
<1>5. CASE \E t \in Threads :
              RetryDelivery(t) \/ \E error \in BOOLEAN : FinishDelivery(t, error)
  BY <1>5, DeliveryEndsKeep
<1>6. CASE \E t \in Threads, m \in Messages, h \in ApplicationHeaders, arg \in BOOLEAN :
              StartSend(t, m, h, arg)
  BY <1>6, StartSendKeeps
<1>7. CASE \E t \in Threads : PostProcessPublished(t)
  BY <1>7, PostProcessPublishedKeeps
<1>8. CASE \E t \in Threads, error \in BOOLEAN : EndSend(t, error)
  BY <1>8, EndSendKeeps
<1> QED BY <1>1, <1>2, <1>3, <1>4, <1>5, <1>6, <1>7, <1>8 DEF Next

THEOREM AmqpInductive == Spec => []IInv
  BY InitiallyIInv, StepKeepsIInv, PTL DEF Spec

\* What is recorded for a message is, header by header, what its cause and
\* the application gave it, or nothing; never the metadata of another test.
THEOREM AmqpNoForeignAttribution == Spec => []NoForeignAttribution
<1>1. IInv => NoForeignAttribution
  BY DEF IInv
<1> QED BY <1>1, AmqpInductive, PTL

\* A thread that waits for work carries no send of the work before, and
\* metadata only with the message that a later post-processor rejected.
THEOREM AmqpCleanBetweenDeliveries == Spec => []CleanBetweenDeliveries
<1>1. IInv => CleanBetweenDeliveries
  BY DEF IInv, PhaseInv, CleanBetweenDeliveries
<1> QED BY <1>1, AmqpInductive, PTL

-----------------------------------------------------------------------------
(* How often a message is recorded, and what its headers keep: the second   *)
(* inductive invariant.  It says where each message is, so that the steps   *)
(* of two threads are never about the same one.                             *)

\* The sends in progress are of messages of their own.
FlowInv ==
    /\ \A t \in Threads : \A i \in 1..Len(frames[t]) :
          fate[frames[t][i].message] = "sending"
    /\ \A t, u \in Threads : \A i \in 1..Len(frames[t]) : \A j \in 1..Len(frames[u]) :
          frames[t][i].message = frames[u][j].message => t = u /\ i = j
    /\ \A m \in queue : fate[m] = "sent"
    /\ \A t \in Threads : handling[t] # NoMessage =>
          /\ fate[handling[t]] = "sent" /\ handling[t] \notin queue
          /\ phase[t] # "idle"
          /\ \A u \in Threads : handling[u] = handling[t] => u = t

\* The listener is first called with its message and the message's metadata
\* on the thread; a retry finds neither.
FirstCall(t) ==
    \/ phase[t] = "received" /\ attempts[t] = 0
    \/ phase[t] = "running" /\ attempts[t] = 1

ListenInv ==
    /\ deliveries \in [Messages -> Nat]
    /\ \A t \in Threads : handling[t] # NoMessage =>
          /\ FirstCall(t) => context[t] = Read(headers[handling[t]])
          /\ phase[t] = "received" =>
                current[t] = IF attempts[t] = 0 THEN handling[t] ELSE NoMessage
          /\ phase[t] = "running" =>
                local[t] = IF attempts[t] = 1 THEN handling[t] ELSE NoMessage

\* What is pending is the innermost message, or nothing if another send was
\* made inside its call; the messages of the outer calls are marked.
PendingInv ==
    \A t \in Threads : frames[t] # <<>> =>
        LET f == Last(frames[t])
        IN  /\ pending[t] \in {NoSend, NoMessage, f.message}
            /\ pending[t] = NoSend <=> f.message \in overlapped
            /\ f.hooked => pending[t] # NoMessage
            /\ \A i \in 1..(Len(frames[t]) - 1) : frames[t][i].message \in overlapped

\* The metadata a thread should add to what it sends ...
Cause(t) == IF handling[t] = NoMessage THEN context[t] ELSE origin[handling[t]]

\* ... and whether it still has all of it.
Intact(t) ==
    \/ handling[t] = NoMessage
    \/ attempts[t] = 1 /\ Read(headers[handling[t]]) = origin[handling[t]]

\* Before the post-processor a message has its application's headers, and
\* after it, if nothing was lost on the thread, all it should have.
Kept(t, f) ==
    /\ ~f.hooked => origin[f.message]
                       = Read(ApplyContextIfAbsent(headers[f.message], Cause(t)))
    /\ f.hooked /\ Intact(t) => Read(headers[f.message]) = origin[f.message]

KeptInv == \A t \in Threads : \A i \in 1..Len(frames[t]) : Kept(t, frames[t][i])

\* RecordedOnce, for what is sent ...
SendInv ==
    \A m \in Messages :
        /\ m \in overlapped => fate[m] # "unsent"
        /\ Len(sendEvents[m]) <= 1
        /\ fate[m] \in {"unsent", "sending"} \/ m \in overlapped =>
              sendEvents[m] = <<>>
        /\ fate[m] \in {"sent", "failed"} /\ m \notin overlapped =>
              Len(sendEvents[m]) = 1
        /\ sendEvents[m] # <<>> => sendEvents[m][1].error = (fate[m] # "sent")

\* ... and for what is received.
FirstInvocation(m) ==
    \E t \in Threads : handling[t] = m /\ phase[t] = "running" /\ attempts[t] = 1

ReceiveInv ==
    \A m \in Messages :
        deliveries[m] = Len(receiveEvents[m]) + (IF FirstInvocation(m) THEN 1 ELSE 0)

RInv == FlowInv /\ ListenInv /\ PendingInv /\ KeptInv /\ SendInv /\ ReceiveInv

LEMMA InitiallyRInv == Init => RInv
<1> SUFFICES ASSUME Init PROVE RInv
  OBVIOUS
<1>1. FlowInv /\ PendingInv /\ KeptInv
  BY DEF Init, FlowInv, PendingInv, KeptInv
<1>2. ListenInv
  BY DEF Init, ListenInv
<1>3. SendInv
  BY DEF Init, SendInv
<1>4. ReceiveInv
  BY DEF Init, ReceiveInv, FirstInvocation
<1> QED BY <1>1, <1>2, <1>3, <1>4 DEF RInv

\* The invariant says how often a message is recorded ...
LEMMA RInvRecordsOnce == IInv /\ RInv => RecordedOnce
<1> SUFFICES ASSUME IInv, RInv, NEW m \in Messages
             PROVE  /\ Len(sendEvents[m]) <= 1
                    /\ fate[m] \in {"unsent", "sending"} \/ m \in overlapped =>
                          sendEvents[m] = <<>>
                    /\ fate[m] \in {"sent", "failed"} /\ m \notin overlapped =>
                          Len(sendEvents[m]) = 1
                    /\ \A e \in ToSet(sendEvents[m]) : e.error = (fate[m] # "sent")
                    /\ Len(receiveEvents[m]) =
                          deliveries[m] - (IF FirstInvocation(m) THEN 1 ELSE 0)
  BY DEF RecordedOnce, FirstInvocation
<1>1. SendInv /\ ReceiveInv
  BY DEF RInv
<1>2. Len(receiveEvents[m]) \in Nat
  BY LenProperties DEF IInv, Typed
<1>3. \A a, b, c \in Nat : a = b + c => b = a - c
  OBVIOUS
<1>4. Len(receiveEvents[m]) = deliveries[m] - (IF FirstInvocation(m) THEN 1 ELSE 0)
  <2>1. deliveries[m] = Len(receiveEvents[m]) + (IF FirstInvocation(m) THEN 1 ELSE 0)
    BY <1>1 DEF ReceiveInv
  <2>2. CASE FirstInvocation(m)
    BY <1>2, <2>1, <2>2
  <2>3. CASE ~FirstInvocation(m)
    BY <1>2, <2>1, <2>3
  <2> QED BY <2>2, <2>3
<1>5. \A e \in ToSet(sendEvents[m]) : e.error = (fate[m] # "sent")
  <2> SUFFICES ASSUME NEW e \in ToSet(sendEvents[m]) PROVE e.error = (fate[m] # "sent")
    OBVIOUS
  <2>1. sendEvents[m] \in Seq(Event) /\ Len(sendEvents[m]) <= 1
    BY <1>1 DEF IInv, Typed, SendInv
  <2>2. PICK i \in 1..Len(sendEvents[m]) : e = sendEvents[m][i]
    BY <2>1, LenProperties DEF ToSet
  <2>3. Len(sendEvents[m]) \in Nat /\ i = 1 /\ sendEvents[m] # <<>>
    BY <2>1, <2>2, LenProperties, EmptySeq
  <2> QED BY <1>1, <2>2, <2>3 DEF SendInv
<1> QED BY <1>1, <1>4, <1>5 DEF SendInv

\* ... and that what the post-processor leaves on it is complete.
LEMMA RInvKeepsAttribution == IInv /\ RInv => AttributionKept
<1> SUFFICES ASSUME IInv, RInv, NEW t \in Threads, phase[t] = "running", frames[t] # <<>>,
                    Last(frames[t]).hooked, Intact(t)
             PROVE  Read(headers[Last(frames[t]).message]) = origin[Last(frames[t]).message]
  BY DEF AttributionKept, Intact
<1>1. frames[t] \in Seq(Frame)
  BY DEF IInv, Typed
<1>2. Len(frames[t]) \in 1..Len(frames[t])
  <2>1. Len(frames[t]) \in Nat \ {0}
    BY <1>1, LenProperties, EmptySeq
  <2> QED BY <2>1
<1>3. Last(frames[t]) = frames[t][Len(frames[t])]
  BY DEF Last
<1> QED BY <1>2, <1>3 DEF RInv, KeptInv, Kept

-----------------------------------------------------------------------------
(* The steps, once more                                                    *)

\* A step of a thread that has no send in progress leaves those of the others.
LEMMA OutsideSendsKeep ==
    ASSUME IInv, RInv, NEW t \in Threads, frames[t] = <<>>,
           UNCHANGED <<pending, frames, headers, historyVars>>,
           \A u \in Threads \ {t} : /\ context'[u] = context[u]
                                    /\ handling'[u] = handling[u]
                                    /\ attempts'[u] = attempts[u]
    PROVE  PendingInv' /\ KeptInv'
<1>1. PendingInv'
  BY DEF RInv, PendingInv, historyVars
<1>2. KeptInv'
  <2>1. ASSUME NEW u \in Threads, NEW i \in 1..Len(frames[u])
        PROVE  Kept(u, frames[u][i])'
    <3>1. u # t
      OBVIOUS
    <3>2. Cause(u)' = Cause(u)
      BY <3>1 DEF Cause, historyVars
    <3>3. Intact(u)' = Intact(u)
      BY <3>1 DEF Intact, Read, historyVars
    <3>4. Kept(u, frames[u][i])
      BY DEF RInv, KeptInv
    <3>5. UNCHANGED <<headers, frames, origin>>
      BY DEF historyVars
    <3> QED BY <3>2, <3>3, <3>4, <3>5 DEF Kept
  <2> QED BY <2>1 DEF KeptInv
<1> QED BY <1>1, <1>2

LEMMA CallsKeepR ==
    ASSUME IInv, RInv, NEW t \in Threads,
           EndCall(t) \/ \E meta \in Callers : BeginCall(t, meta)
    PROVE  RInv'
<1>1. /\ t \in RequestThreads /\ t \notin ListenerThreads
      /\ \E meta : context' = [context EXCEPT ![t] = meta]
      /\ \E p : phase' = [phase EXCEPT ![t] = p]
      /\ (phase[t] = "running" /\ frames[t] = <<>>) \/ phase[t] = "idle"
      /\ UNCHANGED <<current, pending, handling, local, attempts, frames,
                     brokerVars, eventVars, historyVars>>
  BY AmqpAssumption DEF BeginCall, EndCall
<1>2. /\ Typed /\ PhaseInv /\ CauseInv
      /\ FlowInv /\ ListenInv /\ SendInv /\ ReceiveInv
  BY DEF IInv, RInv
<1>3. frames[t] = <<>> /\ handling[t] = NoMessage
  BY <1>1, <1>2 DEF PhaseInv, CauseInv
<1>4. \A u \in Threads \ {t} : context'[u] = context[u] /\ phase'[u] = phase[u]
  BY <1>1, <1>2 DEF Typed
<1>5. PendingInv' /\ KeptInv'
  BY <1>1, <1>3, <1>4, OutsideSendsKeep DEF brokerVars
<1>6. FlowInv'
  BY <1>1, <1>2, <1>3, <1>4 DEF FlowInv, brokerVars, historyVars
<1>7. ListenInv'
  BY <1>1, <1>2, <1>3, <1>4 DEF ListenInv, FirstCall, Read, brokerVars
<1>8. SendInv'
  BY <1>1, <1>2 DEF SendInv, eventVars, historyVars
<1>9. ReceiveInv'
  <2>1. \A m \in Messages : FirstInvocation(m)' = FirstInvocation(m)
    BY <1>1, <1>3, <1>4, AmqpAssumption DEF FirstInvocation
  <2> QED BY <1>1, <1>2, <2>1 DEF ReceiveInv, brokerVars, eventVars
<1> QED BY <1>5, <1>6, <1>7, <1>8, <1>9 DEF RInv

LEMMA PostProcessReceivedKeepsR ==
    ASSUME IInv, RInv, NEW t \in Threads, NEW m \in Messages, PostProcessReceived(t, m)
    PROVE  RInv'
<1>1. /\ t \in ListenerThreads /\ phase[t] = "idle"
      /\ m \in queue /\ queue' = queue \ {m}
      /\ current' = [current EXCEPT ![t] = m]
      /\ context' = [context EXCEPT ![t] = Read(headers[m])]
      /\ handling' = [handling EXCEPT ![t] = m]
      /\ attempts' = [attempts EXCEPT ![t] = 0]
      /\ phase' = [phase EXCEPT ![t] = "received"]
      /\ UNCHANGED <<pending, local, frames, headers, deliveries, eventVars,
                     historyVars>>
  BY DEF PostProcessReceived
<1>2. /\ Typed /\ PhaseInv
      /\ FlowInv /\ ListenInv /\ SendInv /\ ReceiveInv
  BY DEF IInv, RInv
<1>3. /\ frames[t] = <<>> /\ fate[m] = "sent"
      /\ \A u \in Threads : handling[u] # m
  BY <1>1, <1>2, AmqpAssumption DEF PhaseInv, FlowInv
<1>4. /\ \A u \in Threads \ {t} : /\ context'[u] = context[u] /\ phase'[u] = phase[u]
                                  /\ handling'[u] = handling[u] /\ current'[u] = current[u]
                                  /\ attempts'[u] = attempts[u]
      /\ context'[t] = Read(headers[m]) /\ phase'[t] = "received"
      /\ handling'[t] = m /\ current'[t] = m /\ attempts'[t] = 0
  BY <1>1, <1>2 DEF Typed
<1>5. PendingInv' /\ KeptInv'
  BY <1>1, <1>3, <1>4, OutsideSendsKeep
<1>6. FlowInv'
  BY <1>1, <1>2, <1>3, <1>4 DEF FlowInv, historyVars
<1>7. ListenInv'
  <2>1. ASSUME NEW u \in Threads, handling'[u] # NoMessage
        PROVE  /\ FirstCall(u)' => context'[u] = Read(headers[handling'[u]])
               /\ phase'[u] = "received" =>
                     current'[u] = IF attempts'[u] = 0 THEN handling'[u] ELSE NoMessage
               /\ phase'[u] = "running" =>
                     local'[u] = IF attempts'[u] = 1 THEN handling'[u] ELSE NoMessage
    <3>1. CASE u = t
      BY <1>4, <3>1
    <3>2. CASE u # t
      BY <1>1, <1>2, <1>4, <2>1, <3>2 DEF ListenInv, FirstCall
    <3> QED BY <3>1, <3>2
  <2>2. (deliveries \in [Messages -> Nat])'
    BY <1>1, <1>2 DEF ListenInv
  <2> QED BY <1>1, <2>1, <2>2 DEF ListenInv, Read
<1>8. SendInv'
  BY <1>1, <1>2 DEF SendInv, eventVars, historyVars
<1>9. ReceiveInv'
  <2>1. \A n \in Messages : FirstInvocation(n)' = FirstInvocation(n)
    BY <1>1, <1>4 DEF FirstInvocation
  <2> QED BY <1>1, <1>2, <2>1 DEF ReceiveInv, eventVars
<1> QED BY <1>5, <1>6, <1>7, <1>8, <1>9 DEF RInv

LEMMA RejectReceivedKeepsR ==
    ASSUME IInv, RInv, NEW t \in Threads, RejectReceived(t)
    PROVE  RInv'
<1>1. /\ phase[t] = "received"
      /\ phase' = [phase EXCEPT ![t] = "idle"]
      /\ handling' = [handling EXCEPT ![t] = NoMessage]
      /\ UNCHANGED <<context, current, pending, local, attempts, frames, headers,
                     queue, deliveries, eventVars, historyVars>>
  BY DEF RejectReceived, brokerVars
<1>2. /\ Typed /\ PhaseInv
      /\ FlowInv /\ ListenInv /\ SendInv /\ ReceiveInv
  BY DEF IInv, RInv
<1>3. frames[t] = <<>>
  BY <1>1, <1>2 DEF PhaseInv
<1>4. /\ \A u \in Threads \ {t} : phase'[u] = phase[u] /\ handling'[u] = handling[u]
      /\ phase'[t] = "idle" /\ handling'[t] = NoMessage
  BY <1>1, <1>2 DEF Typed
<1>5. PendingInv' /\ KeptInv'
  BY <1>1, <1>3, <1>4, OutsideSendsKeep
<1>6. FlowInv'
  BY <1>1, <1>2, <1>4 DEF FlowInv, historyVars
<1>7. ListenInv'
  <2>1. ASSUME NEW u \in Threads, handling'[u] # NoMessage
        PROVE  /\ FirstCall(u)' => context'[u] = Read(headers[handling'[u]])
               /\ phase'[u] = "received" =>
                     current'[u] = IF attempts'[u] = 0 THEN handling'[u] ELSE NoMessage
               /\ phase'[u] = "running" =>
                     local'[u] = IF attempts'[u] = 1 THEN handling'[u] ELSE NoMessage
    <3>1. u # t
      BY <1>4, <2>1
    <3>2. FirstCall(u)' = FirstCall(u)
      BY <1>1, <1>4, <3>1 DEF FirstCall
    <3> QED BY <1>1, <1>2, <1>4, <2>1, <3>1, <3>2 DEF ListenInv
  <2>2. (deliveries \in [Messages -> Nat])'
    BY <1>1, <1>2 DEF ListenInv
  <2> QED BY <1>1, <2>1, <2>2 DEF ListenInv, Read
<1>8. SendInv'
  BY <1>1, <1>2 DEF SendInv, eventVars, historyVars
<1>9. ReceiveInv'
  <2>1. \A m \in Messages : FirstInvocation(m)' = FirstInvocation(m)
    BY <1>1, <1>4, AmqpAssumption DEF FirstInvocation
  <2> QED BY <1>1, <1>2, <2>1 DEF ReceiveInv, eventVars
<1> QED BY <1>5, <1>6, <1>7, <1>8, <1>9 DEF RInv

\* The delivery is counted when the listener is first called.
LEMMA EnterAdviceKeepsR ==
    ASSUME IInv, RInv, NEW t \in Threads, EnterAdvice(t)
    PROVE  RInv'
<1>1. /\ phase[t] = "received"
      /\ local' = [local EXCEPT ![t] = current[t]]
      /\ attempts' = [attempts EXCEPT ![t] = @ + 1]
      /\ phase' = [phase EXCEPT ![t] = "running"]
      /\ deliveries' = IF attempts[t] = 0
                       THEN [deliveries EXCEPT ![handling[t]] = @ + 1]
                       ELSE deliveries
      /\ UNCHANGED <<context, current, pending, handling, frames, headers,
                     queue, eventVars, historyVars>>
  BY DEF EnterAdvice
<1>2. /\ Typed /\ PhaseInv /\ CauseInv
      /\ FlowInv /\ ListenInv /\ SendInv /\ ReceiveInv
  BY DEF IInv, RInv
<1>3. /\ frames[t] = <<>> /\ handling[t] # NoMessage /\ handling[t] \in Messages
      /\ attempts[t] \in Nat
  BY <1>1, <1>2 DEF PhaseInv, CauseInv, Typed
<1>4. /\ \A u \in Threads \ {t} : /\ phase'[u] = phase[u] /\ local'[u] = local[u]
                                  /\ attempts'[u] = attempts[u]
      /\ phase'[t] = "running" /\ local'[t] = current[t]
      /\ attempts'[t] = attempts[t] + 1
  BY <1>1, <1>2 DEF Typed
<1>5. \A n \in Nat : (n + 1 = 1 <=> n = 0) /\ n + 1 \in Nat
  OBVIOUS
<1>6. PendingInv' /\ KeptInv'
  BY <1>1, <1>3, <1>4, OutsideSendsKeep
<1>7. FlowInv'
  BY <1>1, <1>2, <1>3, <1>4 DEF FlowInv, historyVars
<1>8. deliveries' \in [Messages -> Nat]
  <2>1. deliveries \in [Messages -> Nat] /\ deliveries[handling[t]] + 1 \in Nat
    BY <1>2, <1>3 DEF ListenInv
  <2> QED BY <1>1, <2>1
<1>9. ListenInv'
  <2> SUFFICES ASSUME NEW u \in Threads, handling[u] # NoMessage
               PROVE  /\ FirstCall(u)' => context[u] = Read(headers[handling[u]])
                      /\ phase'[u] = "received" =>
                            current[u] = IF attempts'[u] = 0 THEN handling[u] ELSE NoMessage
                      /\ phase'[u] = "running" =>
                            local'[u] = IF attempts'[u] = 1 THEN handling[u] ELSE NoMessage
    BY <1>1, <1>8 DEF ListenInv, Read
  <2>1. CASE u = t
    BY <1>1, <1>2, <1>3, <1>4, <1>5, <2>1 DEF ListenInv, FirstCall
  <2>2. CASE u # t
    BY <1>2, <1>4, <2>2 DEF ListenInv, FirstCall
  <2> QED BY <2>1, <2>2
<1>10. SendInv'
  BY <1>1, <1>2 DEF SendInv, eventVars, historyVars
<1>11. ReceiveInv'
  <2> SUFFICES ASSUME NEW m \in Messages
               PROVE  deliveries'[m] = Len(receiveEvents[m])
                                         + (IF FirstInvocation(m)' THEN 1 ELSE 0)
    BY <1>1 DEF ReceiveInv, eventVars
  <2>1. /\ deliveries[m] = Len(receiveEvents[m]) + (IF FirstInvocation(m) THEN 1 ELSE 0)
        /\ deliveries \in [Messages -> Nat] /\ Len(receiveEvents[m]) \in Nat
    <3>1. receiveEvents[m] \in Seq(Event)
      BY <1>2 DEF Typed
    <3> QED BY <1>2, <3>1, LenProperties DEF ReceiveInv, ListenInv
  <2>2. CASE m = handling[t] /\ attempts[t] = 0
    <3>1. FirstInvocation(m)'
      BY <1>1, <1>4, <1>5, <2>2 DEF FirstInvocation
    <3>2. ~FirstInvocation(m)
      BY <1>1, <1>2, <1>3, <2>2 DEF FirstInvocation, FlowInv
    <3>3. deliveries'[m] = deliveries[m] + 1
      BY <1>1, <2>1, <2>2
    <3> QED BY <2>1, <3>1, <3>2, <3>3
  <2>3. CASE m # handling[t] \/ attempts[t] # 0
    <3>1. deliveries'[m] = deliveries[m]
      BY <1>1, <1>3, <2>1, <2>3
    <3>2. FirstInvocation(m)' = FirstInvocation(m)
      BY <1>1, <1>3, <1>4, <1>5, <2>3 DEF FirstInvocation
    <3> QED BY <2>1, <3>1, <3>2
  <2> QED BY <2>2, <2>3
<1> QED BY <1>6, <1>7, <1>9, <1>10, <1>11 DEF RInv

\* The receive is recorded when the first invocation is over.
LEMMA DeliveryEndsKeepR ==
    ASSUME IInv, RInv, NEW t \in Threads, NEW error \in BOOLEAN,
           FinishDelivery(t, error) \/ RetryDelivery(t)
    PROVE  RInv'
<1>1. /\ t \in ListenerThreads
      /\ phase[t] = "running" /\ frames[t] = <<>>
      /\ current' = [current EXCEPT ![t] = NoMessage]
      /\ context' = [context EXCEPT ![t] = NoMetadata]
      /\ local' = [local EXCEPT ![t] = NoMessage]
      /\ UNCHANGED <<pending, attempts, frames, headers, deliveries, sendEvents,
                     historyVars>>
  BY DEF FinishDelivery, RetryDelivery, LeaveAdvice, brokerVars
<1>2. \/ /\ phase' = [phase EXCEPT ![t] = "idle"]
         /\ handling' = [handling EXCEPT ![t] = NoMessage]
         /\ queue' \in {queue, queue \cup {handling[t]}}
      \/ /\ phase' = [phase EXCEPT ![t] = "received"]
         /\ UNCHANGED <<handling, queue>>
  BY DEF FinishDelivery, RetryDelivery, brokerVars
<1>3. \E x \in BOOLEAN :
         receiveEvents' = IF local[t] = NoMessage THEN receiveEvents
                          ELSE [receiveEvents EXCEPT ![local[t]] =
                                   Append(@, EventOf(local[t], x))]
  BY DEF FinishDelivery, RetryDelivery, LeaveAdvice
<1>4. /\ Typed /\ PhaseInv /\ CauseInv
      /\ FlowInv /\ ListenInv /\ SendInv /\ ReceiveInv
  BY DEF IInv, RInv
<1>5. /\ handling[t] # NoMessage /\ handling[t] \in Messages
      /\ attempts[t] \in Nat \ {0}
  BY <1>1, <1>4 DEF PhaseInv, CauseInv, Typed
<1>6. /\ \A u \in Threads \ {t} : /\ context'[u] = context[u] /\ phase'[u] = phase[u]
                                  /\ handling'[u] = handling[u] /\ local'[u] = local[u]
                                  /\ current'[u] = current[u]
      /\ phase'[t] \in {"idle", "received"}
      /\ phase'[t] = "idle" => handling'[t] = NoMessage
      /\ phase'[t] = "received" => handling'[t] = handling[t] /\ queue' = queue
      /\ current'[t] = NoMessage
      /\ queue' \subseteq queue \cup {handling[t]}
  BY <1>1, <1>2, <1>4 DEF Typed
<1>7. PendingInv' /\ KeptInv'
  BY <1>1, <1>6, OutsideSendsKeep
<1>8. FlowInv'
  BY <1>1, <1>4, <1>5, <1>6 DEF FlowInv, historyVars
<1>9. ListenInv'
  <2> SUFFICES ASSUME NEW u \in Threads, handling'[u] # NoMessage
               PROVE  /\ FirstCall(u)' => context'[u] = Read(headers[handling'[u]])
                      /\ phase'[u] = "received" =>
                            current'[u] = IF attempts[u] = 0 THEN handling'[u] ELSE NoMessage
                      /\ phase'[u] = "running" =>
                            local'[u] = IF attempts[u] = 1 THEN handling'[u] ELSE NoMessage
    BY <1>1, <1>4 DEF ListenInv, Read
  <2>1. CASE u = t
    BY <1>1, <1>5, <1>6, <2>1 DEF FirstCall
  <2>2. CASE u # t
    BY <1>1, <1>4, <1>6, <2>2 DEF ListenInv, FirstCall
  <2> QED BY <2>1, <2>2
<1>10. SendInv'
  BY <1>1, <1>4 DEF SendInv, historyVars
<1>11. ReceiveInv'
  <2> SUFFICES ASSUME NEW m \in Messages
               PROVE  deliveries[m] = Len(receiveEvents'[m])
                                        + (IF FirstInvocation(m)' THEN 1 ELSE 0)
    BY <1>1 DEF ReceiveInv
  <2>1. /\ deliveries[m] = Len(receiveEvents[m]) + (IF FirstInvocation(m) THEN 1 ELSE 0)
        /\ receiveEvents[m] \in Seq(Event) /\ Len(receiveEvents[m]) \in Nat
    <3>1. receiveEvents[m] \in Seq(Event)
      BY <1>4 DEF Typed
    <3> QED BY <1>4, <3>1, LenProperties DEF ReceiveInv
  <2>2. local[t] = IF attempts[t] = 1 THEN handling[t] ELSE NoMessage
    BY <1>1, <1>4, <1>5 DEF ListenInv
  <2>3. CASE m = handling[t] /\ attempts[t] = 1
    <3>1. FirstInvocation(m)
      BY <1>1, <2>3 DEF FirstInvocation
    <3>2. ~FirstInvocation(m)'
      BY <1>1, <1>4, <1>5, <1>6, <2>3 DEF FirstInvocation, FlowInv
    <3>3. PICK x \in BOOLEAN :
             receiveEvents' = [receiveEvents EXCEPT ![m] = Append(@, EventOf(m, x))]
      BY <1>3, <1>5, <2>2, <2>3
    <3>4. receiveEvents'[m] = Append(receiveEvents[m], EventOf(m, x))
      BY <1>4, <3>3 DEF Typed
    <3>5. EventOf(m, x) \in Event
      <4>1. m \in Sent
        BY <1>4, <1>5, <2>3 DEF FlowInv, Sent
      <4> QED BY <4>1, RecordedEvent
    <3>6. Len(receiveEvents'[m]) = Len(receiveEvents[m]) + 1
      BY <2>1, <3>4, <3>5, AppendProperties
    <3> QED BY <2>1, <3>1, <3>2, <3>6
  <2>4. CASE m # handling[t] \/ attempts[t] # 1
    <3>1. receiveEvents'[m] = receiveEvents[m]
      BY <1>3, <1>4, <1>5, <2>2, <2>4 DEF Typed
    <3>2. FirstInvocation(m)' = FirstInvocation(m)
      BY <1>1, <1>5, <1>6, <2>4 DEF FirstInvocation
    <3> QED BY <2>1, <3>1, <3>2
  <2> QED BY <2>3, <2>4
<1> QED BY <1>7, <1>8, <1>9, <1>10, <1>11 DEF RInv

\* The last frame and the others, by their places.
LEMMA LastPlace ==
    ASSUME NEW s \in Seq(Frame), s # <<>>
    PROVE  /\ Len(s) \in Nat \ {0} /\ Len(s) \in 1..Len(s)
           /\ Last(s) = s[Len(s)] /\ Last(s) \in Frame
           /\ Front(s) \in Seq(Frame) /\ Len(Front(s)) = Len(s) - 1
           /\ \A i \in 1..(Len(s) - 1) : Front(s)[i] = s[i]
<1>1. Len(s) \in Nat \ {0} /\ \A i \in 1..Len(s) : s[i] \in Frame
  BY LenProperties, ElementOfSeq, EmptySeq
<1>2. Len(s) \in 1..Len(s)
  BY <1>1
<1>3. Last(s) = s[Len(s)]
  BY DEF Last
<1>4. \A i \in 1..(Len(s) - 1) : s[i] \in Frame
  BY <1>1
<1>5. /\ Front(s) \in Seq(Frame)
      /\ \A i \in 1..(Len(s) - 1) : Front(s)[i] = s[1 + i - 1]
      /\ Len(Front(s)) = IF 1 <= Len(s) - 1 THEN (Len(s) - 1) - 1 + 1 ELSE 0
  BY <1>1, <1>4, SubSeqProperties DEF Front
<1>6. \A n \in Nat \ {0} : /\ (IF 1 <= n - 1 THEN (n - 1) - 1 + 1 ELSE 0) = n - 1
                           /\ \A i \in 1..(n - 1) : 1 + i - 1 = i
  OBVIOUS
<1> QED BY <1>1, <1>2, <1>3, <1>5, <1>6

LEMMA AppendedPlace ==
    ASSUME NEW s \in Seq(Frame), NEW f \in Frame
    PROVE  /\ Len(s) \in Nat
           /\ Append(s, f) \in Seq(Frame) /\ Append(s, f) # <<>>
           /\ Len(Append(s, f)) = Len(s) + 1
           /\ \A i \in 1..Len(s) : Append(s, f)[i] = s[i]
           /\ Append(s, f)[Len(s) + 1] = f
           /\ Last(Append(s, f)) = f
<1>1. /\ Len(s) \in Nat
      /\ Append(s, f) \in Seq(Frame) /\ Len(Append(s, f)) = Len(s) + 1
      /\ \A i \in 1..Len(s) : Append(s, f)[i] = s[i]
      /\ Append(s, f)[Len(s) + 1] = f
  BY AppendProperties, LenProperties
<1>2. Append(s, f) # <<>>
  BY <1>1
<1>3. Last(Append(s, f)) = f
  BY <1>1 DEF Last
<1> QED BY <1>1, <1>2, <1>3

\* A send starts: its message is the innermost, those around it are marked.
LEMMA StartSendKeepsR ==
    ASSUME IInv, RInv, NEW t \in Threads, NEW m \in Messages, NEW h \in ApplicationHeaders,
           NEW arg \in BOOLEAN, StartSend(t, m, h, arg)
    PROVE  RInv'
<1> DEFINE f == [message |-> m, hooked |-> FALSE]
<1>1. /\ phase[t] = "running" /\ fate[m] = "unsent"
      /\ headers' = [headers EXCEPT ![m] = h]
      /\ pending' = [pending EXCEPT ![t] = IF arg THEN m ELSE NoMessage]
      /\ frames' = [frames EXCEPT ![t] = Append(@, f)]
      /\ origin' = [origin EXCEPT ![m] = Attribution(t, h)]
      /\ fate' = [fate EXCEPT ![m] = "sending"]
      /\ overlapped' = overlapped \cup Open(t)
      /\ UNCHANGED <<context, current, phase, handling, local, attempts, queue,
                     deliveries, eventVars>>
  BY DEF StartSend, Open
<1>2. /\ Typed /\ FlowInv /\ ListenInv /\ PendingInv /\ KeptInv /\ SendInv /\ ReceiveInv
  BY DEF IInv, RInv
<1>3. f \in Frame /\ f.message = m /\ f.hooked = FALSE
  BY DEF Frame
<1> HIDE DEF f
<1>4. /\ frames[t] \in Seq(Frame) /\ Len(frames[t]) \in Nat
      /\ frames'[t] # <<>> /\ Len(frames'[t]) = Len(frames[t]) + 1
      /\ \A i \in 1..Len(frames[t]) : frames'[t][i] = frames[t][i]
      /\ frames'[t][Len(frames[t]) + 1] = f
      /\ Last(frames'[t]) = f
  <2>1. frames[t] \in Seq(Frame) /\ frames'[t] = Append(frames[t], f)
    BY <1>1, <1>2 DEF Typed
  <2> QED BY <1>3, <2>1, AppendedPlace
<1>5. \A u \in Threads \ {t} : frames'[u] = frames[u] /\ pending'[u] = pending[u]
  BY <1>1, <1>2 DEF Typed
<1>6. ASSUME NEW u \in Threads, NEW i \in 1..Len(frames'[u])
      PROVE  \/ i \in 1..Len(frames[u]) /\ frames'[u][i] = frames[u][i]
             \/ u = t /\ i = Len(frames[t]) + 1 /\ frames'[u][i] = f
  <2>1. CASE u = t
    <3>1. \A n \in Nat : \A j \in 1..(n + 1) : j \in 1..n \/ j = n + 1
      OBVIOUS
    <3>2. i \in 1..Len(frames[t]) \/ i = Len(frames[t]) + 1
      BY <1>4, <2>1, <3>1
    <3> QED BY <1>4, <2>1, <3>2
  <2>2. CASE u # t
    BY <1>5, <2>2
  <2> QED BY <2>1, <2>2
<1>7. ASSUME NEW u \in Threads, NEW i \in 1..Len(frames[u])
      PROVE  /\ frames[u][i].message \in Messages
             /\ frames[u][i].message # m /\ fate[frames[u][i].message] = "sending"
  <2>1. frames[u][i] \in Frame
    <3>1. frames[u] \in Seq(Frame)
      BY <1>2 DEF Typed
    <3> QED BY <3>1, ElementOfSeq
  <2> QED BY <1>1, <1>2, <2>1 DEF FlowInv, Frame
<1>8. \A n \in Messages \ {m} : /\ fate'[n] = fate[n] /\ headers'[n] = headers[n]
                                /\ origin'[n] = origin[n]
  BY <1>1, <1>2 DEF Typed
<1>9. fate'[m] = "sending" /\ headers'[m] = h /\ origin'[m] = Attribution(t, h)
  BY <1>1, <1>2 DEF Typed
<1>10. ASSUME NEW u \in Threads, handling[u] # NoMessage
       PROVE  handling[u] \in Messages \ {m}
  BY <1>1, <1>2, <1>10 DEF FlowInv, Typed
<1>marked. /\ m \notin overlapped' /\ sendEvents[m] = <<>>
           /\ \A x \in Open(t) : x # m /\ fate[x] = "sending"
  <2>1. m \notin overlapped /\ sendEvents[m] = <<>>
    BY <1>1, <1>2 DEF SendInv
  <2>2. \A x \in Open(t) : \E i \in 1..Len(frames[t]) : x = frames[t][i].message
    BY <1>4, LenProperties DEF Open, ToSet
  <2>3. \A x \in Open(t) : x # m /\ fate[x] = "sending"
    BY <1>7, <2>2
  <2> QED BY <1>1, <2>1, <2>3
<1>11. FlowInv'
  <2>1. \A u \in Threads : \A i \in 1..Len(frames'[u]) : fate'[frames'[u][i].message] = "sending"
    BY <1>3, <1>6, <1>7, <1>8, <1>9
  <2>2. ASSUME NEW u \in Threads, NEW v \in Threads, NEW i \in 1..Len(frames'[u]),
               NEW j \in 1..Len(frames'[v]), frames'[u][i].message = frames'[v][j].message
        PROVE  u = v /\ i = j
    <3>1. CASE i \in 1..Len(frames[u]) /\ frames'[u][i] = frames[u][i]
      <4>1. frames'[v][j].message # m
        BY <1>7, <2>2, <3>1
      <4>2. j \in 1..Len(frames[v]) /\ frames'[v][j] = frames[v][j]
        BY <1>3, <1>6, <4>1
      <4> QED BY <1>2, <2>2, <3>1, <4>2 DEF FlowInv
    <3>2. CASE u = t /\ i = Len(frames[t]) + 1 /\ frames'[u][i] = f
      <4>1. frames'[v][j].message = m
        BY <1>3, <2>2, <3>2
      <4>2. v = t /\ j = Len(frames[t]) + 1
        BY <1>6, <1>7, <4>1
      <4> QED BY <3>2, <4>2
    <3> QED BY <1>6, <3>1, <3>2
  <2>3. \A n \in queue : fate'[n] = "sent"
    BY <1>1, <1>2 DEF FlowInv, Typed
  <2>4. \A u \in Threads : handling[u] # NoMessage => fate'[handling[u]] = "sent"
    BY <1>2, <1>8, <1>10 DEF FlowInv
  <2> QED BY <1>1, <1>2, <2>1, <2>2, <2>3, <2>4 DEF FlowInv
<1>12. ListenInv'
  <2>1. \A u \in Threads : handling[u] # NoMessage => headers'[handling[u]] = headers[handling[u]]
    BY <1>8, <1>10
  <2>2. \A u \in Threads : FirstCall(u)' = FirstCall(u)
    BY <1>1 DEF FirstCall
  <2> QED BY <1>1, <1>2, <2>1, <2>2 DEF ListenInv, Read
<1>13. PendingInv'
  <2> SUFFICES ASSUME NEW u \in Threads, frames'[u] # <<>>
               PROVE  /\ pending'[u] \in {NoSend, NoMessage, Last(frames'[u]).message}
                      /\ pending'[u] = NoSend <=> Last(frames'[u]).message \in overlapped'
                      /\ Last(frames'[u]).hooked => pending'[u] # NoMessage
                      /\ \A i \in 1..(Len(frames'[u]) - 1) :
                            frames'[u][i].message \in overlapped'
    BY DEF PendingInv
  <2>1. CASE u = t
    <3>1. pending'[t] = IF arg THEN m ELSE NoMessage
      BY <1>1, <1>2 DEF Typed
    <3>2. \A n \in Nat : n + 1 - 1 = n
      OBVIOUS
    <3>3. \A i \in 1..Len(frames[t]) : frames[t][i].message \in Open(t)
      BY <1>4, LenProperties DEF Open, ToSet
    <3>4. \A i \in 1..(Len(frames'[t]) - 1) : frames'[t][i].message \in overlapped'
      BY <1>1, <1>4, <3>2, <3>3
    <3> QED BY <1>3, <1>4, <1>marked, <2>1, <3>1, <3>4, AmqpAssumption
  <2>2. CASE u # t
    <3>1. frames'[u] = frames[u] /\ pending'[u] = pending[u] /\ frames[u] # <<>>
      BY <1>5, <2>2
    <3>2. Last(frames[u]) = frames[u][Len(frames[u])] /\ Len(frames[u]) \in 1..Len(frames[u])
      <4>1. frames[u] \in Seq(Frame)
        BY <1>2 DEF Typed
      <4> QED BY <3>1, <4>1, LastPlace
    <3>3. Last(frames[u]).message \notin Open(t)
      <4>1. \A x \in Open(t) : \E i \in 1..Len(frames[t]) : x = frames[t][i].message
        BY <1>4, LenProperties DEF Open, ToSet
      <4>2. \A i \in 1..Len(frames[t]) : frames[t][i].message # Last(frames[u]).message
        BY <1>2, <2>2, <3>2 DEF FlowInv
      <4> QED BY <4>1, <4>2
    <3>4. Last(frames[u]).message \in overlapped' <=> Last(frames[u]).message \in overlapped
      BY <1>1, <3>3
    <3>5. /\ pending[u] \in {NoSend, NoMessage, Last(frames[u]).message}
          /\ pending[u] = NoSend <=> Last(frames[u]).message \in overlapped
          /\ Last(frames[u]).hooked => pending[u] # NoMessage
          /\ \A i \in 1..(Len(frames[u]) - 1) : frames[u][i].message \in overlapped
      BY <1>2, <3>1 DEF PendingInv
    <3>6. /\ Last(frames'[u]) = Last(frames[u]) /\ Len(frames'[u]) = Len(frames[u])
          /\ overlapped \subseteq overlapped'
      BY <1>1, <3>1
    <3>7. \A i \in 1..(Len(frames'[u]) - 1) : frames'[u][i].message \in overlapped'
      BY <3>1, <3>5, <3>6
    <3> QED BY <3>1, <3>4, <3>5, <3>6, <3>7
  <2> QED BY <2>1, <2>2
<1>14. KeptInv'
  <2> SUFFICES ASSUME NEW u \in Threads, NEW i \in 1..Len(frames'[u]),
                      NEW g, g = frames'[u][i]
               PROVE  /\ ~g.hooked => origin'[g.message]
                            = Read(ApplyContextIfAbsent(headers'[g.message], Cause(u)'))
                      /\ g.hooked /\ Intact(u)' =>
                            Read(headers'[g.message]) = origin'[g.message]
    BY DEF KeptInv, Kept, Read, ApplyContextIfAbsent
  <2>1. Cause(u)' = Cause(u)
    BY <1>1, <1>8, <1>10 DEF Cause
  <2>2. Intact(u)' = Intact(u)
    <3>1. CASE handling[u] = NoMessage
      BY <1>1, <3>1 DEF Intact
    <3>2. CASE handling[u] # NoMessage
      BY <1>1, <1>8, <1>10, <3>2 DEF Intact, Read
    <3> QED BY <3>1, <3>2
  <2>3. CASE i \in 1..Len(frames[u]) /\ frames'[u][i] = frames[u][i]
    <3>1. Kept(u, frames[u][i])
      BY <1>2, <2>3 DEF KeptInv
    <3>2. /\ headers'[g.message] = headers[g.message]
          /\ origin'[g.message] = origin[g.message]
      BY <1>7, <1>8, <2>3
    <3> QED BY <2>1, <2>2, <2>3, <3>1, <3>2 DEF Kept
  <2>4. CASE u = t /\ i = Len(frames[t]) + 1 /\ frames'[u][i] = f
    <3>1. Attribution(t, h) = Read(ApplyContextIfAbsent(h, Cause(t)))
      BY DEF Attribution, Cause
    <3> QED BY <1>3, <1>9, <2>1, <2>4, <3>1
  <2> QED BY <1>6, <2>3, <2>4
<1>15. SendInv'
  <2> SUFFICES ASSUME NEW n \in Messages
               PROVE  /\ n \in overlapped' => fate'[n] # "unsent"
                      /\ Len(sendEvents[n]) <= 1
                      /\ fate'[n] \in {"unsent", "sending"} \/ n \in overlapped' =>
                            sendEvents[n] = <<>>
                      /\ fate'[n] \in {"sent", "failed"} /\ n \notin overlapped' =>
                            Len(sendEvents[n]) = 1
                      /\ sendEvents[n] # <<>> =>
                            sendEvents[n][1].error = (fate'[n] # "sent")
    BY <1>1 DEF SendInv, eventVars
  <2>1. CASE n = m
    <3>1. Len(sendEvents[n]) = 0
      BY <1>marked, <2>1
    <3> QED BY <1>9, <1>marked, <2>1, <3>1
  <2>2. CASE n # m
    <3>1. n \in overlapped' => n \in overlapped \/ fate[n] = "sending"
      BY <1>1, <1>marked
    <3> QED BY <1>1, <1>2, <1>8, <2>2, <3>1 DEF SendInv
  <2> QED BY <2>1, <2>2
<1>16. ReceiveInv'
  BY <1>1, <1>2 DEF ReceiveInv, FirstInvocation, eventVars
<1> QED BY <1>11, <1>12, <1>13, <1>14, <1>15, <1>16 DEF RInv

\* What the post-processor adds completes the headers of the innermost message.
LEMMA PostProcessPublishedKeepsR ==
    ASSUME IInv, RInv, NEW t \in Threads, PostProcessPublished(t)
    PROVE  RInv'
<1> DEFINE frame == Last(frames[t])
           m == frame.message
           f == [frame EXCEPT !.hooked = TRUE]
           n == Len(frames[t])
           added == ApplyContextIfAbsent(headers[m], context[t])
<1>1. /\ frames[t] # <<>> /\ ~frame.hooked
      /\ headers' = [headers EXCEPT ![m] = added]
      /\ pending' = [pending EXCEPT ![t] = IF @ = NoSend THEN @ ELSE m]
      /\ frames' = [frames EXCEPT ![t] = Append(Front(@), f)]
      /\ UNCHANGED <<context, current, phase, handling, local, attempts, queue,
                     deliveries, eventVars, origin, fate, overlapped>>
  BY DEF PostProcessPublished, historyVars
<1>2. /\ Typed /\ FlowInv /\ ListenInv /\ PendingInv /\ KeptInv /\ SendInv /\ ReceiveInv
      /\ PhaseInv /\ CauseInv
  BY DEF IInv, RInv
<1>3. /\ frames[t] \in Seq(Frame) /\ n \in Nat \ {0} /\ n \in 1..n
      /\ frame = frames[t][n] /\ frame \in Frame
      /\ Front(frames[t]) \in Seq(Frame) /\ Len(Front(frames[t])) = n - 1
      /\ \A i \in 1..(n - 1) : Front(frames[t])[i] = frames[t][i]
  <2>1. frames[t] \in Seq(Frame)
    BY <1>2 DEF Typed
  <2> QED BY <1>1, <2>1, LastPlace
<1>4. f \in Frame /\ f.message = m /\ f.hooked = TRUE /\ m \in Messages
  BY <1>3 DEF Frame
<1> HIDE DEF f, frame, added
<1>5. /\ frames'[t] # <<>> /\ Len(frames'[t]) = n /\ Last(frames'[t]) = f
      /\ frames'[t][n] = f
      /\ \A i \in 1..(n - 1) : frames'[t][i] = frames[t][i]
  <2>1. frames'[t] = Append(Front(frames[t]), f)
    BY <1>1, <1>2 DEF Typed
  <2>2. /\ frames'[t] # <<>> /\ Len(frames'[t]) = Len(Front(frames[t])) + 1
        /\ Last(frames'[t]) = f /\ frames'[t][Len(Front(frames[t])) + 1] = f
        /\ \A i \in 1..Len(Front(frames[t])) : frames'[t][i] = Front(frames[t])[i]
    BY <1>3, <1>4, <2>1, AppendedPlace
  <2>3. \A k \in Nat \ {0} : k - 1 + 1 = k
    OBVIOUS
  <2> QED BY <1>3, <2>2, <2>3
<1>6. \A u \in Threads \ {t} : frames'[u] = frames[u] /\ pending'[u] = pending[u]
  BY <1>1, <1>2 DEF Typed
<1>7. ASSUME NEW u \in Threads, NEW i \in 1..Len(frames'[u])
      PROVE  /\ i \in 1..Len(frames[u])
             /\ frames'[u][i].message = frames[u][i].message
             /\ \/ frames'[u][i] = frames[u][i] /\ frames[u][i].message \in Messages \ {m}
                \/ u = t /\ i = n /\ frames'[u][i] = f
  <2>1. CASE u = t /\ i = n
    BY <1>3, <1>4, <1>5, <2>1
  <2>2. CASE u # t \/ i # n
    <3>1. i \in 1..Len(frames[u]) /\ frames'[u][i] = frames[u][i]
      <4>1. CASE u = t
        <5>1. \A k \in Nat \ {0} : \A j \in 1..k : j # k => j \in 1..(k - 1)
          OBVIOUS
        <5>2. i \in 1..(n - 1)
          BY <1>3, <1>5, <2>2, <4>1, <5>1
        <5> QED BY <1>5, <4>1, <5>2
      <4>2. CASE u # t
        BY <1>6, <4>2
      <4> QED BY <4>1, <4>2
    <3>2. frames[u][i] \in Frame
      <4>1. frames[u] \in Seq(Frame)
        BY <1>2 DEF Typed
      <4> QED BY <3>1, <4>1, ElementOfSeq
    <3>3. frames[u][i].message # m
      BY <1>2, <1>3, <2>2, <3>1 DEF FlowInv
    <3> QED BY <3>1, <3>2, <3>3 DEF Frame
  <2> QED BY <2>1, <2>2
<1>8. /\ \A k \in Messages \ {m} : headers'[k] = headers[k]
      /\ headers'[m] = added
  BY <1>1, <1>2, <1>4 DEF Typed
<1>9. ASSUME NEW u \in Threads, handling[u] # NoMessage
      PROVE  handling[u] \in Messages \ {m}
  <2>1. fate[m] = "sending"
    BY <1>2, <1>3 DEF FlowInv
  <2> QED BY <1>2, <1>9, <2>1 DEF FlowInv, Typed
<1>10. FlowInv'
  <2>1. \A u \in Threads : \A i \in 1..Len(frames'[u]) : fate'[frames'[u][i].message] = "sending"
    BY <1>1, <1>2, <1>7 DEF FlowInv
  <2>2. ASSUME NEW u \in Threads, NEW v \in Threads, NEW i \in 1..Len(frames'[u]),
               NEW j \in 1..Len(frames'[v]), frames'[u][i].message = frames'[v][j].message
        PROVE  u = v /\ i = j
    <3>1. /\ i \in 1..Len(frames[u]) /\ j \in 1..Len(frames[v])
          /\ frames[u][i].message = frames[v][j].message
      BY <1>7, <2>2
    <3> QED BY <1>2, <3>1 DEF FlowInv
  <2> QED BY <1>1, <1>2, <2>1, <2>2 DEF FlowInv
<1>11. ListenInv'
  <2>1. \A u \in Threads : handling[u] # NoMessage => headers'[handling[u]] = headers[handling[u]]
    BY <1>8, <1>9
  <2>2. \A u \in Threads : FirstCall(u)' = FirstCall(u)
    BY <1>1 DEF FirstCall
  <2> QED BY <1>1, <1>2, <2>1, <2>2 DEF ListenInv, Read
<1>12. PendingInv'
  <2>1. ASSUME NEW u \in Threads, frames'[u] # <<>>
        PROVE  /\ pending'[u] \in {NoSend, NoMessage, Last(frames'[u]).message}
               /\ pending'[u] = NoSend <=> Last(frames'[u]).message \in overlapped
               /\ Last(frames'[u]).hooked => pending'[u] # NoMessage
               /\ \A i \in 1..(Len(frames'[u]) - 1) : frames'[u][i].message \in overlapped
    <3>1. CASE u = t
      <4>1. pending'[t] = IF pending[t] = NoSend THEN NoSend ELSE m
        BY <1>1, <1>2 DEF Typed
      <4>2. /\ pending[t] = NoSend <=> m \in overlapped
            /\ \A i \in 1..(n - 1) : frames[t][i].message \in overlapped
        BY <1>1, <1>2 DEF PendingInv, frame
      <4>3. m # NoSend /\ m # NoMessage /\ NoSend # NoMessage
        BY <1>4, AmqpAssumption
      <4> QED BY <1>4, <1>5, <3>1, <4>1, <4>2, <4>3
    <3>2. CASE u # t
      BY <1>2, <1>6, <2>1, <3>2 DEF PendingInv
    <3> QED BY <3>1, <3>2
  <2> QED BY <1>1, <2>1 DEF PendingInv
<1>13. KeptInv'
  <2> SUFFICES ASSUME NEW u \in Threads, NEW i \in 1..Len(frames'[u]),
                      NEW g, g = frames'[u][i]
               PROVE  /\ ~g.hooked => origin'[g.message]
                            = Read(ApplyContextIfAbsent(headers'[g.message], Cause(u)'))
                      /\ g.hooked /\ Intact(u)' =>
                            Read(headers'[g.message]) = origin'[g.message]
    BY DEF KeptInv, Kept, Read, ApplyContextIfAbsent
  <2>1. Cause(u)' = Cause(u)
    BY <1>1 DEF Cause
  <2>2. Intact(u)' = Intact(u)
    <3>1. CASE handling[u] = NoMessage
      BY <1>1, <3>1 DEF Intact
    <3>2. CASE handling[u] # NoMessage
      BY <1>1, <1>8, <1>9, <3>2 DEF Intact, Read
    <3> QED BY <3>1, <3>2
  <2>3. CASE frames'[u][i] = frames[u][i] /\ frames[u][i].message \in Messages \ {m}
    <3>1. Kept(u, g)
      BY <1>2, <1>7, <2>3 DEF KeptInv
    <3>2. headers'[g.message] = headers[g.message]
      BY <1>8, <2>3
    <3> QED BY <1>1, <2>1, <2>2, <3>1, <3>2 DEF Kept
  <2>4. CASE u = t /\ i = n /\ frames'[u][i] = f
    <3>1. Kept(t, frame)
      BY <1>2, <1>3 DEF KeptInv
    <3>2. origin[m] = Read(ApplyContextIfAbsent(headers[m], Cause(t)))
      BY <1>1, <3>1 DEF Kept
    <3>3. ASSUME Intact(t) PROVE context[t] = Cause(t)
      <4>1. CASE handling[t] = NoMessage
        BY <4>1 DEF Cause
      <4>2. CASE handling[t] # NoMessage
        <5>1. phase[t] = "running"
          BY <1>1, <1>2 DEF PhaseInv
        <5>2. attempts[t] = 1 /\ Read(headers[handling[t]]) = origin[handling[t]]
          BY <3>3, <4>2 DEF Intact
        <5>3. FirstCall(t)
          BY <5>1, <5>2 DEF FirstCall
        <5>4. context[t] = Read(headers[handling[t]])
          BY <1>2, <4>2, <5>3 DEF ListenInv
        <5> QED BY <4>2, <5>2, <5>4 DEF Cause
      <4> QED BY <4>1, <4>2
    <3> QED BY <1>1, <1>4, <1>8, <2>2, <2>4, <3>2, <3>3 DEF added
  <2> QED BY <1>7, <2>3, <2>4
<1>14. SendInv'
  BY <1>1, <1>2 DEF SendInv, eventVars
<1>15. ReceiveInv'
  BY <1>1, <1>2 DEF ReceiveInv, FirstInvocation, eventVars
<1> QED BY <1>10, <1>11, <1>12, <1>13, <1>14, <1>15 DEF RInv

\* A send ends: it is recorded if it is pending, once, with its outcome.
LEMMA EndSendKeepsR ==
    ASSUME IInv, RInv, NEW t \in Threads, NEW error \in BOOLEAN, EndSend(t, error)
    PROVE  RInv'
<1> DEFINE frame == Last(frames[t])
           m == frame.message
           n == Len(frames[t])
           captured == pending[t]
           how == IF ~error THEN "sent" ELSE IF frame.hooked THEN "failed" ELSE "failedEarly"
<1>1. /\ frames[t] # <<>> /\ (error \/ frame.hooked)
      /\ sendEvents' =
            IF captured \in {NoSend, NoMessage} THEN sendEvents
            ELSE [sendEvents EXCEPT ![captured] = Append(@, EventOf(captured, error))]
      /\ pending' = [pending EXCEPT ![t] = NoSend]
      /\ frames' = [frames EXCEPT ![t] = Front(@)]
      /\ queue' = IF error THEN queue ELSE queue \cup {m}
      /\ fate' = [fate EXCEPT ![m] = how]
      /\ UNCHANGED <<context, current, phase, handling, local, attempts,
                     headers, deliveries, receiveEvents, origin, overlapped>>
  BY DEF EndSend
<1>2. /\ Typed /\ FlowInv /\ ListenInv /\ PendingInv /\ KeptInv /\ SendInv /\ ReceiveInv
  BY DEF IInv, RInv
<1>3. /\ frames[t] \in Seq(Frame) /\ n \in Nat \ {0} /\ n \in 1..n
      /\ frame = frames[t][n] /\ frame \in Frame
      /\ Front(frames[t]) \in Seq(Frame) /\ Len(Front(frames[t])) = n - 1
      /\ \A i \in 1..(n - 1) : Front(frames[t])[i] = frames[t][i]
  <2>1. frames[t] \in Seq(Frame)
    BY <1>2 DEF Typed
  <2> QED BY <1>1, <2>1, LastPlace
<1>4. m \in Messages /\ fate[m] = "sending" /\ frame.hooked \in BOOLEAN
  BY <1>2, <1>3 DEF Frame, FlowInv
<1> HIDE DEF frame
<1>5. frames'[t] = Front(frames[t])
  BY <1>1, <1>2 DEF Typed
<1>6. \A u \in Threads \ {t} : frames'[u] = frames[u] /\ pending'[u] = pending[u]
  BY <1>1, <1>2 DEF Typed
<1>7. ASSUME NEW u \in Threads, NEW i \in 1..Len(frames'[u])
      PROVE  /\ i \in 1..Len(frames[u]) /\ frames'[u][i] = frames[u][i]
             /\ frames[u][i].message \in Messages \ {m}
             /\ u = t => i \in 1..(n - 1)
  <2>1. /\ i \in 1..Len(frames[u]) /\ frames'[u][i] = frames[u][i] /\ (u # t \/ i # n)
        /\ u = t => i \in 1..(n - 1)
    <3>1. CASE u = t
      <4>1. \A k \in Nat \ {0} : \A j \in 1..(k - 1) : j \in 1..k /\ j # k
        OBVIOUS
      <4> QED BY <1>3, <1>5, <3>1, <4>1
    <3>2. CASE u # t
      BY <1>6, <3>2
    <3> QED BY <3>1, <3>2
  <2>2. frames[u][i] \in Frame
    <3>1. frames[u] \in Seq(Frame)
      BY <1>2 DEF Typed
    <3> QED BY <2>1, <3>1, ElementOfSeq
  <2>3. frames[u][i].message # m
    BY <1>2, <1>3, <2>1 DEF FlowInv
  <2> QED BY <2>1, <2>2, <2>3 DEF Frame
<1>8. /\ \A k \in Messages \ {m} : fate'[k] = fate[k]
      /\ fate'[m] = how
  BY <1>1, <1>2, <1>4 DEF Typed
<1>9. \A u \in Threads : handling[u] # m
  BY <1>2, <1>4, AmqpAssumption DEF FlowInv
<1>10. FlowInv'
  <2>1. \A u \in Threads : \A i \in 1..Len(frames'[u]) : fate'[frames'[u][i].message] = "sending"
    BY <1>2, <1>7, <1>8 DEF FlowInv
  <2>2. \A k \in queue' : fate'[k] = "sent"
    BY <1>1, <1>2, <1>4, <1>8 DEF FlowInv, Typed
  <2>3. \A u \in Threads : handling[u] # NoMessage =>
           fate'[handling[u]] = "sent" /\ handling[u] \notin queue'
    BY <1>1, <1>2, <1>8, <1>9 DEF FlowInv, Typed
  <2> QED BY <1>1, <1>2, <1>7, <2>1, <2>2, <2>3 DEF FlowInv
<1>11. ListenInv'
  <2>1. \A u \in Threads : FirstCall(u)' = FirstCall(u)
    BY <1>1 DEF FirstCall
  <2> QED BY <1>1, <1>2, <2>1 DEF ListenInv, Read
<1>12. PendingInv'
  <2>1. ASSUME NEW u \in Threads, frames'[u] # <<>>
        PROVE  /\ pending'[u] \in {NoSend, NoMessage, Last(frames'[u]).message}
               /\ pending'[u] = NoSend <=> Last(frames'[u]).message \in overlapped
               /\ Last(frames'[u]).hooked => pending'[u] # NoMessage
               /\ \A i \in 1..(Len(frames'[u]) - 1) : frames'[u][i].message \in overlapped
    <3>1. CASE u = t
      <4>1. pending'[t] = NoSend
        BY <1>1, <1>2 DEF Typed
      <4>2. \A i \in 1..(n - 1) : frames[t][i].message \in overlapped
        BY <1>1, <1>2 DEF PendingInv
      <4>3. \A i \in 1..Len(frames'[t]) : frames'[t][i].message \in overlapped
        BY <1>7, <4>2
      <4>4. /\ Last(frames'[t]) = frames'[t][Len(frames'[t])]
            /\ Len(frames'[t]) \in 1..Len(frames'[t])
            /\ Len(frames'[t]) \in Nat
        BY <1>3, <1>5, <2>1, <3>1, LastPlace
      <4>5. \A k \in Nat : \A i \in 1..(k - 1) : i \in 1..k
        OBVIOUS
      <4> QED BY <3>1, <4>1, <4>3, <4>4, <4>5, <1>7, AmqpAssumption
    <3>2. CASE u # t
      BY <1>2, <1>6, <2>1, <3>2 DEF PendingInv
    <3> QED BY <3>1, <3>2
  <2> QED BY <1>1, <2>1 DEF PendingInv
<1>13. KeptInv'
  <2> SUFFICES ASSUME NEW u \in Threads, NEW i \in 1..Len(frames'[u]),
                      NEW g, g = frames'[u][i]
               PROVE  /\ ~g.hooked => origin'[g.message]
                            = Read(ApplyContextIfAbsent(headers'[g.message], Cause(u)'))
                      /\ g.hooked /\ Intact(u)' =>
                            Read(headers'[g.message]) = origin'[g.message]
    BY DEF KeptInv, Kept, Read, ApplyContextIfAbsent
  <2>1. Cause(u)' = Cause(u) /\ Intact(u)' = Intact(u)
    BY <1>1 DEF Cause, Intact, Read
  <2>2. Kept(u, g)
    BY <1>2, <1>7 DEF KeptInv
  <2> QED BY <1>1, <2>1, <2>2 DEF Kept
<1>14. SendInv'
  <2> SUFFICES ASSUME NEW k \in Messages
               PROVE  /\ k \in overlapped => fate'[k] # "unsent"
                      /\ Len(sendEvents'[k]) <= 1
                      /\ fate'[k] \in {"unsent", "sending"} \/ k \in overlapped =>
                            sendEvents'[k] = <<>>
                      /\ fate'[k] \in {"sent", "failed"} /\ k \notin overlapped =>
                            Len(sendEvents'[k]) = 1
                      /\ sendEvents'[k] # <<>> =>
                            sendEvents'[k][1].error = (fate'[k] # "sent")
    BY <1>1 DEF SendInv
  <2>1. /\ captured \in {NoSend, NoMessage, m}
        /\ captured = NoSend <=> m \in overlapped
        /\ frame.hooked => captured # NoMessage
        /\ m \notin {NoSend, NoMessage}
    BY <1>1, <1>2, <1>4, AmqpAssumption DEF PendingInv, frame
  <2>2. CASE k # m
    <3>1. sendEvents'[k] = sendEvents[k]
      BY <1>1, <1>2, <2>1, <2>2 DEF Typed
    <3> QED BY <1>2, <1>8, <2>2, <3>1 DEF SendInv
  <2>3. CASE k = m
    <3>1. sendEvents[m] = <<>>
      BY <1>2, <1>4 DEF SendInv
    <3>2. CASE captured = m
      <4>1. EventOf(m, error) \in Event /\ EventOf(m, error).error = error
        <5>1. m \in Sent
          BY <1>4 DEF Sent
        <5> QED BY <5>1, RecordedEvent DEF EventOf
      <4>2. sendEvents'[m] = Append(<<>>, EventOf(m, error))
        BY <1>1, <1>2, <1>4, <3>1, <3>2, AmqpAssumption DEF Typed
      <4>3. Len(sendEvents'[m]) = 1 /\ sendEvents'[m][1] = EventOf(m, error)
        BY <4>1, <4>2
      <4>4. error = (how # "sent") /\ how \notin {"unsent", "sending"}
        BY <1>4
      <4>5. k \notin overlapped
        BY <2>1, <2>3, <3>2
      <4> HIDE DEF how
      <4> QED BY <1>8, <2>3, <4>1, <4>3, <4>4, <4>5
    <3>3. CASE captured # m
      <4>1. sendEvents'[m] = <<>> /\ Len(sendEvents'[m]) = 0
        <5>1. sendEvents'[m] = <<>>
          BY <1>1, <2>1, <3>1, <3>3
        <5> QED BY <5>1
      <4>2. how \in {"sent", "failed"} => frame.hooked
        BY <1>1
      <4>3. how # "unsent"
        OBVIOUS
      <4> HIDE DEF how
      <4> QED BY <1>8, <2>1, <2>3, <3>3, <4>1, <4>2, <4>3
    <3> QED BY <3>2, <3>3
  <2> QED BY <2>2, <2>3
<1>15. ReceiveInv'
  BY <1>1, <1>2 DEF ReceiveInv, FirstInvocation
<1> QED BY <1>10, <1>11, <1>12, <1>13, <1>14, <1>15 DEF RInv

LEMMA StepKeepsRInv == IInv /\ RInv /\ [Next]_vars => RInv'
<1> SUFFICES ASSUME IInv, RInv, [Next]_vars PROVE RInv'
  OBVIOUS
<1>1. CASE UNCHANGED vars
  <2>1. FlowInv'
    BY <1>1 DEF RInv, FlowInv, vars, threadVars, brokerVars, historyVars
  <2>2. ListenInv'
    BY <1>1 DEF RInv, ListenInv, FirstCall, Read, vars, threadVars, brokerVars
  <2>3. PendingInv' /\ SendInv'
    BY <1>1 DEF RInv, PendingInv, SendInv, vars, threadVars, eventVars, historyVars
  <2>4. KeptInv'
    <3>1. ASSUME NEW u \in Threads, NEW i \in 1..Len(frames[u])
          PROVE  Kept(u, frames[u][i])'
      <4>1. UNCHANGED <<context, handling, attempts, frames, headers, origin>>
        BY <1>1 DEF vars, threadVars, brokerVars, historyVars
      <4>2. Cause(u)' = Cause(u) /\ Intact(u)' = Intact(u)
        BY <4>1 DEF Cause, Intact, Read
      <4>3. Kept(u, frames[u][i])
        BY DEF RInv, KeptInv
      <4> QED BY <4>1, <4>2, <4>3 DEF Kept
    <3> QED BY <1>1, <3>1 DEF KeptInv, vars, threadVars
  <2>5. ReceiveInv'
    BY <1>1 DEF RInv, ReceiveInv, FirstInvocation, vars, threadVars, brokerVars, eventVars
  <2> QED BY <2>1, <2>2, <2>3, <2>4, <2>5 DEF RInv
<1>2. CASE \E t \in Threads : EndCall(t) \/ \E meta \in Callers : BeginCall(t, meta)
  BY <1>2, CallsKeepR
<1>3. CASE \E t \in Threads, m \in Messages : PostProcessReceived(t, m)
  BY <1>3, PostProcessReceivedKeepsR
<1>4. CASE \E t \in Threads : RejectReceived(t)
  BY <1>4, RejectReceivedKeepsR
<1>5. CASE \E t \in Threads : EnterAdvice(t)
  BY <1>5, EnterAdviceKeepsR
<1>6. CASE \E t \in Threads :
              RetryDelivery(t) \/ \E error \in BOOLEAN : FinishDelivery(t, error)
  BY <1>6, DeliveryEndsKeepR
<1>7. CASE \E t \in Threads, m \in Messages, h \in ApplicationHeaders, arg \in BOOLEAN :
              StartSend(t, m, h, arg)
  BY <1>7, StartSendKeepsR
<1>8. CASE \E t \in Threads : PostProcessPublished(t)
  BY <1>8, PostProcessPublishedKeepsR
<1>9. CASE \E t \in Threads, error \in BOOLEAN : EndSend(t, error)
  BY <1>9, EndSendKeepsR
<1> QED BY <1>1, <1>2, <1>3, <1>4, <1>5, <1>6, <1>7, <1>8, <1>9 DEF Next

THEOREM AmqpRecordsInductive == Spec => [](IInv /\ RInv)
<1>1. IInv /\ RInv /\ [Next]_vars => IInv' /\ RInv'
  BY StepKeepsIInv, StepKeepsRInv
<1> QED BY <1>1, InitiallyIInv, InitiallyRInv, PTL DEF Spec

\* A template call is recorded once, with its outcome, when its message got
\* as far as the post-processor and no other call was made inside it; the
\* outer one of two calls is never recorded, no call is recorded twice or with
\* another outcome, and a delivery that reached a listener is recorded once,
\* however often the application retries it.
THEOREM AmqpRecordedOnce == Spec => []RecordedOnce
  BY AmqpRecordsInductive, RInvRecordsOnce, PTL

\* A message sent by a call, or on the first invocation of a listener whose
\* own message has its metadata, carries all of the metadata it should.
THEOREM AmqpAttributionKept == Spec => []AttributionKept
  BY AmqpRecordsInductive, RInvKeepsAttribution, PTL

-----------------------------------------------------------------------------
(* The recorder implements MessageEvidence                                 *)

\* What the events say of the test, and nothing else.
Attributions(events) == [i \in 1..Len(events) |-> events[i].attribution]

\* A message is issued when the template is called for it.  Events may leave
\* out what a retry has lost of its cause, and a message is sent at most once.
Evidence == INSTANCE MessageEvidence
    WITH issued <- Sent,
         cause <- origin,
         sends <- [m \in Messages |-> Attributions(sendEvents[m])],
         receipts <- [m \in Messages |-> Attributions(receiveEvents[m])],
         Complete <- FALSE,
         Once <- TRUE

EvidenceSpec == Evidence!Spec

\* A thread that serves a call has the metadata of a call.
CallersInv ==
    \A t \in RequestThreads : phase[t] = "running" => context[t] \in Callers

\* Only calls change what a request thread carries.
LEMMA StepKeepsCallers == IInv /\ CallersInv /\ [Next]_vars => CallersInv'
<1> SUFFICES ASSUME IInv, CallersInv, [Next]_vars PROVE CallersInv'
  OBVIOUS
<1>0. /\ context \in [Threads -> Metadata]
      /\ phase \in [Threads -> {"idle", "received", "running"}]
      /\ \A t \in Threads : phase[t] = "received" => t \in ListenerThreads
      /\ RequestThreads \cap ListenerThreads = {} /\ RequestThreads \subseteq Threads
  BY AmqpAssumption DEF IInv, Typed, PhaseInv, Threads
<1>1. CASE UNCHANGED <<context, phase>>
  BY <1>1 DEF CallersInv
<1>2. ASSUME NEW t \in Threads, NEW meta \in Callers, BeginCall(t, meta)
      PROVE  CallersInv'
  BY <1>0, <1>2 DEF BeginCall, CallersInv
<1>3. ASSUME NEW t \in Threads, EndCall(t) PROVE CallersInv'
  BY <1>0, <1>3 DEF EndCall, CallersInv
<1>4. ASSUME NEW t \in Threads, NEW m \in Messages, PostProcessReceived(t, m)
      PROVE  CallersInv'
  BY <1>0, <1>4 DEF PostProcessReceived, CallersInv
<1>5. ASSUME NEW t \in Threads, RejectReceived(t) \/ EnterAdvice(t)
      PROVE  CallersInv'
  BY <1>0, <1>5 DEF RejectReceived, EnterAdvice, CallersInv
<1>6. ASSUME NEW t \in Threads,
             RetryDelivery(t) \/ \E error \in BOOLEAN : FinishDelivery(t, error)
      PROVE  CallersInv'
  BY <1>0, <1>6 DEF RetryDelivery, FinishDelivery, LeaveAdvice, CallersInv
<1> QED
  BY <1>1, <1>2, <1>3, <1>4, <1>5, <1>6
     DEF Next, StartSend, PostProcessPublished, EndSend, vars, threadVars

\* Where nothing was recorded nothing is said, and an event more says one
\* attribution more.
LEMMA NoAttributions == Attributions(<<>>) = <<>>
  BY DEF Attributions

LEMMA AppendedAttribution ==
    ASSUME NEW s \in Seq(Event), NEW e \in Event
    PROVE  Attributions(Append(s, e)) = Append(Attributions(s), e.attribution)
<1>1. /\ Len(s) \in Nat /\ \A i \in 1..Len(s) : s[i] \in Event
      /\ Append(s, e) \in Seq(Event) /\ Len(Append(s, e)) = Len(s) + 1
      /\ \A i \in 1..Len(s) : Append(s, e)[i] = s[i]
      /\ Append(s, e)[Len(s) + 1] = e
  BY AppendProperties, LenProperties, ElementOfSeq
<1>2. \A i \in 1..Len(s) : s[i].attribution \in Metadata
  BY <1>1 DEF Event
<1>3. Attributions(s) \in Seq(Metadata) /\ Len(Attributions(s)) = Len(s)
  BY <1>1, <1>2 DEF Attributions
<1>4. \A i \in 1..(Len(s) + 1) : Append(s, e)[i].attribution \in Metadata
  BY <1>1, <1>2 DEF Event
<1>5. /\ Attributions(Append(s, e)) \in Seq(Metadata)
      /\ Len(Attributions(Append(s, e))) = Len(s) + 1
  BY <1>1, <1>4 DEF Attributions
<1>6. e.attribution \in Metadata
  BY DEF Event
<1>7. /\ Append(Attributions(s), e.attribution) \in Seq(Metadata)
      /\ Len(Append(Attributions(s), e.attribution)) = Len(s) + 1
      /\ \A i \in 1..Len(s) :
            Append(Attributions(s), e.attribution)[i] = Attributions(s)[i]
      /\ Append(Attributions(s), e.attribution)[Len(s) + 1] = e.attribution
  BY <1>3, <1>6, AppendProperties
<1>8. \A i \in 1..(Len(s) + 1) :
          Attributions(Append(s, e))[i] = Append(Attributions(s), e.attribution)[i]
  BY <1>1, <1>7 DEF Attributions
<1> QED BY <1>5, <1>7, <1>8, SeqEqual

\* The cause of a message sent now: a call, or a message that was sent.
LEMMA SendsHaveCauses ==
    ASSUME IInv, RInv, CallersInv, NEW t \in Threads, phase[t] = "running"
    PROVE  \/ handling[t] = NoMessage /\ Cause(t) \in Callers
           \/ handling[t] \in Sent /\ Cause(t) = origin[handling[t]]
<1>1. CASE handling[t] = NoMessage
  <2>1. t \in RequestThreads
    BY <1>1 DEF Threads, IInv, CauseInv
  <2> QED BY <1>1, <2>1 DEF CallersInv, Cause
<1>2. CASE handling[t] # NoMessage
  <2>1. handling[t] \in Messages /\ fate[handling[t]] = "sent"
    BY <1>2 DEF IInv, Typed, RInv, FlowInv
  <2> QED BY <1>2, <2>1 DEF Sent, Cause
<1> QED BY <1>1, <1>2

\* A call of the template issues its message, with the metadata of its cause.
LEMMA StartSendIssues ==
    ASSUME IInv, RInv, CallersInv, NEW t \in Threads, NEW m \in Messages,
           NEW h \in ApplicationHeaders, NEW arg \in BOOLEAN, StartSend(t, m, h, arg)
    PROVE  Evidence!Issue(m)
<1>1. /\ phase[t] = "running" /\ fate[m] = "unsent"
      /\ origin' = [origin EXCEPT ![m] = Attribution(t, h)]
      /\ fate' = [fate EXCEPT ![m] = "sending"]
      /\ UNCHANGED <<sendEvents, receiveEvents>>
  BY DEF StartSend, eventVars
<1>2. fate \in [Messages -> Fates]
  BY DEF IInv, Typed
<1>3. Cause(t) \in Callers \cup {origin[n] : n \in Sent}
  BY <1>1, SendsHaveCauses
<1>4. origin' = [origin EXCEPT ![m] = Read(ApplyContextIfAbsent(h, Cause(t)))]
  BY <1>1 DEF Attribution, Cause
<1>5. Sent' = Sent \cup {m} /\ m \notin Sent
  BY <1>1, <1>2 DEF Sent
<1> QED
  BY <1>1, <1>3, <1>4, <1>5
     DEF Evidence!Issue, Evidence!Causes, Evidence!Read, Evidence!ApplyContextIfAbsent,
         Read, ApplyContextIfAbsent

\* The end of a call of the template records at most the send of its message.
LEMMA EndSendRecords ==
    ASSUME IInv, RInv, NEW t \in Threads, NEW error \in BOOLEAN, EndSend(t, error)
    PROVE  [Evidence!Next]_(Evidence!vars)
<1> DEFINE frame == Last(frames[t])
           m == frame.message
           captured == pending[t]
           e == EventOf(m, error)
<1>1. /\ frames[t] # <<>>
      /\ sendEvents' =
            IF captured \in {NoSend, NoMessage} THEN sendEvents
            ELSE [sendEvents EXCEPT ![captured] = Append(@, EventOf(captured, error))]
      /\ fate' = [fate EXCEPT ![m] = IF ~error THEN "sent"
                                     ELSE IF frame.hooked THEN "failed"
                                     ELSE "failedEarly"]
      /\ UNCHANGED <<receiveEvents, origin>>
  BY DEF EndSend
<1>2. m \in Messages /\ fate[m] = "sending" /\ fate \in [Messages -> Fates]
  <2>1. frames[t] \in Seq(Frame)
    BY DEF IInv, Typed
  <2>2. /\ frame \in Frame /\ frame = frames[t][Len(frames[t])]
        /\ Len(frames[t]) \in 1..Len(frames[t])
    BY <1>1, <2>1, LastPlace
  <2> QED BY <2>2 DEF Frame, RInv, FlowInv, IInv, Typed
<1>3. sendEvents[m] = <<>> /\ sendEvents \in [Messages -> Seq(Event)]
  BY <1>2 DEF IInv, RInv, SendInv, Typed
<1>4. captured \in {NoSend, NoMessage, m}
  BY <1>1 DEF RInv, PendingInv
<1>5. m \in Sent /\ Sent' = Sent
  BY <1>1, <1>2 DEF Sent
<1>6. e \in Event /\ Within(e.attribution, origin[m])
  BY <1>5, RecordedEvent
<1> HIDE DEF frame, e
<1>7. CASE captured \in {NoSend, NoMessage}
  BY <1>1, <1>5, <1>7 DEF Evidence!vars
<1>8. CASE captured \notin {NoSend, NoMessage}
  <2>1. sendEvents' = [sendEvents EXCEPT ![m] = Append(@, e)]
    BY <1>1, <1>4, <1>8 DEF e
  <2>2. Attributions(Append(sendEvents[m], e))
          = Append(Attributions(sendEvents[m]), e.attribution)
    BY <1>2, <1>3, <1>6, AppendedAttribution
  <2>3. [k \in Messages |-> Attributions(sendEvents'[k])]
          = [[k \in Messages |-> Attributions(sendEvents[k])]
                EXCEPT ![m] = Append(@, e.attribution)]
    BY <1>2, <1>3, <2>1, <2>2
  <2>4. Attributions(sendEvents[m]) = <<>> /\ e.attribution \in Metadata
    BY <1>3, <1>6, NoAttributions DEF Event
  <2>5. Evidence!RecordSend(m)
    BY <1>1, <1>2, <1>5, <1>6, <2>3, <2>4
       DEF Evidence!RecordSend, Evidence!Says, Evidence!Metadata, Metadata, Within
  <2> QED BY <1>2, <2>5 DEF Evidence!Next
<1> QED BY <1>7, <1>8

\* An invocation of the listener records a receipt of the message the advice
\* found on the thread, if it found one.
LEMMA LeaveAdviceRecords ==
    ASSUME IInv, NEW t \in Threads, NEW error \in BOOLEAN, LeaveAdvice(t, error),
           UNCHANGED <<sendEvents, origin, fate>>
    PROVE  [Evidence!Next]_(Evidence!vars)
<1> DEFINE m == local[t]
           e == EventOf(m, error)
<1>1. /\ receiveEvents' = IF m = NoMessage THEN receiveEvents
                          ELSE [receiveEvents EXCEPT ![m] = Append(@, e)]
      /\ Sent' = Sent
  BY DEF LeaveAdvice, Sent
<1>2. m \in Sent \cup {NoMessage} /\ receiveEvents \in [Messages -> Seq(Event)]
  BY DEF IInv, SentInv, Typed
<1>3. CASE m = NoMessage
  BY <1>1, <1>3 DEF Evidence!vars
<1>4. CASE m # NoMessage
  <2>1. m \in Sent /\ m \in Messages
    BY <1>2, <1>4 DEF Sent
  <2>2. e \in Event /\ Within(e.attribution, origin[m])
    BY <2>1, RecordedEvent
  <2> HIDE DEF m, e
  <2>3. Attributions(Append(receiveEvents[m], e))
          = Append(Attributions(receiveEvents[m]), e.attribution)
    BY <1>2, <2>1, <2>2, AppendedAttribution
  <2>4. [k \in Messages |-> Attributions(receiveEvents'[k])]
          = [[k \in Messages |-> Attributions(receiveEvents[k])]
                EXCEPT ![m] = Append(@, e.attribution)]
    BY <1>1, <1>2, <1>4, <2>1, <2>3
  <2>5. e.attribution \in Metadata
    BY <2>2 DEF Event
  <2>6. Evidence!RecordReceipt(m)
    BY <1>1, <2>1, <2>2, <2>4, <2>5
       DEF Evidence!RecordReceipt, Evidence!Says, Evidence!Metadata, Metadata, Within
  <2> QED BY <2>1, <2>6 DEF Evidence!Next
<1> QED BY <1>3, <1>4

\* The other steps record nothing and issue nothing.
LEMMA StepImplementsEvidence ==
    IInv /\ RInv /\ CallersInv /\ [Next]_vars => [Evidence!Next]_(Evidence!vars)
<1> SUFFICES ASSUME IInv, RInv, CallersInv, [Next]_vars
             PROVE  [Evidence!Next]_(Evidence!vars)
  OBVIOUS
<1>1. CASE UNCHANGED <<sendEvents, receiveEvents, origin, fate>>
  BY <1>1 DEF Evidence!vars, Sent
<1>2. CASE \E t \in Threads, m \in Messages, h \in ApplicationHeaders, arg \in BOOLEAN :
              StartSend(t, m, h, arg)
  BY <1>2, StartSendIssues DEF Evidence!Next
<1>3. CASE \E t \in Threads, error \in BOOLEAN : EndSend(t, error)
  BY <1>3, EndSendRecords
<1>4. CASE \E t \in Threads :
              RetryDelivery(t) \/ \E error \in BOOLEAN : FinishDelivery(t, error)
  <2>1. PICK t \in Threads, error \in BOOLEAN :
                LeaveAdvice(t, error) /\ UNCHANGED <<sendEvents, origin, fate>>
    BY <1>4 DEF RetryDelivery, FinishDelivery, historyVars
  <2> QED BY <2>1, LeaveAdviceRecords
<1> QED
  BY <1>1, <1>2, <1>3, <1>4
     DEF Next, BeginCall, EndCall, PostProcessReceived, RejectReceived, EnterAdvice,
         PostProcessPublished, vars, eventVars, historyVars

\* The template's advice, the post-processors and the listener advice, with
\* their thread-locals, record messages as MessageEvidence says: every message
\* is caused by a call, or by a message before it, when the template is called
\* for it; its send is recorded at most once and its receipts one by one, none
\* before that and none ever changed, each with the metadata of the cause or,
\* where a retry has lost it, without.
THEOREM AmqpImplementsMessageEvidence == Spec => EvidenceSpec
<1>1. Init => Evidence!Init /\ CallersInv
  <2> SUFFICES ASSUME Init PROVE Evidence!Init /\ CallersInv
    OBVIOUS
  <2>1. Sent = {}
    BY DEF Init, Sent
  <2>2. \A m \in Messages : /\ Attributions(sendEvents[m]) = <<>>
                            /\ Attributions(receiveEvents[m]) = <<>>
    BY NoAttributions DEF Init
  <2> QED
    BY <2>1, <2>2
       DEF Init, CallersInv, Threads, Evidence!Init, Evidence!NoMetadata, NoMetadata
<1> QED
  BY <1>1, StepKeepsCallers, StepImplementsEvidence, AmqpRecordsInductive, PTL
     DEF Spec, EvidenceSpec, Evidence!Spec

\* Where the application sets no test by itself, all that is sent is caused,
\* in the end, by one call.
CausesInv ==
    ApplicationHeaders \subseteq {NoHeaders} => \A m \in Sent : origin[m] \in Callers

\* Only a new send has a new cause.
LEMMA StepKeepsCauses ==
    IInv /\ RInv /\ CallersInv /\ CausesInv /\ [Next]_vars => CausesInv'
<1> SUFFICES ASSUME IInv, RInv, CallersInv, CausesInv, [Next]_vars,
                    ApplicationHeaders \subseteq {NoHeaders}, NEW k \in Sent'
             PROVE  origin'[k] \in Callers
  BY DEF CausesInv
<1>1. /\ fate \in [Messages -> Fates] /\ origin \in [Messages -> Metadata]
      /\ \A n \in Sent : origin[n] \in Callers
  BY DEF IInv, Typed, CausesInv
<1>2. CASE UNCHANGED <<origin, fate>>
  BY <1>1, <1>2 DEF Sent
<1>3. ASSUME NEW t \in Threads, NEW m \in Messages, NEW h \in ApplicationHeaders,
             NEW arg \in BOOLEAN, StartSend(t, m, h, arg)
      PROVE  origin'[k] \in Callers
  <2>1. /\ phase[t] = "running" /\ origin' = [origin EXCEPT ![m] = Attribution(t, h)]
        /\ fate' = [fate EXCEPT ![m] = "sending"]
    BY <1>3 DEF StartSend
  <2>2. Cause(t) \in Callers
    BY <1>1, <2>1, SendsHaveCauses
  <2>3. Cause(t) \in Metadata /\ h = NoHeaders
    BY <2>2, AmqpAssumption
  <2>4. Attribution(t, h) = Read(ApplyContextIfAbsent(h, Cause(t)))
    BY DEF Attribution, Cause
  <2>5. Attribution(t, h) = Cause(t)
    BY <2>3, <2>4, UnreadableAssumption
       DEF Read, ApplyContextIfAbsent, NoHeaders, NoMetadata, Metadata
  <2> QED BY <1>1, <2>1, <2>2, <2>5 DEF Sent
<1>4. ASSUME NEW t \in Threads, NEW error \in BOOLEAN, EndSend(t, error)
      PROVE  origin'[k] \in Callers
  <2> DEFINE m == Last(frames[t]).message
  <2>1. frames[t] # <<>> /\ frames[t] \in Seq(Frame) /\ origin' = origin
    BY <1>4 DEF EndSend, IInv, Typed
  <2>2. fate[m] = "sending"
    BY <2>1, LastPlace DEF RInv, FlowInv
  <2>3. k # m => fate[k] = fate'[k]
    BY <1>1, <1>4 DEF EndSend, Sent
  <2>4. k \in Sent
    BY <2>2, <2>3 DEF Sent
  <2> QED BY <1>1, <2>1, <2>4
<1> QED
  BY <1>2, <1>3, <1>4
     DEF Next, BeginCall, EndCall, PostProcessReceived, RejectReceived, EnterAdvice,
         FinishDelivery, RetryDelivery, PostProcessPublished, vars, historyVars

\* No event mixes the run of one test with the suite of another, though it may
\* lack one of them or both.
THEOREM AmqpOneTestPerEvent == Spec => []Evidence!OneTestPerEvent
<1>1. Init => CallersInv /\ CausesInv
  BY DEF Init, CallersInv, CausesInv, Sent, Threads
<1>2. IInv /\ CausesInv => Evidence!OneTestPerEvent
  <2> SUFFICES ASSUME IInv, CausesInv, ApplicationHeaders \subseteq {NoHeaders},
                      NEW m \in Messages
               PROVE  /\ \A i \in DOMAIN Attributions(sendEvents[m]) : \E c \in Callers :
                            Evidence!ComesFrom(Attributions(sendEvents[m])[i], c)
                      /\ \A i \in DOMAIN Attributions(receiveEvents[m]) : \E c \in Callers :
                            Evidence!ComesFrom(Attributions(receiveEvents[m])[i], c)
    BY DEF Evidence!OneTestPerEvent, Evidence!NoHeaders, Evidence!NoMetadata,
           NoHeaders, NoMetadata
  <2>1. /\ m \notin Sent => sendEvents[m] = <<>> /\ receiveEvents[m] = <<>>
        /\ sendEvents[m] \in Seq(Event) /\ receiveEvents[m] \in Seq(Event)
    BY DEF IInv, SentInv, Typed
  <2>2. ASSUME NEW s \in {sendEvents[m], receiveEvents[m]},
               NEW i \in DOMAIN Attributions(s)
        PROVE  \E c \in Callers : Evidence!ComesFrom(Attributions(s)[i], c)
    <3>1. s \in Seq(Event) /\ i \in 1..Len(s) /\ DOMAIN s = 1..Len(s)
      BY <2>1, <2>2, LenProperties DEF Attributions
    <3>2. s # <<>> /\ s[i] \in Events(m)
      BY <3>1, EmptySeq DEF Events, ToSet
    <3>3. Attributions(s)[i] = s[i].attribution /\ origin[m] \in Callers
      BY <2>1, <3>1, <3>2 DEF Attributions, CausesInv
    <3>4. \A k \in {"run", "suite"} : s[i].attribution[k] \in {origin[m][k], Null}
      BY <3>2 DEF IInv, NoForeignAttribution
    <3> QED BY <3>3, <3>4 DEF Evidence!ComesFrom
  <2> QED BY <2>2
<1> QED
  BY <1>1, <1>2, StepKeepsCallers, StepKeepsCauses, AmqpRecordsInductive, PTL DEF Spec

=============================================================================
