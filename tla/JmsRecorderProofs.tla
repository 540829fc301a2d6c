-------------------------- MODULE JmsRecorderProofs --------------------------
(***************************************************************************)
(* What the ActiveMQ recorder records of a message is what its cause and   *)
(* the application gave it, once, under its destination, for any number of *)
(* pooled threads, messages, nested sends and redeliveries.                *)
(*                                                                         *)
(* The inductive invariant says where each message is (FlowInv), what a    *)
(* thread carries (ThreadInv), what is pending of its innermost send       *)
(* (PendingInv), what the messages of its sends say (KeptInv) and what     *)
(* those say that are at the broker (MessageInv).                          *)
(***************************************************************************)
EXTENDS JmsRecorder, SequenceTheorems, TLAPS

-----------------------------------------------------------------------------
(* The inductive invariant                                                 *)

\* The types, with the bounded counter any number.
Typed ==
    /\ context \in [Threads -> Metadata]
    /\ pending \in [Threads -> Messages \cup {NoMessage, NoSend}]
    /\ busy \subseteq Threads
    /\ handling \in [Threads -> Messages \cup {NoMessage}]
    /\ frames \in [Threads -> Seq(Frame)]
    /\ headers \in [Messages -> Headers]
    /\ queue \subseteq Messages
    /\ deliveries \in [Messages -> Nat]
    /\ sendEvents \in [Messages -> Seq(Event)]
    /\ receiveEvents \in [Messages -> Seq(Event)]
    /\ call \in [Messages -> Calls \cup {<<>>}]
    /\ origin \in [Messages -> Metadata]
    /\ fate \in [Messages -> Fates]

\* The sends in progress are of messages of their own, and so are the
\* messages the listeners run for; the queue has messages that were sent.
FlowInv ==
    /\ \A t \in Threads : \A i \in 1..Len(frames[t]) :
          fate[frames[t][i].message] = "sending"
    /\ \A t, u \in Threads : \A i \in 1..Len(frames[t]) : \A j \in 1..Len(frames[u]) :
          frames[t][i].message = frames[u][j].message => t = u /\ i = j
    /\ \A m \in queue : fate[m] = "sent"
    /\ \A t \in Threads : handling[t] # NoMessage =>
          /\ fate[handling[t]] = "sent" /\ handling[t] \notin queue
          /\ \A u \in Threads : handling[u] = handling[t] => u = t

\* A thread without work carries nothing, one that runs a listener has the
\* metadata its message should have.
ThreadInv ==
    \A t \in Threads :
        /\ t \notin busy => context[t] = NoMetadata /\ frames[t] = <<>>
        /\ frames[t] = <<>> => pending[t] = NoSend
        /\ handling[t] = NoMessage <=> t \notin ListenerThreads \cap busy
        /\ handling[t] # NoMessage => context[t] = origin[handling[t]]

\* What is pending is the innermost message once it is captured, or nothing
\* if another send was made inside its call; the outer messages are marked.
PendingInv ==
    \A t \in Threads : frames[t] # <<>> =>
        LET f == Last(frames[t])
        IN  /\ pending[t] \in {NoSend, NoMessage, f.message}
            /\ pending[t] = f.message => f.captured
            /\ pending[t] = NoSend <=> f.message \in overlapped
            /\ f.captured => pending[t] # NoMessage
            /\ \A i \in 1..(Len(frames[t]) - 1) : frames[t][i].message \in overlapped

\* Until it is captured a message has its application's headers, and from
\* then on all it should have.
Kept(t, f) ==
    /\ ~f.captured => origin[f.message]
                         = Read(ApplyContextIfAbsent(headers[f.message], context[t]))
    /\ f.captured => /\ Read(headers[f.message]) = origin[f.message]
                     /\ Dispatch(call[f.message]) = Meaning(call[f.message])
    /\ f.hint = DestinationHint(call[f.message])

KeptInv == \A t \in Threads : \A i \in 1..Len(frames[t]) : Kept(t, frames[t][i])

MessageInv ==
    \A m \in Messages :
        /\ fate[m] = "sent" => Read(headers[m]) = origin[m]
        /\ fate[m] # "sent" => receiveEvents[m] = <<>>
        /\ fate[m] # "unsent" => call[m] \in Calls

\* RecordedOnce, for what is sent ...
SendInv ==
    \A m \in Messages :
        /\ m \in overlapped => fate[m] # "unsent"
        /\ ~Recorded(m) => sendEvents[m] = <<>>
        /\ Recorded(m) => /\ Len(sendEvents[m]) = 1
                          /\ sendEvents[m][1].error = (fate[m] = "failed")

\* ... and for what is received.
Running(m) == \E t \in Threads : handling[t] = m

ReceiveInv ==
    \A m \in Messages :
        deliveries[m] = Len(receiveEvents[m]) + (IF Running(m) THEN 1 ELSE 0)

IInv ==
    /\ Typed /\ FlowInv /\ ThreadInv /\ PendingInv /\ KeptInv /\ MessageInv
    /\ SendInv /\ ReceiveInv /\ EventsCarryTheirOrigin

-----------------------------------------------------------------------------
(* Metadata, channels and frames                                            *)

LEMMA ReadTyped == ASSUME NEW h \in Headers PROVE Read(h) \in Metadata
  BY UnreadableAssumption DEF Headers, Metadata, Read

LEMMA ApplyTyped ==
    ASSUME NEW h \in Headers, NEW c \in Metadata
    PROVE  ApplyContextIfAbsent(h, c) \in Headers
  BY DEF Headers, Metadata, ApplyContextIfAbsent

LEMMA NoMetadataTyped == NoMetadata \in Metadata
  BY DEF Metadata, NoMetadata

\* The last argument, and those before it.
LEMMA Arguments ==
    ASSUME NEW a, NEW b, NEW c
    PROVE  /\ Last(<<a>>) = a
           /\ Last(<<a, b>>) = b /\ Front(<<a, b>>) = <<a>>
           /\ Last(<<a, b, c>>) = c /\ Front(<<a, b, c>>) = <<a, b>>
<1>1. Last(<<a>>) = a /\ Last(<<a, b>>) = b /\ Last(<<a, b, c>>) = c
  BY DEF Last
<1> DEFINE S == {a, b, c}
<1>2. Front(<<a, b>>) = <<a>>
  <2>1. /\ Front(<<a, b>>) \in Seq(S) /\ Len(Front(<<a, b>>)) = 1
        /\ Front(<<a, b>>)[1] = a
    <3>1. \A i \in 1..1 : <<a, b>>[i] \in S
      OBVIOUS
    <3> QED BY <3>1, SubSeqProperties DEF Front
  <2> QED BY <2>1, SeqEqual
<1>3. Front(<<a, b, c>>) = <<a, b>>
  <2>1. /\ Front(<<a, b, c>>) \in Seq(S) /\ Len(Front(<<a, b, c>>)) = 2
        /\ Front(<<a, b, c>>)[1] = a /\ Front(<<a, b, c>>)[2] = b
    <3>1. \A i \in 1..2 : <<a, b, c>>[i] \in S
      OBVIOUS
    <3> QED BY <3>1, SubSeqProperties DEF Front
  <2> QED BY <2>1, SeqEqual
<1> QED BY <1>1, <1>2, <1>3

\* What is meant, dispatched and recorded, by the number of arguments.
LEMMA OnlyPayload ==
    ASSUME NEW a, a # "PostProcessor"
    PROVE  /\ Meaning(<<a>>).destination = "Default"
           /\ Meaning(<<a, "PostProcessor">>).destination = "Default"
           /\ Dispatch(<<a, "PostProcessor">>).destination
                 = IF LooksLikeDestination(a) THEN a ELSE "Default"
<1>1. /\ Last(<<a>>) = a
      /\ Last(<<a, "PostProcessor">>) = "PostProcessor" /\ Front(<<a, "PostProcessor">>) = <<a>>
  BY Arguments
<1>2. Meaning(<<a>>) = [destination |-> "Default", payload |-> a]
  BY <1>1 DEF Meaning
<1>3. Meaning(<<a, "PostProcessor">>) = [destination |-> "Default", payload |-> a]
  BY <1>1 DEF Meaning
<1>4. Dispatch(<<a, "PostProcessor">>).destination
         = IF LooksLikeDestination(a) THEN a ELSE "Default"
  BY DEF Dispatch
<1> QED BY <1>2, <1>3, <1>4

LEMMA NamedDestination ==
    ASSUME NEW a, NEW b, b # "PostProcessor"
    PROVE  /\ Meaning(<<a, b>>).destination = a
           /\ Meaning(<<a, b, "PostProcessor">>).destination = a
<1>1. /\ Last(<<a, b>>) = b
      /\ Last(<<a, b, "PostProcessor">>) = "PostProcessor"
      /\ Front(<<a, b, "PostProcessor">>) = <<a, b>>
  BY Arguments
<1>2. Meaning(<<a, b>>) = [destination |-> a, payload |-> b]
  BY <1>1 DEF Meaning
<1>3. Meaning(<<a, b, "PostProcessor">>) = [destination |-> a, payload |-> b]
  BY <1>1 DEF Meaning
<1> QED BY <1>2, <1>3

\* What the advice records a call under is what the application named, if it
\* hands on what the application meant; a text alone is taken for a name.
LEMMA SignatureChannels ==
    ASSUME NEW args \in Signatures
    PROVE  /\ Meaning(args).destination \in Channels
           /\ DestinationHint(args) \in Channels
           /\ args # <<"Text">> /\ Dispatch(args) = Meaning(args) =>
                 DestinationHint(args) = Meaning(args).destination
           /\ args = <<"Text">> => DestinationHint(args) = "Text"
<1>1. CASE \E p \in {"Creator", "Text", "Object"} : args = <<p>>
  <2>1. PICK p \in {"Creator", "Text", "Object"} : args = <<p>>
    BY <1>1
  <2>2. Meaning(args).destination = "Default"
    BY <2>1, OnlyPayload
  <2>3. args # <<"Text">> => p # "Text"
    BY <2>1
  <2> QED BY <2>1, <2>2, <2>3 DEF DestinationHint, LooksLikeDestination, Channels
<1>2. CASE \E p \in {"Text", "Object"} : args = <<p, "PostProcessor">>
  <2>1. PICK p \in {"Text", "Object"} : args = <<p, "PostProcessor">>
    BY <1>2
  <2>2. /\ Meaning(args).destination = "Default"
        /\ Dispatch(args).destination = IF LooksLikeDestination(p) THEN p ELSE "Default"
    BY <2>1, OnlyPayload
  <2>3. DestinationHint(args) = IF LooksLikeDestination(p) THEN p ELSE "Default"
    BY <2>1 DEF DestinationHint
  <2> QED BY <2>1, <2>2, <2>3 DEF LooksLikeDestination, Channels
<1>3. CASE \E d \in {"Destination", "Name"}, p \in {"Creator", "Text", "Object"} :
              args = <<d, p>> \/ args = <<d, p, "PostProcessor">>
  <2>1. PICK d \in {"Destination", "Name"}, p \in {"Creator", "Text", "Object"} :
                args = <<d, p>> \/ args = <<d, p, "PostProcessor">>
    BY <1>3
  <2>2. Meaning(args).destination = d
    BY <2>1, NamedDestination
  <2> QED BY <2>1, <2>2 DEF DestinationHint, LooksLikeDestination, Channels
<1> QED BY <1>1, <1>2, <1>3 DEF Signatures

\* The last frame and the others, by their places.
LEMMA LastPlace ==
    ASSUME NEW s \in Seq(Frame), s # <<>>
    PROVE  /\ Len(s) \in Nat \ {0} /\ Len(s) \in 1..Len(s)
           /\ Last(s) = s[Len(s)] /\ Last(s) \in Frame
           /\ Front(s) \in Seq(Frame) /\ Len(Front(s)) = Len(s) - 1
           /\ \A i \in 1..(Len(s) - 1) : Front(s)[i] = s[i]
<1>1. Len(s) \in Nat \ {0} /\ \A i \in 1..Len(s) : s[i] \in Frame
  BY LenProperties, ElementOfSeq, EmptySeq
<1>2. Len(s) \in 1..Len(s)
  BY <1>1
<1>3. Last(s) = s[Len(s)]
  BY DEF Last
<1>4. \A i \in 1..(Len(s) - 1) : s[i] \in Frame
  BY <1>1
<1>5. /\ Front(s) \in Seq(Frame)
      /\ \A i \in 1..(Len(s) - 1) : Front(s)[i] = s[1 + i - 1]
      /\ Len(Front(s)) = IF 1 <= Len(s) - 1 THEN (Len(s) - 1) - 1 + 1 ELSE 0
  BY <1>1, <1>4, SubSeqProperties DEF Front
<1>6. \A n \in Nat \ {0} : /\ (IF 1 <= n - 1 THEN (n - 1) - 1 + 1 ELSE 0) = n - 1
                           /\ \A i \in 1..(n - 1) : 1 + i - 1 = i
  OBVIOUS
<1> QED BY <1>1, <1>2, <1>3, <1>5, <1>6

LEMMA AppendedPlace ==
    ASSUME NEW s \in Seq(Frame), NEW f \in Frame
    PROVE  /\ Len(s) \in Nat
           /\ Append(s, f) \in Seq(Frame) /\ Append(s, f) # <<>>
           /\ Len(Append(s, f)) = Len(s) + 1
           /\ \A i \in 1..Len(s) : Append(s, f)[i] = s[i]
           /\ Append(s, f)[Len(s) + 1] = f
           /\ Last(Append(s, f)) = f
<1>1. /\ Len(s) \in Nat
      /\ Append(s, f) \in Seq(Frame) /\ Len(Append(s, f)) = Len(s) + 1
      /\ \A i \in 1..Len(s) : Append(s, f)[i] = s[i]
      /\ Append(s, f)[Len(s) + 1] = f
  BY AppendProperties, LenProperties
<1>2. Append(s, f) # <<>>
  BY <1>1
<1>3. Last(Append(s, f)) = f
  BY <1>1 DEF Last
<1> QED BY <1>1, <1>2, <1>3

LEMMA AppendedEvent ==
    ASSUME NEW s \in Seq(Event), NEW e \in Event
    PROVE  /\ Append(s, e) \in Seq(Event)
           /\ Len(s) \in Nat /\ Len(Append(s, e)) = Len(s) + 1
           /\ \A x \in ToSet(Append(s, e)) : x \in ToSet(s) \/ x = e
<1>1. /\ Len(s) \in Nat /\ DOMAIN s = 1..Len(s)
      /\ Append(s, e) \in Seq(Event) /\ Len(Append(s, e)) = Len(s) + 1
      /\ DOMAIN Append(s, e) = 1..(Len(s) + 1)
      /\ \A i \in 1..Len(s) : Append(s, e)[i] = s[i]
      /\ Append(s, e)[Len(s) + 1] = e
  BY AppendProperties, LenProperties
<1>2. \A n \in Nat : \A i \in 1..(n + 1) : i \in 1..n \/ i = n + 1
  OBVIOUS
<1>3. \A i \in DOMAIN Append(s, e) : Append(s, e)[i] \in ToSet(s) \/ Append(s, e)[i] = e
  BY <1>1, <1>2 DEF ToSet
<1> QED BY <1>1, <1>3 DEF ToSet

-----------------------------------------------------------------------------
(* The steps                                                               *)

LEMMA InitiallyIInv == Init => IInv
<1> SUFFICES ASSUME Init PROVE IInv
  OBVIOUS
<1>1. Typed
  BY JmsAssumption DEF Init, Typed, Metadata, Headers, NoMetadata, NoHeaders, Fates
<1>2. FlowInv /\ ThreadInv /\ PendingInv /\ KeptInv
  BY DEF Init, FlowInv, ThreadInv, PendingInv, KeptInv
<1>3. MessageInv /\ SendInv
  BY DEF Init, MessageInv, SendInv, Recorded
<1>4. ReceiveInv
  BY JmsAssumption DEF Init, ReceiveInv, Running
<1>5. EventsCarryTheirOrigin
  BY DEF Init, EventsCarryTheirOrigin, Events, ToSet
<1> QED BY <1>1, <1>2, <1>3, <1>4, <1>5 DEF IInv

\* KeptInv of the next state, written out.
LEMMA KeptPrimed ==
    ASSUME \A u \in Threads : \A i \in 1..Len(frames'[u]) : \A g : g = frames'[u][i] =>
              /\ ~g.captured => origin'[g.message]
                    = Read(ApplyContextIfAbsent(headers'[g.message], context'[u]))
              /\ g.captured => /\ Read(headers'[g.message]) = origin'[g.message]
                               /\ Dispatch(call'[g.message]) = Meaning(call'[g.message])
              /\ g.hint = DestinationHint(call'[g.message])
    PROVE  KeptInv'
  BY DEF KeptInv, Kept

\* A step of a thread that has no send in progress leaves those of the others.
LEMMA OutsideSendsKeep ==
    ASSUME IInv, NEW t \in Threads, frames[t] = <<>>,
           UNCHANGED <<pending, frames, headers, historyVars>>,
           \A u \in Threads \ {t} : context'[u] = context[u]
    PROVE  PendingInv' /\ KeptInv'
<1>1. PendingInv'
  BY DEF IInv, PendingInv, historyVars
<1>2. KeptInv'
  <2> SUFFICES ASSUME NEW u \in Threads, NEW i \in 1..Len(frames'[u]),
                      NEW g, g = frames'[u][i]
               PROVE  /\ ~g.captured => origin'[g.message]
                            = Read(ApplyContextIfAbsent(headers'[g.message], context'[u]))
                      /\ g.captured => /\ Read(headers'[g.message]) = origin'[g.message]
                                       /\ Dispatch(call'[g.message]) = Meaning(call'[g.message])
                      /\ g.hint = DestinationHint(call'[g.message])
    BY KeptPrimed
  <2>1. u # t
    OBVIOUS
  <2>2. Kept(u, g)
    BY DEF IInv, KeptInv
  <2> QED BY <2>1, <2>2 DEF Kept, historyVars
<1> QED BY <1>1, <1>2

LEMMA CallsKeep ==
    ASSUME IInv, NEW t \in Threads,
           EndCall(t) \/ \E meta \in Callers : BeginCall(t, meta)
    PROVE  IInv'
<1>1. /\ t \in RequestThreads /\ t \notin ListenerThreads
      /\ \/ \E meta \in Metadata : /\ context' = [context EXCEPT ![t] = meta]
                                   /\ busy' = busy \cup {t} /\ t \notin busy
         \/ /\ context' = [context EXCEPT ![t] = NoMetadata]
            /\ busy' = busy \ {t} /\ frames[t] = <<>>
      /\ UNCHANGED <<pending, handling, frames, headers, queue, deliveries,
                     sendEvents, receiveEvents, call, origin, fate, overlapped>>
  BY JmsAssumption DEF BeginCall, EndCall, brokerVars, eventVars, historyVars
<1>2. /\ Typed /\ FlowInv /\ ThreadInv /\ PendingInv /\ KeptInv /\ MessageInv
      /\ SendInv /\ ReceiveInv /\ EventsCarryTheirOrigin
  BY DEF IInv
<1>3. frames[t] = <<>> /\ handling[t] = NoMessage
  BY <1>1, <1>2 DEF ThreadInv
<1>4. /\ \A u \in Threads \ {t} : context'[u] = context[u]
      /\ t \notin busy' => context'[t] = NoMetadata
  BY <1>1, <1>2 DEF Typed
<1>5. Typed'
  BY <1>1, <1>2, NoMetadataTyped DEF Typed
<1>6. PendingInv' /\ KeptInv'
  BY <1>1, <1>3, <1>4, OutsideSendsKeep DEF historyVars
<1>7. FlowInv' /\ MessageInv' /\ SendInv'
  BY <1>1, <1>2 DEF FlowInv, MessageInv, SendInv, Recorded, Read
<1>8. ThreadInv'
  <2>1. \A u \in Threads : u \in ListenerThreads \cap busy' <=> u \in ListenerThreads \cap busy
    BY <1>1
  <2>2. \A u \in Threads : u # t => (u \in busy' <=> u \in busy)
    BY <1>1
  <2> QED BY <1>1, <1>2, <1>3, <1>4, <2>1, <2>2 DEF ThreadInv
<1>9. ReceiveInv' /\ EventsCarryTheirOrigin'
  BY <1>1, <1>2 DEF ReceiveInv, Running, EventsCarryTheirOrigin, Events
<1> QED BY <1>5, <1>6, <1>7, <1>8, <1>9 DEF IInv

\* A listener's thread takes a message and what its properties say.
LEMMA ListenKeeps ==
    ASSUME IInv, NEW t \in Threads, NEW m \in Messages, Listen(t, m)
    PROVE  IInv'
<1>1. /\ t \in ListenerThreads /\ t \notin RequestThreads /\ t \notin busy
      /\ m \in queue /\ queue' = queue \ {m}
      /\ context' = [context EXCEPT ![t] = Read(headers[m])]
      /\ handling' = [handling EXCEPT ![t] = m]
      /\ busy' = busy \cup {t}
      /\ deliveries' = [deliveries EXCEPT ![m] = @ + 1]
      /\ UNCHANGED <<pending, frames, headers, sendEvents, receiveEvents,
                     call, origin, fate, overlapped>>
  BY JmsAssumption DEF Listen, eventVars, historyVars
<1>2. /\ Typed /\ FlowInv /\ ThreadInv /\ PendingInv /\ KeptInv /\ MessageInv
      /\ SendInv /\ ReceiveInv /\ EventsCarryTheirOrigin
  BY DEF IInv
<1>3. /\ frames[t] = <<>> /\ handling[t] = NoMessage /\ m # NoMessage
      /\ fate[m] = "sent" /\ \A u \in Threads : handling[u] # m
      /\ Read(headers[m]) = origin[m] /\ origin[m] \in Metadata
  BY <1>1, <1>2, JmsAssumption DEF ThreadInv, FlowInv, MessageInv, Typed
<1>4. /\ \A u \in Threads \ {t} : context'[u] = context[u] /\ handling'[u] = handling[u]
      /\ context'[t] = origin[m] /\ handling'[t] = m
  BY <1>1, <1>2, <1>3 DEF Typed
<1>5. Typed'
  <2>1. deliveries' \in [Messages -> Nat]
    <3>1. deliveries \in [Messages -> Nat] /\ deliveries[m] + 1 \in Nat
      BY <1>2 DEF Typed
    <3> QED BY <1>1, <3>1
  <2> QED BY <1>1, <1>2, <1>3, <2>1 DEF Typed
<1>6. PendingInv' /\ KeptInv'
  BY <1>1, <1>3, <1>4, OutsideSendsKeep DEF historyVars
<1>7. FlowInv'
  BY <1>1, <1>2, <1>3, <1>4 DEF FlowInv
<1>8. MessageInv' /\ SendInv'
  BY <1>1, <1>2 DEF MessageInv, SendInv, Recorded, Read
<1>9. ThreadInv'
  <2>1. \A u \in Threads : u # t => (u \in busy' <=> u \in busy)
    BY <1>1
  <2> QED BY <1>1, <1>2, <1>3, <1>4, <2>1 DEF ThreadInv
<1>10. ReceiveInv'
  <2> SUFFICES ASSUME NEW n \in Messages
               PROVE  deliveries'[n] = Len(receiveEvents[n]) + (IF Running(n)' THEN 1 ELSE 0)
    BY <1>1 DEF ReceiveInv
  <2>1. /\ deliveries[n] = Len(receiveEvents[n]) + (IF Running(n) THEN 1 ELSE 0)
        /\ Len(receiveEvents[n]) \in Nat
    <3>1. receiveEvents[n] \in Seq(Event)
      BY <1>2 DEF Typed
    <3> QED BY <1>2, <3>1, LenProperties DEF ReceiveInv
  <2>2. CASE n = m
    <3>1. Running(m)' /\ ~Running(m)
      BY <1>3, <1>4 DEF Running
    <3>2. deliveries'[m] = deliveries[m] + 1
      BY <1>1, <1>2 DEF Typed
    <3> QED BY <2>1, <2>2, <3>1, <3>2
  <2>3. CASE n # m
    <3>1. Running(n)' = Running(n)
      <4>1. n # NoMessage
        BY JmsAssumption
      <4> QED BY <1>3, <1>4, <2>3, <4>1 DEF Running
    <3>2. deliveries'[n] = deliveries[n]
      BY <1>1, <1>2, <2>3 DEF Typed
    <3> QED BY <2>1, <3>1, <3>2
  <2> QED BY <2>2, <2>3
<1>11. EventsCarryTheirOrigin'
  BY <1>1, <1>2 DEF EventsCarryTheirOrigin, Events
<1> QED BY <1>5, <1>6, <1>7, <1>8, <1>9, <1>10, <1>11 DEF IInv

\* A listener is done: the receive is recorded and its thread is cleared.
LEMMA FinishListeningKeeps ==
    ASSUME IInv, NEW t \in Threads, NEW error \in BOOLEAN, FinishListening(t, error),
           NEW m, m = handling[t]
    PROVE  IInv'
<1> DEFINE e == EventOf(m, Meaning(call[m]).destination, error)
<1>1. /\ t \in ListenerThreads /\ t \in busy /\ frames[t] = <<>>
      /\ receiveEvents' = [receiveEvents EXCEPT ![m] = Append(@, e)]
      /\ context' = [context EXCEPT ![t] = NoMetadata]
      /\ handling' = [handling EXCEPT ![t] = NoMessage]
      /\ busy' = busy \ {t}
      /\ queue' \subseteq queue \cup {m}
      /\ UNCHANGED <<pending, frames, headers, deliveries, sendEvents,
                     call, origin, fate, overlapped>>
  BY DEF FinishListening, historyVars
<1>2. /\ Typed /\ FlowInv /\ ThreadInv /\ PendingInv /\ KeptInv /\ MessageInv
      /\ SendInv /\ ReceiveInv /\ EventsCarryTheirOrigin
  BY DEF IInv
<1>3. m \in Messages /\ m # NoMessage /\ fate[m] = "sent" /\ Read(headers[m]) = origin[m]
  BY <1>1, <1>2 DEF ThreadInv, FlowInv, MessageInv, Typed
<1>4. e \in Event /\ e.attribution = origin[m]
  <2>1. Read(headers[m]) \in Metadata
    BY <1>2, <1>3, ReadTyped DEF Typed
  <2>2. Meaning(call[m]).destination \in Channels
    BY <1>2, <1>3, JmsAssumption, SignatureChannels DEF MessageInv
  <2> QED BY <1>3, <2>1, <2>2 DEF EventOf, Event
<1> HIDE DEF e
<1>5. /\ \A u \in Threads \ {t} : context'[u] = context[u] /\ handling'[u] = handling[u]
      /\ context'[t] = NoMetadata /\ handling'[t] = NoMessage
  BY <1>1, <1>2 DEF Typed
<1>6. /\ receiveEvents[m] \in Seq(Event)
      /\ receiveEvents'[m] = Append(receiveEvents[m], e)
      /\ \A n \in Messages \ {m} : receiveEvents'[n] = receiveEvents[n]
  BY <1>1, <1>2, <1>3 DEF Typed
<1>7. /\ Append(receiveEvents[m], e) \in Seq(Event)
      /\ Len(receiveEvents[m]) \in Nat
      /\ Len(receiveEvents'[m]) = Len(receiveEvents[m]) + 1
      /\ \A x \in ToSet(receiveEvents'[m]) : x \in ToSet(receiveEvents[m]) \/ x = e
  BY <1>4, <1>6, AppendedEvent
<1>8. Typed'
  BY <1>1, <1>2, <1>3, <1>7, NoMetadataTyped DEF Typed
<1>9. PendingInv' /\ KeptInv'
  BY <1>1, <1>5, OutsideSendsKeep DEF historyVars
<1>10. FlowInv'
  BY <1>1, <1>2, <1>3, <1>5 DEF FlowInv
<1>11. MessageInv'
  <2>1. \A n \in Messages : fate[n] # "sent" => receiveEvents'[n] = <<>>
    BY <1>2, <1>3, <1>6 DEF MessageInv
  <2> QED BY <1>1, <1>2, <2>1 DEF MessageInv, Read
<1>12. SendInv'
  BY <1>1, <1>2 DEF SendInv, Recorded
<1>13. ThreadInv'
  <2>1. \A u \in Threads : u # t => (u \in busy' <=> u \in busy)
    BY <1>1
  <2>2. t \notin busy'
    BY <1>1
  <2> QED BY <1>1, <1>2, <1>5, <2>1, <2>2 DEF ThreadInv
<1>14. ReceiveInv'
  <2> SUFFICES ASSUME NEW n \in Messages
               PROVE  deliveries[n] = Len(receiveEvents'[n]) + (IF Running(n)' THEN 1 ELSE 0)
    BY <1>1 DEF ReceiveInv
  <2>1. /\ deliveries[n] = Len(receiveEvents[n]) + (IF Running(n) THEN 1 ELSE 0)
        /\ Len(receiveEvents[n]) \in Nat
    <3>1. receiveEvents[n] \in Seq(Event)
      BY <1>2 DEF Typed
    <3> QED BY <1>2, <3>1, LenProperties DEF ReceiveInv
  <2>2. CASE n = m
    <3>1. Running(m) /\ ~Running(m)'
      BY <1>2, <1>3, <1>5 DEF Running, FlowInv
    <3> QED BY <1>7, <2>1, <2>2, <3>1
  <2>3. CASE n # m
    <3>1. Running(n)' = Running(n)
      <4>1. n # NoMessage
        BY JmsAssumption
      <4> QED BY <1>5, <2>3, <4>1 DEF Running
    <3> QED BY <1>6, <2>1, <2>3, <3>1
  <2> QED BY <2>2, <2>3
<1>15. EventsCarryTheirOrigin'
  <2> SUFFICES ASSUME NEW n \in Messages,
                      NEW x \in ToSet(sendEvents[n]) \cup ToSet(receiveEvents'[n])
               PROVE  x.attribution = origin[n]
    BY <1>1 DEF EventsCarryTheirOrigin, Events
  <2>1. CASE x \in ToSet(sendEvents[n]) \cup ToSet(receiveEvents[n])
    BY <1>2, <2>1 DEF EventsCarryTheirOrigin, Events
  <2>2. CASE x \notin ToSet(sendEvents[n]) \cup ToSet(receiveEvents[n])
    <3>1. x \in ToSet(receiveEvents'[n]) /\ x \notin ToSet(receiveEvents[n])
      BY <2>2
    <3>2. n = m
      BY <1>6, <3>1
    <3>3. x = e
      BY <1>7, <3>1, <3>2
    <3> QED BY <1>4, <3>2, <3>3
  <2> QED BY <2>1, <2>2
<1> QED BY <1>8, <1>9, <1>10, <1>11, <1>12, <1>13, <1>14, <1>15 DEF IInv

\* A send starts: its message is the innermost, those around it are marked.
LEMMA StartSendKeeps ==
    ASSUME IInv, NEW t \in Threads, NEW m \in Messages, NEW h \in ApplicationHeaders,
           NEW args \in Calls, StartSend(t, m, h, args)
    PROVE  IInv'
<1> DEFINE f == [message |-> m, hint |-> DestinationHint(args), captured |-> FALSE]
<1>1. /\ t \in busy /\ fate[m] = "unsent"
      /\ headers' = [headers EXCEPT ![m] = h]
      /\ pending' = [pending EXCEPT ![t] = NoMessage]
      /\ frames' = [frames EXCEPT ![t] = Append(@, f)]
      /\ call' = [call EXCEPT ![m] = args]
      /\ origin' = [origin EXCEPT ![m] = Attribution(t, h)]
      /\ fate' = [fate EXCEPT ![m] = "sending"]
      /\ overlapped' = overlapped \cup {g.message : g \in ToSet(frames[t])}
      /\ UNCHANGED <<context, busy, handling, queue, deliveries, sendEvents, receiveEvents>>
  BY DEF StartSend, eventVars
<1>2. /\ Typed /\ FlowInv /\ ThreadInv /\ PendingInv /\ KeptInv /\ MessageInv
      /\ SendInv /\ ReceiveInv /\ EventsCarryTheirOrigin
  BY DEF IInv
<1>3. /\ f \in Frame /\ f.message = m /\ f.captured = FALSE
      /\ f.hint = DestinationHint(args)
  BY JmsAssumption, SignatureChannels DEF Frame
<1> HIDE DEF f
<1>4. /\ frames[t] \in Seq(Frame) /\ Len(frames[t]) \in Nat
      /\ Append(frames[t], f) \in Seq(Frame)
      /\ frames'[t] # <<>> /\ Len(frames'[t]) = Len(frames[t]) + 1
      /\ \A i \in 1..Len(frames[t]) : frames'[t][i] = frames[t][i]
      /\ frames'[t][Len(frames[t]) + 1] = f
      /\ Last(frames'[t]) = f
  <2>1. frames[t] \in Seq(Frame) /\ frames'[t] = Append(frames[t], f)
    BY <1>1, <1>2 DEF Typed
  <2> QED BY <1>3, <2>1, AppendedPlace
<1>5. \A u \in Threads \ {t} : frames'[u] = frames[u] /\ pending'[u] = pending[u]
  BY <1>1, <1>2 DEF Typed
<1>6. ASSUME NEW u \in Threads, NEW i \in 1..Len(frames'[u])
      PROVE  \/ i \in 1..Len(frames[u]) /\ frames'[u][i] = frames[u][i]
             \/ u = t /\ i = Len(frames[t]) + 1 /\ frames'[u][i] = f
  <2>1. CASE u = t
    <3>1. \A n \in Nat : \A j \in 1..(n + 1) : j \in 1..n \/ j = n + 1
      OBVIOUS
    <3>2. i \in 1..Len(frames[t]) \/ i = Len(frames[t]) + 1
      BY <1>4, <2>1, <3>1
    <3> QED BY <1>4, <2>1, <3>2
  <2>2. CASE u # t
    BY <1>5, <2>2
  <2> QED BY <2>1, <2>2
<1>7. ASSUME NEW u \in Threads, NEW i \in 1..Len(frames[u])
      PROVE  /\ frames[u][i].message \in Messages
             /\ frames[u][i].message # m /\ fate[frames[u][i].message] = "sending"
  <2>1. frames[u][i] \in Frame
    <3>1. frames[u] \in Seq(Frame)
      BY <1>2 DEF Typed
    <3> QED BY <3>1, ElementOfSeq
  <2> QED BY <1>1, <1>2, <2>1 DEF FlowInv, Frame
<1>8. \A n \in Messages \ {m} : /\ fate'[n] = fate[n] /\ headers'[n] = headers[n]
                                /\ origin'[n] = origin[n] /\ call'[n] = call[n]
  BY <1>1, <1>2 DEF Typed
<1>9. /\ fate'[m] = "sending" /\ headers'[m] = h /\ call'[m] = args
      /\ origin'[m] = Attribution(t, h)
  BY <1>1, <1>2 DEF Typed
<1>10. ASSUME NEW u \in Threads, handling[u] # NoMessage
       PROVE  handling[u] \in Messages \ {m}
  BY <1>1, <1>2, <1>10 DEF FlowInv, Typed
<1>11. Attribution(t, h) = Read(ApplyContextIfAbsent(h, context[t])) /\ h \in Headers
  BY <1>2, JmsAssumption DEF Attribution, ThreadInv
<1>marked. /\ m \notin overlapped' /\ sendEvents[m] = <<>>
           /\ overlapped \subseteq overlapped'
           /\ overlapped' \cap (Messages \ {m})
                \subseteq overlapped \cup {k \in Messages : fate[k] = "sending"}
  <2>1. m \notin overlapped /\ sendEvents[m] = <<>>
    BY <1>1, <1>2 DEF SendInv, Recorded
  <2>2. \A g \in ToSet(frames[t]) : \E i \in 1..Len(frames[t]) : g = frames[t][i]
    BY <1>4, LenProperties DEF ToSet
  <2>3. \A g \in ToSet(frames[t]) : /\ g.message # m
                                     /\ fate[g.message] = "sending"
    BY <1>7, <2>2
  <2> QED BY <1>1, <2>1, <2>3
<1>12. Typed'
  <2>1. Attribution(t, h) \in Metadata
    <3>1. context[t] \in Metadata
      BY <1>2 DEF Typed
    <3> QED BY <1>11, <3>1, ReadTyped, ApplyTyped
  <2>2. frames' \in [Threads -> Seq(Frame)]
    BY <1>1, <1>2, <1>4 DEF Typed
  <2> QED BY <1>1, <1>2, <1>11, <2>1, <2>2 DEF Typed, Fates
<1>13. FlowInv'
  <2>1. \A u \in Threads : \A i \in 1..Len(frames'[u]) : fate'[frames'[u][i].message] = "sending"
    BY <1>3, <1>6, <1>7, <1>8, <1>9
  <2>2. ASSUME NEW u \in Threads, NEW v \in Threads, NEW i \in 1..Len(frames'[u]),
               NEW j \in 1..Len(frames'[v]), frames'[u][i].message = frames'[v][j].message
        PROVE  u = v /\ i = j
    <3>1. CASE i \in 1..Len(frames[u]) /\ frames'[u][i] = frames[u][i]
      <4>1. frames'[v][j].message # m
        BY <1>7, <2>2, <3>1
      <4>2. j \in 1..Len(frames[v]) /\ frames'[v][j] = frames[v][j]
        BY <1>3, <1>6, <4>1
      <4> QED BY <1>2, <2>2, <3>1, <4>2 DEF FlowInv
    <3>2. CASE u = t /\ i = Len(frames[t]) + 1 /\ frames'[u][i] = f
      <4>1. frames'[v][j].message = m
        BY <1>3, <2>2, <3>2
      <4>2. v = t /\ j = Len(frames[t]) + 1
        BY <1>6, <1>7, <4>1
      <4> QED BY <3>2, <4>2
    <3> QED BY <1>6, <3>1, <3>2
  <2>3. \A n \in queue : fate'[n] = "sent"
    BY <1>1, <1>2 DEF FlowInv, Typed
  <2>4. \A u \in Threads : handling[u] # NoMessage => fate'[handling[u]] = "sent"
    BY <1>2, <1>8, <1>10 DEF FlowInv
  <2> QED BY <1>1, <1>2, <2>1, <2>2, <2>3, <2>4 DEF FlowInv
<1>14. ThreadInv'
  <2>1. \A u \in Threads : handling[u] # NoMessage => origin'[handling[u]] = origin[handling[u]]
    BY <1>8, <1>10
  <2>2. \A u \in Threads : u # t => frames'[u] = frames[u] /\ pending'[u] = pending[u]
    BY <1>5
  <2> QED BY <1>1, <1>2, <1>4, <2>1, <2>2 DEF ThreadInv
<1>15. PendingInv'
  <2>1. ASSUME NEW u \in Threads, frames'[u] # <<>>
        PROVE  /\ pending'[u] \in {NoSend, NoMessage, Last(frames'[u]).message}
               /\ pending'[u] = Last(frames'[u]).message => Last(frames'[u]).captured
               /\ pending'[u] = NoSend <=> Last(frames'[u]).message \in overlapped'
               /\ Last(frames'[u]).captured => pending'[u] # NoMessage
               /\ \A i \in 1..(Len(frames'[u]) - 1) : frames'[u][i].message \in overlapped'
    <3>1. CASE u = t
      <4>1. pending'[t] = NoMessage
        BY <1>1, <1>2 DEF Typed
      <4>2. \A n \in Nat : n + 1 - 1 = n
        OBVIOUS
      <4>3. \A i \in 1..Len(frames[t]) : frames[t][i] \in ToSet(frames[t])
        BY <1>4, LenProperties DEF ToSet
      <4>4. \A i \in 1..(Len(frames'[t]) - 1) : frames'[t][i].message \in overlapped'
        BY <1>1, <1>4, <4>2, <4>3
      <4> QED BY <1>3, <1>4, <1>marked, <3>1, <4>1, <4>4, JmsAssumption
    <3>2. CASE u # t
      <4>1. frames'[u] = frames[u] /\ pending'[u] = pending[u] /\ frames[u] # <<>>
        BY <1>5, <2>1, <3>2
      <4>2. frames[u] \in Seq(Frame) /\ Last(frames[u]) = frames[u][Len(frames[u])]
            /\ Len(frames[u]) \in 1..Len(frames[u])
        <5>1. frames[u] \in Seq(Frame)
          BY <1>2 DEF Typed
        <5> QED BY <4>1, <5>1, LastPlace
      <4>3. Last(frames[u]).message \in overlapped' <=> Last(frames[u]).message \in overlapped
        <5>1. \A g \in ToSet(frames[t]) : \E i \in 1..Len(frames[t]) : g = frames[t][i]
          BY <1>4, LenProperties DEF ToSet
        <5>2. \A i \in 1..Len(frames[t]) : frames[t][i].message # Last(frames[u]).message
          BY <1>2, <3>2, <4>2 DEF FlowInv
        <5> QED BY <1>1, <5>1, <5>2
      <4> QED BY <1>2, <1>marked, <4>1, <4>3 DEF PendingInv
    <3> QED BY <3>1, <3>2
  <2> QED BY <2>1 DEF PendingInv
<1>16. KeptInv'
  <2> SUFFICES ASSUME NEW u \in Threads, NEW i \in 1..Len(frames'[u]),
                      NEW g, g = frames'[u][i]
               PROVE  /\ ~g.captured => origin'[g.message]
                            = Read(ApplyContextIfAbsent(headers'[g.message], context'[u]))
                      /\ g.captured => /\ Read(headers'[g.message]) = origin'[g.message]
                                       /\ Dispatch(call'[g.message]) = Meaning(call'[g.message])
                      /\ g.hint = DestinationHint(call'[g.message])
    BY KeptPrimed
  <2>1. CASE i \in 1..Len(frames[u]) /\ frames'[u][i] = frames[u][i]
    <3>1. Kept(u, g)
      BY <1>2, <2>1 DEF KeptInv
    <3>2. /\ headers'[g.message] = headers[g.message] /\ origin'[g.message] = origin[g.message]
          /\ call'[g.message] = call[g.message]
      BY <1>7, <1>8, <2>1
    <3> QED BY <1>1, <3>1, <3>2 DEF Kept
  <2>2. CASE u = t /\ i = Len(frames[t]) + 1 /\ frames'[u][i] = f
    BY <1>1, <1>3, <1>9, <1>11, <2>2
  <2> QED BY <1>6, <2>1, <2>2
<1>17. MessageInv'
  <2>1. ASSUME NEW n \in Messages
        PROVE  /\ fate'[n] = "sent" => Read(headers'[n]) = origin'[n]
               /\ fate'[n] # "sent" => receiveEvents'[n] = <<>>
               /\ fate'[n] # "unsent" => call'[n] \in Calls
    <3>1. CASE n = m
      BY <1>1, <1>2, <1>9, <3>1 DEF MessageInv
    <3>2. CASE n # m
      BY <1>1, <1>2, <1>8, <3>2 DEF MessageInv
    <3> QED BY <3>1, <3>2
  <2> QED BY <2>1 DEF MessageInv, Read
<1>18. SendInv'
  <2>1. ASSUME NEW n \in Messages
        PROVE  /\ n \in overlapped' => fate'[n] # "unsent"
               /\ sendEvents'[n] = sendEvents[n]
               /\ n # m => (Recorded(n)' <=> Recorded(n)) /\ fate'[n] = fate[n]
               /\ n = m => ~Recorded(n)' /\ sendEvents[n] = <<>>
    <3>1. CASE n = m
      BY <1>1, <1>9, <1>marked, <3>1 DEF Recorded
    <3>2. CASE n # m
      <4>1. n \in overlapped' => n \in overlapped \/ fate[n] = "sending"
        BY <1>marked, <3>2
      <4> QED BY <1>1, <1>2, <1>8, <1>marked, <3>2, <4>1 DEF SendInv, Recorded
    <3> QED BY <3>1, <3>2
  <2> QED BY <1>2, <2>1 DEF SendInv
<1>19. ReceiveInv'
  BY <1>1, <1>2 DEF ReceiveInv, Running
<1>20. EventsCarryTheirOrigin'
  <2> SUFFICES ASSUME NEW n \in Messages,
                      NEW x \in ToSet(sendEvents[n]) \cup ToSet(receiveEvents[n])
               PROVE  x.attribution = origin'[n]
    BY <1>1 DEF EventsCarryTheirOrigin, Events
  <2>1. n # m
    <3>1. ToSet(<<>>) = {}
      BY DEF ToSet
    <3> QED BY <1>1, <1>2, <1>marked, <3>1 DEF MessageInv
  <2> QED BY <1>2, <1>8, <2>1 DEF EventsCarryTheirOrigin, Events
<1> QED BY <1>12, <1>13, <1>14, <1>15, <1>16, <1>17, <1>18, <1>19, <1>20 DEF IInv

\* What is added on capture completes the headers of the innermost message.
LEMMA CaptureKeeps ==
    ASSUME IInv, NEW t \in Threads, Capture(t)
    PROVE  IInv'
<1> DEFINE frame == Last(frames[t])
           m == frame.message
           f == [frame EXCEPT !.captured = TRUE]
           n == Len(frames[t])
           added == ApplyContextIfAbsent(headers[m], context[t])
<1>1. /\ frames[t] # <<>> /\ ~frame.captured
      /\ Dispatch(call[m]) = Meaning(call[m])
      /\ headers' = [headers EXCEPT ![m] = added]
      /\ pending' = [pending EXCEPT ![t] = IF @ = NoSend THEN @ ELSE m]
      /\ frames' = [frames EXCEPT ![t] = Append(Front(@), f)]
      /\ UNCHANGED <<context, busy, handling, queue, deliveries, sendEvents,
                     receiveEvents, call, origin, fate, overlapped>>
  BY DEF Capture, eventVars, historyVars
<1>2. /\ Typed /\ FlowInv /\ ThreadInv /\ PendingInv /\ KeptInv /\ MessageInv
      /\ SendInv /\ ReceiveInv /\ EventsCarryTheirOrigin
  BY DEF IInv
<1>3. /\ frames[t] \in Seq(Frame) /\ n \in Nat \ {0} /\ n \in 1..n
      /\ frame = frames[t][n] /\ frame \in Frame
      /\ Front(frames[t]) \in Seq(Frame) /\ Len(Front(frames[t])) = n - 1
      /\ \A i \in 1..(n - 1) : Front(frames[t])[i] = frames[t][i]
  <2>1. frames[t] \in Seq(Frame)
    BY <1>2 DEF Typed
  <2> QED BY <1>1, <2>1, LastPlace
<1>4. /\ f \in Frame /\ f.message = m /\ f.captured = TRUE /\ f.hint = frame.hint
      /\ m \in Messages /\ fate[m] = "sending"
  <2>1. /\ f \in Frame /\ f.message = m /\ f.captured = TRUE /\ f.hint = frame.hint
        /\ m \in Messages
    BY <1>3 DEF Frame
  <2>2. fate[m] = "sending"
    BY <1>2, <1>3 DEF FlowInv
  <2> QED BY <2>1, <2>2
<1>5. /\ Kept(t, frame) /\ added \in Headers
      /\ Read(added) = origin[m] /\ frame.hint = DestinationHint(call[m])
  <2>1. Kept(t, frame)
    BY <1>2, <1>3 DEF KeptInv
  <2>2. added \in Headers
    BY <1>2, <1>4, ApplyTyped DEF Typed
  <2> QED BY <1>1, <2>1, <2>2 DEF Kept
<1> HIDE DEF f, frame, added
<1>6. /\ Append(Front(frames[t]), f) \in Seq(Frame)
      /\ frames'[t] # <<>> /\ Len(frames'[t]) = n /\ Last(frames'[t]) = f
      /\ frames'[t][n] = f
      /\ \A i \in 1..(n - 1) : frames'[t][i] = frames[t][i]
  <2>1. frames'[t] = Append(Front(frames[t]), f)
    BY <1>1, <1>2 DEF Typed
  <2>2. /\ Append(Front(frames[t]), f) \in Seq(Frame)
        /\ frames'[t] # <<>> /\ Len(frames'[t]) = Len(Front(frames[t])) + 1
        /\ Last(frames'[t]) = f /\ frames'[t][Len(Front(frames[t])) + 1] = f
        /\ \A i \in 1..Len(Front(frames[t])) : frames'[t][i] = Front(frames[t])[i]
    BY <1>3, <1>4, <2>1, AppendedPlace
  <2>3. \A k \in Nat \ {0} : k - 1 + 1 = k
    OBVIOUS
  <2> QED BY <1>3, <2>2, <2>3
<1>7. \A u \in Threads \ {t} : frames'[u] = frames[u] /\ pending'[u] = pending[u]
  BY <1>1, <1>2 DEF Typed
<1>8. ASSUME NEW u \in Threads, NEW i \in 1..Len(frames'[u])
      PROVE  /\ i \in 1..Len(frames[u])
             /\ frames'[u][i].message = frames[u][i].message
             /\ \/ frames'[u][i] = frames[u][i] /\ frames[u][i].message \in Messages \ {m}
                \/ u = t /\ i = n /\ frames'[u][i] = f
  <2>1. CASE u = t /\ i = n
    BY <1>3, <1>4, <1>6, <2>1
  <2>2. CASE u # t \/ i # n
    <3>1. i \in 1..Len(frames[u]) /\ frames'[u][i] = frames[u][i]
      <4>1. CASE u = t
        <5>1. \A k \in Nat \ {0} : \A j \in 1..k : j # k => j \in 1..(k - 1)
          OBVIOUS
        <5>2. i \in 1..(n - 1)
          BY <1>3, <1>6, <2>2, <4>1, <5>1
        <5> QED BY <1>6, <4>1, <5>2
      <4>2. CASE u # t
        BY <1>7, <4>2
      <4> QED BY <4>1, <4>2
    <3>2. frames[u][i] \in Frame
      <4>1. frames[u] \in Seq(Frame)
        BY <1>2 DEF Typed
      <4> QED BY <3>1, <4>1, ElementOfSeq
    <3>3. frames[u][i].message # m
      BY <1>2, <1>3, <2>2, <3>1 DEF FlowInv
    <3> QED BY <3>1, <3>2, <3>3 DEF Frame
  <2> QED BY <2>1, <2>2
<1>9. /\ \A k \in Messages \ {m} : headers'[k] = headers[k]
      /\ headers'[m] = added
  BY <1>1, <1>2, <1>4 DEF Typed
<1>10. Typed'
  <2>1. frames' \in [Threads -> Seq(Frame)] /\ headers' \in [Messages -> Headers]
    BY <1>1, <1>2, <1>5, <1>6 DEF Typed
  <2> QED BY <1>1, <1>2, <1>4, <2>1 DEF Typed
<1>11. FlowInv'
  <2>1. \A u \in Threads : \A i \in 1..Len(frames'[u]) : fate'[frames'[u][i].message] = "sending"
    BY <1>1, <1>2, <1>8 DEF FlowInv
  <2>2. ASSUME NEW u \in Threads, NEW v \in Threads, NEW i \in 1..Len(frames'[u]),
               NEW j \in 1..Len(frames'[v]), frames'[u][i].message = frames'[v][j].message
        PROVE  u = v /\ i = j
    <3>1. /\ i \in 1..Len(frames[u]) /\ j \in 1..Len(frames[v])
          /\ frames[u][i].message = frames[v][j].message
      BY <1>8, <2>2
    <3> QED BY <1>2, <3>1 DEF FlowInv
  <2> QED BY <1>1, <1>2, <2>1, <2>2 DEF FlowInv
<1>12. ThreadInv'
  BY <1>1, <1>2, <1>6, <1>7 DEF ThreadInv
<1>13. PendingInv'
  <2>1. ASSUME NEW u \in Threads, frames'[u] # <<>>
        PROVE  /\ pending'[u] \in {NoSend, NoMessage, Last(frames'[u]).message}
               /\ pending'[u] = Last(frames'[u]).message => Last(frames'[u]).captured
               /\ pending'[u] = NoSend <=> Last(frames'[u]).message \in overlapped
               /\ Last(frames'[u]).captured => pending'[u] # NoMessage
               /\ \A i \in 1..(Len(frames'[u]) - 1) : frames'[u][i].message \in overlapped
    <3>1. CASE u = t
      <4>1. pending'[t] = IF pending[t] = NoSend THEN NoSend ELSE m
        BY <1>1, <1>2 DEF Typed
      <4>2. /\ pending[t] = NoSend <=> m \in overlapped
            /\ \A i \in 1..(n - 1) : frames[t][i].message \in overlapped
        BY <1>1, <1>2 DEF PendingInv, frame
      <4>3. m # NoSend /\ m # NoMessage /\ NoSend # NoMessage
        BY <1>4, JmsAssumption
      <4> QED BY <1>4, <1>6, <3>1, <4>1, <4>2, <4>3
    <3>2. CASE u # t
      BY <1>2, <1>7, <2>1, <3>2 DEF PendingInv
    <3> QED BY <3>1, <3>2
  <2> QED BY <1>1, <2>1 DEF PendingInv
<1>14. KeptInv'
  <2> SUFFICES ASSUME NEW u \in Threads, NEW i \in 1..Len(frames'[u]),
                      NEW g, g = frames'[u][i]
               PROVE  /\ ~g.captured => origin'[g.message]
                            = Read(ApplyContextIfAbsent(headers'[g.message], context'[u]))
                      /\ g.captured => /\ Read(headers'[g.message]) = origin'[g.message]
                                       /\ Dispatch(call'[g.message]) = Meaning(call'[g.message])
                      /\ g.hint = DestinationHint(call'[g.message])
    BY KeptPrimed
  <2>1. CASE frames'[u][i] = frames[u][i] /\ frames[u][i].message \in Messages \ {m}
    <3>1. Kept(u, g)
      BY <1>2, <1>8, <2>1 DEF KeptInv
    <3> QED BY <1>1, <1>9, <2>1, <3>1 DEF Kept
  <2>2. CASE u = t /\ i = n /\ frames'[u][i] = f
    BY <1>1, <1>4, <1>5, <1>9, <2>2
  <2> QED BY <1>8, <2>1, <2>2
<1>15. MessageInv'
  <2>1. ASSUME NEW k \in Messages, fate[k] = "sent"
        PROVE  Read(headers'[k]) = origin[k]
    BY <1>2, <1>4, <1>9, <2>1 DEF MessageInv
  <2>2. ASSUME NEW k \in Messages
        PROVE  /\ fate'[k] = "sent" => Read(headers'[k]) = origin'[k]
               /\ fate'[k] # "sent" => receiveEvents'[k] = <<>>
               /\ fate'[k] # "unsent" => call'[k] \in Calls
    BY <1>1, <1>2, <2>1 DEF MessageInv
  <2> QED BY <2>2 DEF MessageInv, Read
<1>16. SendInv' /\ ReceiveInv' /\ EventsCarryTheirOrigin'
  BY <1>1, <1>2 DEF SendInv, Recorded, ReceiveInv, Running, EventsCarryTheirOrigin,
     Events
<1> QED BY <1>10, <1>11, <1>12, <1>13, <1>14, <1>15, <1>16 DEF IInv

\* A send ends: it is recorded if it is pending, once, with its outcome.
LEMMA EndSendKeeps ==
    ASSUME IInv, NEW t \in Threads, NEW error \in BOOLEAN, EndSend(t, error)
    PROVE  IInv'
<1> DEFINE frame == Last(frames[t])
           m == frame.message
           n == Len(frames[t])
           sent == pending[t]
           e == EventOf(m, frame.hint, error)
           how == IF ~error THEN "sent" ELSE IF frame.captured THEN "failed" ELSE "failedEarly"
<1>1. /\ frames[t] # <<>> /\ (error \/ frame.captured)
      /\ sendEvents' =
            IF sent \in {NoSend, NoMessage} THEN sendEvents
            ELSE [sendEvents EXCEPT ![sent] = Append(@, EventOf(sent, frame.hint, error))]
      /\ pending' = [pending EXCEPT ![t] = NoSend]
      /\ frames' = [frames EXCEPT ![t] = Front(@)]
      /\ queue' = IF error THEN queue ELSE queue \cup {m}
      /\ fate' = [fate EXCEPT ![m] = how]
      /\ UNCHANGED <<context, busy, handling, headers, deliveries,
                     receiveEvents, call, origin, overlapped>>
  BY DEF EndSend
<1>2. /\ Typed /\ FlowInv /\ ThreadInv /\ PendingInv /\ KeptInv /\ MessageInv
      /\ SendInv /\ ReceiveInv /\ EventsCarryTheirOrigin
  BY DEF IInv
<1>3. /\ frames[t] \in Seq(Frame) /\ n \in Nat \ {0} /\ n \in 1..n
      /\ frame = frames[t][n] /\ frame \in Frame
      /\ Front(frames[t]) \in Seq(Frame) /\ Len(Front(frames[t])) = n - 1
      /\ \A i \in 1..(n - 1) : Front(frames[t])[i] = frames[t][i]
  <2>1. frames[t] \in Seq(Frame)
    BY <1>2 DEF Typed
  <2> QED BY <1>1, <2>1, LastPlace
<1>4. /\ m \in Messages /\ fate[m] = "sending" /\ frame.captured \in BOOLEAN
      /\ sendEvents[m] = <<>> /\ frame.hint \in Channels
  BY <1>2, <1>3 DEF Frame, FlowInv, SendInv, Recorded
<1>5. /\ sent \in {NoSend, NoMessage, m} /\ m \notin {NoSend, NoMessage}
      /\ sent = m => frame.captured
      /\ sent = NoSend <=> m \in overlapped
      /\ frame.captured => sent # NoMessage
      /\ \A i \in 1..(n - 1) : frames[t][i].message \in overlapped
  BY <1>1, <1>2, <1>4, JmsAssumption DEF PendingInv
<1>6. frame.captured => Read(headers[m]) = origin[m]
  <2>1. Kept(t, frame)
    BY <1>2, <1>3 DEF KeptInv
  <2> QED BY <2>1 DEF Kept
<1>7. /\ e \in Event /\ e.error = error
      /\ frame.captured => e.attribution = origin[m]
  <2>1. Read(headers[m]) \in Metadata
    BY <1>2, <1>4, ReadTyped DEF Typed
  <2> QED BY <1>4, <1>6, <2>1 DEF EventOf, Event
<1> HIDE DEF frame, e
<1>8. /\ \A k \in Messages \ {m} : sendEvents'[k] = sendEvents[k]
      /\ sent = m => sendEvents'[m] = Append(<<>>, e)
      /\ sent # m => sendEvents'[m] = <<>>
      /\ sendEvents' \in [Messages -> Seq(Event)]
  <2>1. CASE sent = m
    <3>1. sendEvents' = [sendEvents EXCEPT ![m] = Append(@, e)]
      BY <1>1, <1>5, <2>1 DEF e
    <3>2. Append(<<>>, e) \in Seq(Event)
      BY <1>7
    <3> QED BY <1>2, <1>4, <2>1, <3>1, <3>2 DEF Typed
  <2>2. CASE sent # m
    BY <1>1, <1>2, <1>4, <1>5, <2>2 DEF Typed
  <2> QED BY <2>1, <2>2
<1>9. frames'[t] = Front(frames[t]) /\ pending'[t] = NoSend
  BY <1>1, <1>2 DEF Typed
<1>10. \A u \in Threads \ {t} : frames'[u] = frames[u] /\ pending'[u] = pending[u]
  BY <1>1, <1>2 DEF Typed
<1>11. ASSUME NEW u \in Threads, NEW i \in 1..Len(frames'[u])
       PROVE  /\ i \in 1..Len(frames[u]) /\ frames'[u][i] = frames[u][i]
              /\ frames[u][i].message \in Messages \ {m}
              /\ u = t => i \in 1..(n - 1)
  <2>1. /\ i \in 1..Len(frames[u]) /\ frames'[u][i] = frames[u][i] /\ (u # t \/ i # n)
        /\ u = t => i \in 1..(n - 1)
    <3>1. CASE u = t
      <4>1. \A k \in Nat \ {0} : \A j \in 1..(k - 1) : j \in 1..k /\ j # k
        OBVIOUS
      <4> QED BY <1>3, <1>9, <3>1, <4>1
    <3>2. CASE u # t
      BY <1>10, <3>2
    <3> QED BY <3>1, <3>2
  <2>2. frames[u][i] \in Frame
    <3>1. frames[u] \in Seq(Frame)
      BY <1>2 DEF Typed
    <3> QED BY <2>1, <3>1, ElementOfSeq
  <2>3. frames[u][i].message # m
    BY <1>2, <1>3, <2>1 DEF FlowInv
  <2> QED BY <2>1, <2>2, <2>3 DEF Frame
<1>12. /\ \A k \in Messages \ {m} : fate'[k] = fate[k]
       /\ fate'[m] = how
  BY <1>1, <1>2, <1>4 DEF Typed
<1>13. \A u \in Threads : handling[u] # m
  BY <1>2, <1>4, <1>5 DEF FlowInv
<1>14. Typed'
  <2>1. how \in Fates
    BY DEF Fates
  <2>2. /\ frames' \in [Threads -> Seq(Frame)] /\ fate' \in [Messages -> Fates]
        /\ queue' \subseteq Messages
    BY <1>1, <1>2, <1>3, <1>4, <2>1 DEF Typed
  <2> QED BY <1>1, <1>2, <1>8, <2>2 DEF Typed
<1>15. FlowInv'
  <2>1. ASSUME NEW u \in Threads, NEW i \in 1..Len(frames'[u])
        PROVE  fate'[frames'[u][i].message] = "sending"
    <3>1. fate[frames[u][i].message] = "sending"
      BY <1>2, <1>11 DEF FlowInv
    <3>2. /\ frames'[u][i] = frames[u][i]
          /\ fate'[frames[u][i].message] = fate[frames[u][i].message]
      BY <1>11, <1>12
    <3> QED BY <3>1, <3>2
  <2>2. \A k \in queue' : fate'[k] = "sent"
    BY <1>1, <1>2, <1>4, <1>12 DEF FlowInv, Typed
  <2>3. \A u \in Threads : handling[u] # NoMessage =>
           fate'[handling[u]] = "sent" /\ handling[u] \notin queue'
    BY <1>1, <1>2, <1>12, <1>13 DEF FlowInv, Typed
  <2>4. ASSUME NEW u \in Threads, NEW v \in Threads, NEW i \in 1..Len(frames'[u]),
               NEW j \in 1..Len(frames'[v]), frames'[u][i].message = frames'[v][j].message
        PROVE  u = v /\ i = j
    <3>1. /\ i \in 1..Len(frames[u]) /\ j \in 1..Len(frames[v])
          /\ frames[u][i].message = frames[v][j].message
      BY <1>11, <2>4
    <3> QED BY <1>2, <3>1 DEF FlowInv
  <2> QED BY <1>1, <1>2, <2>1, <2>2, <2>3, <2>4 DEF FlowInv
<1>16. ThreadInv'
  <2>1. t \in busy
    BY <1>1, <1>2 DEF ThreadInv
  <2> QED BY <1>1, <1>2, <1>9, <1>10, <2>1 DEF ThreadInv
<1>17. PendingInv'
  <2>1. ASSUME NEW u \in Threads, frames'[u] # <<>>
        PROVE  /\ pending'[u] \in {NoSend, NoMessage, Last(frames'[u]).message}
               /\ pending'[u] = Last(frames'[u]).message => Last(frames'[u]).captured
               /\ pending'[u] = NoSend <=> Last(frames'[u]).message \in overlapped
               /\ Last(frames'[u]).captured => pending'[u] # NoMessage
               /\ \A i \in 1..(Len(frames'[u]) - 1) : frames'[u][i].message \in overlapped
    <3>1. CASE u = t
      <4>1. \A i \in 1..Len(frames'[t]) : /\ frames'[t][i].message \in overlapped
                                          /\ frames'[t][i].message \in Messages
        BY <1>5, <1>11
      <4>2. /\ Last(frames'[t]) = frames'[t][Len(frames'[t])]
            /\ Len(frames'[t]) \in 1..Len(frames'[t])
            /\ Len(frames'[t]) \in Nat
        BY <1>3, <1>9, <2>1, <3>1, LastPlace
      <4>3. \A k \in Nat : \A i \in 1..(k - 1) : i \in 1..k
        OBVIOUS
      <4>4. Last(frames'[t]).message \in overlapped /\ Last(frames'[t]).message # NoSend
        BY <4>1, <4>2, JmsAssumption
      <4>5. \A i \in 1..(Len(frames'[t]) - 1) : frames'[t][i].message \in overlapped
        BY <4>1, <4>2, <4>3
      <4> QED BY <1>9, <3>1, <4>4, <4>5, JmsAssumption
    <3>2. CASE u # t
      BY <1>2, <1>10, <2>1, <3>2 DEF PendingInv
    <3> QED BY <3>1, <3>2
  <2> QED BY <1>1, <2>1 DEF PendingInv
<1>18. KeptInv'
  <2> SUFFICES ASSUME NEW u \in Threads, NEW i \in 1..Len(frames'[u]),
                      NEW g, g = frames'[u][i]
               PROVE  /\ ~g.captured => origin'[g.message]
                            = Read(ApplyContextIfAbsent(headers'[g.message], context'[u]))
                      /\ g.captured => /\ Read(headers'[g.message]) = origin'[g.message]
                                       /\ Dispatch(call'[g.message]) = Meaning(call'[g.message])
                      /\ g.hint = DestinationHint(call'[g.message])
    BY KeptPrimed
  <2>1. Kept(u, g)
    BY <1>2, <1>11 DEF KeptInv
  <2> QED BY <1>1, <2>1 DEF Kept
<1>19. MessageInv'
  <2>1. ASSUME NEW k \in Messages
        PROVE  /\ fate'[k] = "sent" => Read(headers'[k]) = origin'[k]
               /\ fate'[k] # "sent" => receiveEvents'[k] = <<>>
               /\ fate'[k] # "unsent" => call'[k] \in Calls
    <3>1. CASE k = m
      <4>1. how = "sent" => frame.captured
        BY <1>1
      <4>2. receiveEvents[m] = <<>> /\ call[m] \in Calls
        BY <1>2, <1>4 DEF MessageInv
      <4> QED BY <1>1, <1>6, <1>12, <3>1, <4>1, <4>2
    <3>2. CASE k # m
      BY <1>1, <1>2, <1>12, <3>2 DEF MessageInv
    <3> QED BY <3>1, <3>2
  <2> QED BY <2>1 DEF MessageInv, Read
<1>20. SendInv'
  <2>1. ASSUME NEW k \in Messages
        PROVE  /\ k \in overlapped => fate'[k] # "unsent"
               /\ ~Recorded(k)' => sendEvents'[k] = <<>>
               /\ Recorded(k)' => /\ Len(sendEvents'[k]) = 1
                                  /\ sendEvents'[k][1].error = (fate'[k] = "failed")
    <3>1. CASE k # m
      BY <1>1, <1>2, <1>8, <1>12, <3>1 DEF SendInv, Recorded
    <3>2. CASE k = m /\ sent = m
      <4>1. sendEvents'[k] = <<e>>
        BY <1>8, <3>2
      <4>2. Len(sendEvents'[k]) = 1
        BY <4>1
      <4>3. sendEvents'[k][1].error = error
        BY <1>7, <4>1
      <4>4. fate'[k] = how /\ how \in {"sent", "failed"} /\ k \notin overlapped
        BY <1>4, <1>5, <1>12, <3>2
      <4>5. error = (how = "failed")
        BY <1>4, <1>5, <3>2
      <4> HIDE DEF how
      <4> QED BY <1>1, <4>2, <4>3, <4>4, <4>5 DEF Recorded
    <3>3. CASE k = m /\ sent # m
      <4>1. fate'[k] \in {"sent", "failed"} => frame.captured
        BY <1>1, <1>12, <3>3
      <4>2. ~Recorded(k)'
        BY <1>1, <1>5, <3>3, <4>1 DEF Recorded
      <4>3. fate'[k] # "unsent"
        BY <1>12, <3>3
      <4> QED BY <1>8, <3>3, <4>2, <4>3
    <3> QED BY <3>1, <3>2, <3>3
  <2> QED BY <1>1, <2>1 DEF SendInv
<1>21. ReceiveInv'
  BY <1>1, <1>2 DEF ReceiveInv, Running
<1>22. EventsCarryTheirOrigin'
  <2> SUFFICES ASSUME NEW k \in Messages,
                      NEW x \in ToSet(sendEvents'[k]) \cup ToSet(receiveEvents[k])
               PROVE  x.attribution = origin[k]
    BY <1>1 DEF EventsCarryTheirOrigin, Events
  <2>1. CASE x \in ToSet(sendEvents[k]) \cup ToSet(receiveEvents[k])
    BY <1>2, <2>1 DEF EventsCarryTheirOrigin, Events
  <2>2. CASE x \notin ToSet(sendEvents[k]) \cup ToSet(receiveEvents[k])
    <3>1. x \in ToSet(sendEvents'[k]) /\ k = m
      BY <1>8, <2>2
    <3>2. sent = m /\ x \in ToSet(Append(<<>>, e))
      <4>1. ToSet(<<>>) = {}
        BY DEF ToSet
      <4> QED BY <1>8, <3>1, <4>1
    <3>3. x = e
      <4>1. <<>> \in Seq(Event) /\ ToSet(<<>>) = {}
        BY DEF ToSet
      <4> QED BY <1>7, <3>2, <4>1, AppendedEvent
    <3> QED BY <1>5, <1>7, <3>1, <3>2, <3>3
  <2> QED BY <2>1, <2>2
<1> QED BY <1>14, <1>15, <1>16, <1>17, <1>18, <1>19, <1>20, <1>21, <1>22 DEF IInv


LEMMA StutterKeeps == IInv /\ UNCHANGED vars => IInv'
<1> SUFFICES ASSUME IInv, UNCHANGED vars PROVE IInv'
  OBVIOUS
<1>1. UNCHANGED <<context, pending, busy, handling, frames, headers, queue, deliveries,
                  sendEvents, receiveEvents, call, origin, fate, overlapped>>
  BY DEF vars, threadVars, brokerVars, eventVars, historyVars
<1>2. Typed' /\ FlowInv' /\ ThreadInv' /\ PendingInv'
  BY <1>1 DEF IInv, Typed, FlowInv, ThreadInv, PendingInv
<1>3. KeptInv' /\ MessageInv'
  BY <1>1 DEF IInv, KeptInv, Kept, MessageInv, Read, ApplyContextIfAbsent
<1>4. SendInv' /\ ReceiveInv' /\ EventsCarryTheirOrigin'
  BY <1>1 DEF IInv, SendInv, Recorded, ReceiveInv, Running, EventsCarryTheirOrigin,
     Events
<1> QED BY <1>2, <1>3, <1>4 DEF IInv

LEMMA StepKeepsIInv == IInv /\ [Next]_vars => IInv'
<1> SUFFICES ASSUME IInv, [Next]_vars PROVE IInv'
  OBVIOUS
<1>1. CASE UNCHANGED vars
  BY <1>1, StutterKeeps
<1>2. CASE \E t \in Threads : EndCall(t) \/ \E meta \in Callers : BeginCall(t, meta)
  BY <1>2, CallsKeep
<1>3. CASE \E t \in Threads, m \in Messages : Listen(t, m)
  BY <1>3, ListenKeeps
<1>4. CASE \E t \in Threads, error \in BOOLEAN : FinishListening(t, error)
  <2>1. PICK t \in Threads, error \in BOOLEAN : FinishListening(t, error)
    BY <1>4
  <2> QED BY <2>1, FinishListeningKeeps
<1>5. CASE \E t \in Threads, m \in Messages, h \in ApplicationHeaders, args \in Calls :
              StartSend(t, m, h, args)
  BY <1>5, StartSendKeeps
<1>6. CASE \E t \in Threads : Capture(t)
  BY <1>6, CaptureKeeps
<1>7. CASE \E t \in Threads, error \in BOOLEAN : EndSend(t, error)
  BY <1>7, EndSendKeeps
<1> QED BY <1>1, <1>2, <1>3, <1>4, <1>5, <1>6, <1>7 DEF Next

THEOREM JmsInductive == Spec => []IInv
  BY InitiallyIInv, StepKeepsIInv, PTL DEF Spec

\* Every event of a message carries exactly the metadata of the call or
\* message that caused it, whatever threads, nested sends and redeliveries
\* the message went through.
THEOREM JmsEventsCarryTheirOrigin == Spec => []EventsCarryTheirOrigin
<1>1. IInv => EventsCarryTheirOrigin
  BY DEF IInv
<1> QED BY <1>1, JmsInductive, PTL

\* A thread that waits for work carries no metadata and no pending send.
THEOREM JmsCleanBetweenDeliveries == Spec => []CleanBetweenDeliveries
<1>1. IInv => CleanBetweenDeliveries
  BY DEF IInv, ThreadInv, CleanBetweenDeliveries
<1> QED BY <1>1, JmsInductive, PTL

LEMMA IInvRecordsOnce == IInv => RecordedOnce
<1> SUFFICES ASSUME IInv, NEW m \in Messages
             PROVE  /\ IF Recorded(m)
                       THEN /\ Len(sendEvents[m]) = 1
                            /\ sendEvents[m][1].error = (fate[m] = "failed")
                       ELSE sendEvents[m] = <<>>
                    /\ Len(receiveEvents[m]) =
                          deliveries[m] - (IF Running(m) THEN 1 ELSE 0)
  BY DEF RecordedOnce, Running
<1>1. SendInv /\ ReceiveInv
  BY DEF IInv
<1>2. Len(receiveEvents[m]) \in Nat
  BY LenProperties DEF IInv, Typed
<1>3. \A a, b, c \in Nat : a = b + c => b = a - c
  OBVIOUS
<1>4. deliveries[m] \in Nat /\ (IF Running(m) THEN 1 ELSE 0) \in Nat
  BY DEF IInv, Typed
<1>5. deliveries[m] = Len(receiveEvents[m]) + (IF Running(m) THEN 1 ELSE 0)
  BY <1>1 DEF ReceiveInv
<1>6. Len(receiveEvents[m]) = deliveries[m] - (IF Running(m) THEN 1 ELSE 0)
  BY <1>2, <1>3, <1>4, <1>5
<1> QED BY <1>1, <1>6 DEF SendInv

\* A template call gives one event, with its outcome, when its message was
\* made and no other call was made inside it, and none at all otherwise: the
\* call that loses its event to an inner one is the only one to lose it.  Every
\* delivery gives one receive event.
THEOREM JmsRecordedOnce == Spec => []RecordedOnce
  BY JmsInductive, IInvRecordsOnce, PTL

-----------------------------------------------------------------------------
(* The destinations of the events                                           *)

\* Where a message goes, as its send is recorded: a text that is sent alone to
\* the default destination is itself taken for the destination's name.
SentUnder(args) == IF args = <<"Text">> THEN "Text" ELSE Meaning(args).destination

EventsTellDestinations ==
    \A m \in Messages :
        /\ \A e \in ToSet(sendEvents[m]) : e.channel = SentUnder(call[m])
        /\ \A e \in ToSet(receiveEvents[m]) : e.channel = Meaning(call[m]).destination

\* A step that records nothing, and sends only what was never recorded.
LEMMA RecordsNothingKeepsDestinations ==
    ASSUME IInv, EventsTellDestinations, UNCHANGED <<sendEvents, receiveEvents>>,
           \A m \in Messages : fate[m] # "unsent" => call'[m] = call[m]
    PROVE  EventsTellDestinations'
<1> SUFFICES ASSUME NEW m \in Messages,
                    ToSet(sendEvents[m]) \cup ToSet(receiveEvents[m]) # {}
             PROVE  call'[m] = call[m]
  BY DEF EventsTellDestinations
<1>1. fate[m] # "unsent"
  <2>1. ToSet(<<>>) = {}
    BY DEF ToSet
  <2> QED BY <2>1 DEF IInv, SendInv, Recorded, MessageInv
<1> QED BY <1>1

LEMMA FinishListeningKeepsDestinations ==
    ASSUME IInv, EventsTellDestinations, NEW t \in Threads, NEW error \in BOOLEAN,
           FinishListening(t, error), NEW m, m = handling[t]
    PROVE  EventsTellDestinations'
<1> DEFINE e == EventOf(m, Meaning(call[m]).destination, error)
<1>1. /\ t \in ListenerThreads /\ t \in busy
      /\ receiveEvents' = [receiveEvents EXCEPT ![m] = Append(@, e)]
      /\ UNCHANGED <<sendEvents, call>>
  BY DEF FinishListening, historyVars
<1>2. /\ m \in Messages /\ fate[m] = "sent" /\ receiveEvents[m] \in Seq(Event)
      /\ receiveEvents \in [Messages -> Seq(Event)]
  BY <1>1 DEF IInv, ThreadInv, FlowInv, Typed
<1>3. e \in Event /\ e.channel = Meaning(call[m]).destination
  <2>1. Read(headers[m]) \in Metadata
    BY <1>2, ReadTyped DEF IInv, Typed
  <2>2. Meaning(call[m]).destination \in Channels
    BY <1>2, JmsAssumption, SignatureChannels DEF IInv, MessageInv
  <2> QED BY <2>1, <2>2 DEF EventOf, Event
<1> HIDE DEF e
<1> SUFFICES ASSUME NEW n \in Messages,
                    NEW x \in ToSet(receiveEvents'[n])
             PROVE  x.channel = Meaning(call[n]).destination
  BY <1>1 DEF EventsTellDestinations
<1>4. CASE x \in ToSet(receiveEvents[n])
  BY <1>4 DEF EventsTellDestinations
<1>5. CASE x \notin ToSet(receiveEvents[n])
  <2>1. x \in ToSet(receiveEvents'[n]) /\ x \notin ToSet(receiveEvents[n])
    BY <1>5
  <2>2. n = m
    BY <1>1, <1>2, <2>1
  <2>3. receiveEvents'[m] = Append(receiveEvents[m], e)
    BY <1>1, <1>2
  <2>4. x = e
    BY <1>2, <1>3, <2>1, <2>2, <2>3, AppendedEvent
  <2> QED BY <1>3, <2>2, <2>4
<1> QED BY <1>4, <1>5

\* What is recorded of a send is captured, so that the advice has handed on
\* what the application meant: by SignatureChannels the hint is right.
LEMMA EndSendKeepsDestinations ==
    ASSUME IInv, EventsTellDestinations, NEW t \in Threads, NEW error \in BOOLEAN,
           EndSend(t, error)
    PROVE  EventsTellDestinations'
<1> DEFINE frame == Last(frames[t])
           m == frame.message
           n == Len(frames[t])
           sent == pending[t]
           e == EventOf(m, frame.hint, error)
<1>1. /\ frames[t] # <<>>
      /\ sendEvents' =
            IF sent \in {NoSend, NoMessage} THEN sendEvents
            ELSE [sendEvents EXCEPT ![sent] = Append(@, EventOf(sent, frame.hint, error))]
      /\ UNCHANGED <<receiveEvents, call>>
  BY DEF EndSend
<1>2. /\ frames[t] \in Seq(Frame) /\ n \in 1..n /\ frame = frames[t][n] /\ frame \in Frame
  <2>1. frames[t] \in Seq(Frame)
    BY DEF IInv, Typed
  <2> QED BY <1>1, <2>1, LastPlace
<1>3. m \in Messages /\ frame.hint \in Channels
  BY <1>2 DEF Frame
<1>4. fate[m] = "sending"
  BY <1>2 DEF IInv, FlowInv
<1>5. sendEvents[m] = <<>> /\ call[m] \in Calls
  BY <1>3, <1>4 DEF IInv, SendInv, Recorded, MessageInv
<1>6. sent \in {NoSend, NoMessage, m} /\ (sent = m => frame.captured)
  BY <1>1 DEF IInv, PendingInv
<1>7. /\ frame.captured => Dispatch(call[m]) = Meaning(call[m])
      /\ frame.hint = DestinationHint(call[m])
  <2>1. Kept(t, frame)
    BY <1>2 DEF IInv, KeptInv
  <2> QED BY <2>1 DEF Kept
<1>8. frame.captured => frame.hint = SentUnder(call[m])
  BY <1>5, <1>7, JmsAssumption, SignatureChannels DEF SentUnder
<1>9. e \in Event /\ e.channel = frame.hint
  <2>1. Read(headers[m]) \in Metadata
    BY <1>3, ReadTyped DEF IInv, Typed
  <2> QED BY <1>3, <2>1 DEF EventOf, Event
<1> HIDE DEF frame, e
<1> SUFFICES ASSUME NEW k \in Messages,
                    NEW x \in ToSet(sendEvents'[k])
             PROVE  x.channel = SentUnder(call[k])
  BY <1>1 DEF EventsTellDestinations
<1>10. CASE x \in ToSet(sendEvents[k])
  BY <1>10 DEF EventsTellDestinations
<1>11. CASE x \notin ToSet(sendEvents[k])
  <2>1. x \in ToSet(sendEvents'[k]) /\ x \notin ToSet(sendEvents[k])
    BY <1>11
  <2>2. sent = m
    BY <1>1, <1>6, <2>1
  <2>3. CASE sent \in {NoSend, NoMessage}
    BY <1>1, <2>1, <2>3
  <2>4. CASE sent \notin {NoSend, NoMessage}
    <3>1. sendEvents' = [sendEvents EXCEPT ![m] = Append(@, e)]
      BY <1>1, <2>2, <2>4 DEF e
    <3>2. sendEvents \in [Messages -> Seq(Event)]
      BY DEF IInv, Typed
    <3>3. k = m /\ sendEvents'[m] = Append(<<>>, e)
      BY <1>3, <1>5, <2>1, <3>1, <3>2
    <3>4. x = e
      <4>1. <<>> \in Seq(Event) /\ ToSet(<<>>) = {}
        BY DEF ToSet
      <4> QED BY <1>9, <2>1, <3>3, <4>1, AppendedEvent
    <3> QED BY <1>6, <1>8, <1>9, <2>2, <3>3, <3>4
  <2> QED BY <2>3, <2>4
<1> QED BY <1>10, <1>11

LEMMA StepKeepsDestinations ==
    IInv /\ EventsTellDestinations /\ [Next]_vars => EventsTellDestinations'
<1> SUFFICES ASSUME IInv, EventsTellDestinations, [Next]_vars
             PROVE  EventsTellDestinations'
  OBVIOUS
<1>1. CASE \E t \in Threads, error \in BOOLEAN : FinishListening(t, error)
  <2>1. PICK t \in Threads, error \in BOOLEAN : FinishListening(t, error)
    BY <1>1
  <2> QED BY <2>1, FinishListeningKeepsDestinations
<1>2. CASE \E t \in Threads, error \in BOOLEAN : EndSend(t, error)
  BY <1>2, EndSendKeepsDestinations
<1>3. CASE \E t \in Threads, m \in Messages, h \in ApplicationHeaders, args \in Calls :
              StartSend(t, m, h, args)
  <2>1. PICK t \in Threads, m \in Messages, h \in ApplicationHeaders, args \in Calls :
              StartSend(t, m, h, args)
    BY <1>3
  <2>2. /\ UNCHANGED <<sendEvents, receiveEvents>> /\ fate[m] = "unsent"
        /\ call' = [call EXCEPT ![m] = args] /\ call \in [Messages -> Calls \cup {<<>>}]
    BY <2>1 DEF StartSend, eventVars, IInv, Typed
  <2>3. \A k \in Messages : fate[k] # "unsent" => call'[k] = call[k]
    BY <2>2
  <2> QED BY <2>2, <2>3, RecordsNothingKeepsDestinations
<1>4. CASE UNCHANGED <<sendEvents, receiveEvents, call>>
  BY <1>4, RecordsNothingKeepsDestinations
<1>5. \/ UNCHANGED <<sendEvents, receiveEvents, call>>
      \/ \E t \in Threads, error \in BOOLEAN : FinishListening(t, error)
      \/ \E t \in Threads, error \in BOOLEAN : EndSend(t, error)
      \/ \E t \in Threads, m \in Messages, h \in ApplicationHeaders, args \in Calls :
            StartSend(t, m, h, args)
  BY DEF Next, BeginCall, EndCall, Listen, Capture, vars, eventVars, historyVars
<1> QED BY <1>1, <1>2, <1>3, <1>4, <1>5

\* A send is recorded under the destination the application gave, or under the
\* text itself if a text alone was sent to the default destination; and a
\* receipt is recorded under the destination, whatever was sent.
THEOREM JmsEventsTellDestinations == Spec => []EventsTellDestinations
<1>1. Init => EventsTellDestinations
  BY DEF Init, EventsTellDestinations, ToSet
<1>2. IInv /\ EventsTellDestinations /\ [Next]_vars => EventsTellDestinations'
  BY StepKeepsDestinations
<1> QED BY <1>1, <1>2, JmsInductive, PTL DEF Spec

\* So all events name the destination the application gave, in applications
\* that never send a text alone to the default destination.
THEOREM JmsEventsNameTheirDestination ==
    ASSUME <<"Text">> \notin Calls
    PROVE  Spec => []EventsNameTheirDestination
<1>1. IInv /\ EventsTellDestinations => EventsNameTheirDestination
  <2> SUFFICES ASSUME IInv, EventsTellDestinations, NEW m \in Messages,
                      NEW e \in ToSet(sendEvents[m])
               PROVE  e.channel = Meaning(call[m]).destination
    BY DEF EventsNameTheirDestination, EventsTellDestinations, Events
  <2>1. sendEvents[m] # <<>>
    BY DEF ToSet
  <2>2. call[m] \in Calls
    BY <2>1 DEF IInv, SendInv, Recorded, MessageInv
  <2> QED BY <2>2 DEF EventsTellDestinations, SentUnder
<1> QED BY <1>1, JmsInductive, JmsEventsTellDestinations, PTL

-----------------------------------------------------------------------------
(* The recorder implements MessageEvidence                                 *)

\* What the events say of the test, and nothing else.
Attributions(events) == [i \in 1..Len(events) |-> events[i].attribution]

\* A message is issued when the template is called for it.  Events say all of
\* its cause, and a message is sent at most once.
Evidence == INSTANCE MessageEvidence
    WITH issued <- {m \in Messages : fate[m] # "unsent"},
         cause <- origin,
         sends <- [m \in Messages |-> Attributions(sendEvents[m])],
         receipts <- [m \in Messages |-> Attributions(receiveEvents[m])],
         Complete <- TRUE,
         Once <- TRUE

EvidenceSpec == Evidence!Spec

\* A thread that serves a call has the metadata of a call.
CallersInv ==
    \A t \in busy : handling[t] = NoMessage => context[t] \in Callers

\* Only calls and listeners change what their thread carries.
LEMMA StepKeepsCallers == IInv /\ CallersInv /\ [Next]_vars => CallersInv'
<1> SUFFICES ASSUME IInv, CallersInv, [Next]_vars PROVE CallersInv'
  OBVIOUS
<1>0. /\ context \in [Threads -> Metadata] /\ busy \subseteq Threads
      /\ handling \in [Threads -> Messages \cup {NoMessage}]
      /\ queue \subseteq Messages
  BY DEF IInv, Typed
<1>1. CASE UNCHANGED <<context, busy, handling>>
  BY <1>1 DEF CallersInv
<1>2. ASSUME NEW t \in Threads, NEW meta \in Callers, BeginCall(t, meta)
      PROVE  CallersInv'
  BY <1>0, <1>2 DEF BeginCall, CallersInv
<1>3. ASSUME NEW t \in Threads, EndCall(t) PROVE CallersInv'
  BY <1>0, <1>3 DEF EndCall, CallersInv
<1>4. ASSUME NEW t \in Threads, NEW m \in Messages, Listen(t, m) PROVE CallersInv'
  BY <1>0, <1>4, JmsAssumption DEF Listen, CallersInv
<1>5. ASSUME NEW t \in Threads, NEW error \in BOOLEAN, FinishListening(t, error)
      PROVE  CallersInv'
  BY <1>0, <1>5 DEF FinishListening, CallersInv
<1> QED
  BY <1>1, <1>2, <1>3, <1>4, <1>5
     DEF Next, StartSend, Capture, EndSend, vars, threadVars

\* Where nothing was recorded nothing is said, and an event more says one
\* attribution more.
LEMMA NoAttributions == Attributions(<<>>) = <<>>
  BY DEF Attributions

LEMMA AppendedAttribution ==
    ASSUME NEW s \in Seq(Event), NEW e \in Event
    PROVE  Attributions(Append(s, e)) = Append(Attributions(s), e.attribution)
<1>1. /\ Len(s) \in Nat /\ \A i \in 1..Len(s) : s[i] \in Event
      /\ Append(s, e) \in Seq(Event) /\ Len(Append(s, e)) = Len(s) + 1
      /\ \A i \in 1..Len(s) : Append(s, e)[i] = s[i]
      /\ Append(s, e)[Len(s) + 1] = e
  BY AppendProperties, LenProperties, ElementOfSeq
<1>2. \A i \in 1..Len(s) : s[i].attribution \in Metadata
  BY <1>1 DEF Event
<1>3. Attributions(s) \in Seq(Metadata) /\ Len(Attributions(s)) = Len(s)
  BY <1>1, <1>2 DEF Attributions
<1>4. \A i \in 1..(Len(s) + 1) : Append(s, e)[i].attribution \in Metadata
  BY <1>1, <1>2 DEF Event
<1>5. /\ Attributions(Append(s, e)) \in Seq(Metadata)
      /\ Len(Attributions(Append(s, e))) = Len(s) + 1
  BY <1>1, <1>4 DEF Attributions
<1>6. e.attribution \in Metadata
  BY DEF Event
<1>7. /\ Append(Attributions(s), e.attribution) \in Seq(Metadata)
      /\ Len(Append(Attributions(s), e.attribution)) = Len(s) + 1
      /\ \A i \in 1..Len(s) :
            Append(Attributions(s), e.attribution)[i] = Attributions(s)[i]
      /\ Append(Attributions(s), e.attribution)[Len(s) + 1] = e.attribution
  BY <1>3, <1>6, AppendProperties
<1>8. \A i \in 1..(Len(s) + 1) :
          Attributions(Append(s, e))[i] = Append(Attributions(s), e.attribution)[i]
  BY <1>1, <1>7 DEF Attributions
<1> QED BY <1>5, <1>7, <1>8, SeqEqual

\* A call of the template issues its message, with the metadata of its cause.
LEMMA StartSendIssues ==
    ASSUME IInv, CallersInv, NEW t \in Threads, NEW m \in Messages,
           NEW h \in ApplicationHeaders, NEW args \in Calls, StartSend(t, m, h, args)
    PROVE  Evidence!Issue(m)
<1> DEFINE c == IF handling[t] = NoMessage THEN context[t] ELSE origin[handling[t]]
<1>1. /\ t \in busy /\ fate[m] = "unsent"
      /\ origin' = [origin EXCEPT ![m] = Attribution(t, h)]
      /\ fate' = [fate EXCEPT ![m] = "sending"]
      /\ UNCHANGED <<sendEvents, receiveEvents>>
  BY DEF StartSend, eventVars
<1>2. /\ fate \in [Messages -> Fates]
      /\ handling \in [Threads -> Messages \cup {NoMessage}]
  BY DEF IInv, Typed
<1>3. c \in Callers \cup {origin[n] : n \in {k \in Messages : fate[k] # "unsent"}}
  <2>1. CASE handling[t] = NoMessage
    BY <1>1, <2>1 DEF CallersInv
  <2>2. CASE handling[t] # NoMessage
    <3>1. handling[t] \in Messages /\ fate[handling[t]] = "sent"
      BY <1>2, <2>2 DEF IInv, FlowInv
    <3> QED BY <2>2, <3>1
  <2> QED BY <2>1, <2>2
<1>4. origin' = [origin EXCEPT ![m] = Read(ApplyContextIfAbsent(h, c))]
  BY <1>1 DEF Attribution
<1>5. {k \in Messages : fate'[k] # "unsent"}
        = {k \in Messages : fate[k] # "unsent"} \cup {m}
  BY <1>1, <1>2
<1>6. m \notin {k \in Messages : fate[k] # "unsent"}
  BY <1>1
<1> HIDE DEF c
<1> QED
  BY <1>1, <1>3, <1>4, <1>5, <1>6
     DEF Evidence!Issue, Evidence!Causes, Evidence!Read, Evidence!ApplyContextIfAbsent,
         Read, ApplyContextIfAbsent

\* The end of a call of the template records at most the send of its message.
LEMMA EndSendRecords ==
    ASSUME IInv, NEW t \in Threads, NEW error \in BOOLEAN, EndSend(t, error)
    PROVE  [Evidence!Next]_(Evidence!vars)
<1> DEFINE frame == Last(frames[t])
           m == frame.message
           n == Len(frames[t])
           sent == pending[t]
           e == EventOf(m, frame.hint, error)
<1>1. /\ frames[t] # <<>>
      /\ sendEvents' =
            IF sent \in {NoSend, NoMessage} THEN sendEvents
            ELSE [sendEvents EXCEPT ![sent] = Append(@, EventOf(sent, frame.hint, error))]
      /\ fate' = [fate EXCEPT ![m] = IF ~error THEN "sent"
                                     ELSE IF frame.captured THEN "failed"
                                     ELSE "failedEarly"]
      /\ UNCHANGED <<receiveEvents, origin>>
  BY DEF EndSend
<1>2. /\ frames[t] \in Seq(Frame) /\ n \in 1..n /\ frame = frames[t][n] /\ frame \in Frame
  <2>1. frames[t] \in Seq(Frame)
    BY DEF IInv, Typed
  <2> QED BY <1>1, <2>1, LastPlace
<1>3. m \in Messages /\ frame.hint \in Channels
  BY <1>2 DEF Frame
<1>4. fate[m] = "sending" /\ fate \in [Messages -> Fates]
  BY <1>2 DEF IInv, FlowInv, Typed
<1>5. sendEvents[m] = <<>> /\ sendEvents \in [Messages -> Seq(Event)]
  BY <1>3, <1>4 DEF IInv, SendInv, Recorded, Typed
<1>6. sent \in {NoSend, NoMessage, m} /\ (sent = m => frame.captured)
  BY <1>1 DEF IInv, PendingInv
<1>7. frame.captured => Read(headers[m]) = origin[m]
  <2>1. Kept(t, frame)
    BY <1>2 DEF IInv, KeptInv
  <2> QED BY <2>1 DEF Kept
<1>8. e \in Event /\ e.attribution = Read(headers[m]) /\ Read(headers[m]) \in Metadata
  <2>1. Read(headers[m]) \in Metadata
    BY <1>3, ReadTyped DEF IInv, Typed
  <2> QED BY <1>3, <2>1 DEF EventOf, Event
<1> HIDE DEF frame, e
<1>9. {k \in Messages : fate'[k] # "unsent"} = {k \in Messages : fate[k] # "unsent"}
  BY <1>1, <1>3, <1>4
<1>10. CASE sent \in {NoSend, NoMessage}
  BY <1>1, <1>9, <1>10 DEF Evidence!vars
<1>11. CASE sent \notin {NoSend, NoMessage}
  <2>1. sent = m /\ sendEvents' = [sendEvents EXCEPT ![m] = Append(@, e)]
    BY <1>1, <1>6, <1>11 DEF e
  <2>2. Attributions(Append(sendEvents[m], e))
          = Append(Attributions(sendEvents[m]), origin[m])
    BY <1>3, <1>5, <1>6, <1>7, <1>8, <2>1, AppendedAttribution
  <2>3. [k \in Messages |-> Attributions(sendEvents'[k])]
          = [[k \in Messages |-> Attributions(sendEvents[k])]
                EXCEPT ![m] = Append(@, origin[m])]
    BY <1>3, <1>5, <2>1, <2>2
  <2>4. Attributions(sendEvents[m]) = <<>> /\ origin[m] \in Metadata
    BY <1>5, <1>6, <1>7, <1>8, <2>1, NoAttributions
  <2>5. Evidence!RecordSend(m)
    BY <1>1, <1>3, <1>4, <1>9, <2>3, <2>4
       DEF Evidence!RecordSend, Evidence!Says, Evidence!Metadata, Metadata
  <2> QED BY <1>3, <2>5 DEF Evidence!Next
<1> QED BY <1>10, <1>11

\* The end of a delivery records a receipt of its message.
LEMMA FinishListeningRecords ==
    ASSUME IInv, NEW t \in Threads, NEW error \in BOOLEAN, FinishListening(t, error)
    PROVE  \E m \in Messages : Evidence!RecordReceipt(m)
<1> DEFINE m == handling[t]
           channel == Meaning(call[m]).destination
           e == EventOf(m, channel, error)
<1>1. /\ t \in ListenerThreads \cap busy
      /\ receiveEvents' = [receiveEvents EXCEPT ![m] = Append(@, e)]
      /\ UNCHANGED <<sendEvents, origin, fate>>
  BY DEF FinishListening, historyVars
<1>2. /\ handling \in [Threads -> Messages \cup {NoMessage}]
      /\ receiveEvents \in [Messages -> Seq(Event)]
      /\ receiveEvents' \in [Messages -> Seq(Event)]
  <2>1. IInv'
    BY FinishListeningKeeps
  <2> QED BY <2>1 DEF IInv, Typed
<1>3. m \in Messages /\ fate[m] = "sent"
  <2>1. m # NoMessage
    BY <1>1 DEF IInv, ThreadInv
  <2> QED BY <1>2, <2>1 DEF IInv, FlowInv
<1>4. Read(headers[m]) = origin[m] /\ origin[m] \in Metadata
  BY <1>3 DEF IInv, MessageInv, Typed
<1>5. channel \in Channels
  BY <1>3, JmsAssumption, SignatureChannels DEF IInv, MessageInv
<1>6. e \in Event /\ e.attribution = origin[m]
  BY <1>4, <1>5 DEF EventOf, Event
<1> HIDE DEF m, e
<1>7. Attributions(Append(receiveEvents[m], e))
        = Append(Attributions(receiveEvents[m]), origin[m])
  BY <1>2, <1>3, <1>6, AppendedAttribution
<1>8. [k \in Messages |-> Attributions(receiveEvents'[k])]
        = [[k \in Messages |-> Attributions(receiveEvents[k])]
              EXCEPT ![m] = Append(@, origin[m])]
  BY <1>1, <1>2, <1>3, <1>7
<1>9. Evidence!RecordReceipt(m)
  BY <1>1, <1>3, <1>4, <1>8
     DEF Evidence!RecordReceipt, Evidence!Says, Evidence!Metadata, Metadata
<1> QED BY <1>3, <1>9

\* The other steps record nothing and issue nothing.
LEMMA StepImplementsEvidence ==
    IInv /\ CallersInv /\ [Next]_vars => [Evidence!Next]_(Evidence!vars)
<1> SUFFICES ASSUME IInv, CallersInv, [Next]_vars
             PROVE  [Evidence!Next]_(Evidence!vars)
  OBVIOUS
<1>1. CASE UNCHANGED <<sendEvents, receiveEvents, origin, fate>>
  BY <1>1 DEF Evidence!vars
<1>2. CASE \E t \in Threads, m \in Messages, h \in ApplicationHeaders, args \in Calls :
              StartSend(t, m, h, args)
  BY <1>2, StartSendIssues DEF Evidence!Next
<1>3. CASE \E t \in Threads, error \in BOOLEAN : EndSend(t, error)
  BY <1>3, EndSendRecords
<1>4. CASE \E t \in Threads, error \in BOOLEAN : FinishListening(t, error)
  <2>1. PICK t \in Threads, error \in BOOLEAN : FinishListening(t, error)
    BY <1>4
  <2> QED BY <2>1, FinishListeningRecords DEF Evidence!Next
<1> QED
  BY <1>1, <1>2, <1>3, <1>4
     DEF Next, BeginCall, EndCall, Listen, Capture, vars, eventVars, historyVars

\* The template's advice, the wrapped creators and the listener's proxy, with
\* their thread-locals, record messages as MessageEvidence says: every message
\* is caused by a call, or by a message before it, when the template is called
\* for it; its send is recorded at most once and its receipts one by one, none
\* before that and none ever changed, all with the metadata of the cause.
THEOREM JmsImplementsMessageEvidence == Spec => EvidenceSpec
<1>1. Init => Evidence!Init /\ CallersInv
  <2> SUFFICES ASSUME Init PROVE Evidence!Init /\ CallersInv
    OBVIOUS
  <2>1. {m \in Messages : fate[m] # "unsent"} = {}
    BY DEF Init
  <2>2. \A m \in Messages : /\ Attributions(sendEvents[m]) = <<>>
                            /\ Attributions(receiveEvents[m]) = <<>>
    BY NoAttributions DEF Init
  <2> QED
    BY <2>1, <2>2
       DEF Init, CallersInv, Evidence!Init, Evidence!NoMetadata, NoMetadata
<1> QED
  BY <1>1, StepKeepsCallers, StepImplementsEvidence, JmsInductive, PTL
     DEF Spec, EvidenceSpec, Evidence!Spec

\* Where the application sets no test by itself, all that is sent is caused,
\* in the end, by one call.
CausesInv ==
    ApplicationHeaders \subseteq {NoHeaders} =>
        \A m \in Messages : fate[m] # "unsent" => origin[m] \in Callers

\* Only a new send has a new cause.
LEMMA StepKeepsCauses ==
    IInv /\ CallersInv /\ CausesInv /\ [Next]_vars => CausesInv'
<1> SUFFICES ASSUME IInv, CallersInv, CausesInv, [Next]_vars,
                    ApplicationHeaders \subseteq {NoHeaders},
                    NEW k \in Messages, fate'[k] # "unsent"
             PROVE  origin'[k] \in Callers
  BY DEF CausesInv
<1>1. /\ fate \in [Messages -> Fates] /\ origin \in [Messages -> Metadata]
      /\ handling \in [Threads -> Messages \cup {NoMessage}]
      /\ \A n \in Messages : fate[n] # "unsent" => origin[n] \in Callers
  BY DEF IInv, Typed, CausesInv
<1>2. CASE UNCHANGED <<origin, fate>>
  BY <1>1, <1>2
<1>3. ASSUME NEW t \in Threads, NEW m \in Messages, NEW h \in ApplicationHeaders,
             NEW args \in Calls, StartSend(t, m, h, args)
      PROVE  origin'[k] \in Callers
  <2> DEFINE c == IF handling[t] = NoMessage THEN context[t] ELSE origin[handling[t]]
  <2>1. /\ t \in busy /\ origin' = [origin EXCEPT ![m] = Attribution(t, h)]
        /\ fate' = [fate EXCEPT ![m] = "sending"]
    BY <1>3 DEF StartSend
  <2>2. c \in Callers
    <3>1. handling[t] # NoMessage => handling[t] \in Messages /\ fate[handling[t]] = "sent"
      BY <1>1 DEF IInv, FlowInv
    <3> QED BY <1>1, <2>1, <3>1 DEF CallersInv
  <2>3. c \in Metadata /\ h = NoHeaders
    BY <2>2, JmsAssumption
  <2>4. Attribution(t, h) = Read(ApplyContextIfAbsent(h, c))
    BY DEF Attribution
  <2>5. Attribution(t, h) = c
    <3> HIDE DEF c
    <3> QED
      BY <2>3, <2>4, UnreadableAssumption
         DEF Read, ApplyContextIfAbsent, NoHeaders, NoMetadata, Metadata
  <2> QED BY <1>1, <2>1, <2>2, <2>5
<1>4. ASSUME NEW t \in Threads, NEW error \in BOOLEAN, EndSend(t, error)
      PROVE  origin'[k] \in Callers
  <2> DEFINE m == Last(frames[t]).message
  <2>1. frames[t] # <<>> /\ frames[t] \in Seq(Frame) /\ origin' = origin
    BY <1>4 DEF EndSend, IInv, Typed
  <2>2. fate[m] = "sending"
    BY <2>1, LastPlace DEF IInv, FlowInv
  <2>3. k # m => fate[k] = fate'[k]
    BY <1>1, <1>4 DEF EndSend
  <2> QED BY <1>1, <2>1, <2>2, <2>3
<1> QED
  BY <1>2, <1>3, <1>4
     DEF Next, BeginCall, EndCall, Listen, FinishListening, Capture, vars, historyVars

\* No event mixes the run of one test with the suite of another.
THEOREM JmsOneTestPerEvent == Spec => []Evidence!OneTestPerEvent
<1>1. Init => CallersInv /\ CausesInv
  BY DEF Init, CallersInv, CausesInv
<1>2. IInv /\ CausesInv => Evidence!OneTestPerEvent
  <2> SUFFICES ASSUME IInv, CausesInv, ApplicationHeaders \subseteq {NoHeaders},
                      NEW m \in Messages
               PROVE  /\ \A i \in DOMAIN Attributions(sendEvents[m]) : \E c \in Callers :
                            Evidence!ComesFrom(Attributions(sendEvents[m])[i], c)
                      /\ \A i \in DOMAIN Attributions(receiveEvents[m]) : \E c \in Callers :
                            Evidence!ComesFrom(Attributions(receiveEvents[m])[i], c)
    BY DEF Evidence!OneTestPerEvent, Evidence!NoHeaders, Evidence!NoMetadata,
           NoHeaders, NoMetadata
  <2>1. /\ sendEvents[m] # <<>> \/ receiveEvents[m] # <<>> => fate[m] # "unsent"
        /\ sendEvents[m] \in Seq(Event) /\ receiveEvents[m] \in Seq(Event)
    BY DEF IInv, SendInv, Recorded, MessageInv, Typed
  <2>2. ASSUME NEW s \in {sendEvents[m], receiveEvents[m]},
               NEW i \in DOMAIN Attributions(s)
        PROVE  \E c \in Callers : Evidence!ComesFrom(Attributions(s)[i], c)
    <3>1. s \in Seq(Event) /\ i \in 1..Len(s) /\ DOMAIN s = 1..Len(s)
      BY <2>1, <2>2, LenProperties DEF Attributions
    <3>2. s # <<>> /\ s[i] \in Events(m)
      BY <3>1, EmptySeq DEF Events, ToSet
    <3>3. Attributions(s)[i] = origin[m] /\ origin[m] \in Callers
      BY <2>1, <3>1, <3>2 DEF Attributions, IInv, EventsCarryTheirOrigin, CausesInv
    <3> QED BY <3>3 DEF Evidence!ComesFrom
  <2> QED BY <2>2
<1> QED
  BY <1>1, <1>2, StepKeepsCallers, StepKeepsCauses, JmsInductive, PTL DEF Spec

=============================================================================
