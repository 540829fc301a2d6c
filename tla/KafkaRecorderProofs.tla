------------------------- MODULE KafkaRecorderProofs -------------------------
(***************************************************************************)
(* The Kafka recorder attributes every event to the test that caused it    *)
(* and records every send and delivery once, for any number of threads,    *)
(* records, sends and deliveries.                                          *)
(***************************************************************************)
EXTENDS KafkaRecorder, FiniteSetTheorems, SequenceTheorems, TLAPS

-----------------------------------------------------------------------------
(* Metadata and headers                                                    *)

LEMMA ReadTyped == ASSUME NEW h \in Headers PROVE Read(h) \in Metadata
  BY UnreadableAssumption DEF Headers, Metadata, Read

LEMMA MetadataAreHeaders == Metadata \subseteq Headers
  BY DEF Headers, Metadata

LEMMA ApplyTyped ==
    ASSUME NEW h \in Headers, NEW c \in Metadata
    PROVE  ApplyContextIfAbsent(h, c) \in Headers
  BY DEF Headers, Metadata, ApplyContextIfAbsent

LEMMA NoMetadataTyped == NoMetadata \in Metadata /\ NoHeaders \in Headers
  BY DEF Headers, Metadata, NoMetadata, NoHeaders

-----------------------------------------------------------------------------
(* Counting                                                                *)

\* An event more is one more to count.
LEMMA LenAppend ==
    ASSUME NEW s \in Seq(Event), NEW e \in Event
    PROVE  /\ Append(s, e) \in Seq(Event)
           /\ Len(Append(s, e)) = Len(s) + 1 /\ Len(s) \in Nat
  BY AppendProperties, LenProperties

\* A thread more or less listens for a record.
LEMMA HandlersFinite ==
    ASSUME NEW set \in SUBSET ListenerThreads
    PROVE  IsFiniteSet(set) /\ Cardinality(set) \in Nat
  BY KafkaAssumption, FS_Subset, FS_CardinalityType

\* The events of a sequence with one event more.
LEMMA EventsAppend ==
    ASSUME NEW s \in Seq(Event), NEW e \in Event
    PROVE  ToSet(Append(s, e)) = ToSet(s) \cup {e}
<1>1. /\ Len(s) \in Nat /\ DOMAIN s = 1..Len(s)
      /\ DOMAIN Append(s, e) = 1..(Len(s) + 1)
      /\ \A i \in 1..Len(s) : Append(s, e)[i] = s[i]
      /\ Append(s, e)[Len(s) + 1] = e
  BY AppendProperties, LenProperties
<1> QED BY <1>1 DEF ToSet

-----------------------------------------------------------------------------
(* The inductive invariant                                                 *)

\* A listener carries the metadata of the record it handles, and a thread
\* without work carries none.
ThreadInv ==
    /\ \A t \in RequestThreads : handling[t] = NoRecord
    /\ \A t \in Threads \ busy : context[t] = NoMetadata /\ handling[t] = NoRecord
    /\ \A t \in ListenerThreads \cap busy :
          handling[t] \in readOnly /\ context[t] = origin[handling[t]]

\* Nothing has become of a record that the producer has not accepted.
FreshInv ==
    \A r \in Records \ readOnly :
        /\ inFlight[r] = 0 /\ r \notin stored
        /\ accepted[r] = 0 /\ deliveries[r] = 0 /\ unheard[r] = 0
        /\ sendEvents[r] = <<>> /\ receiveEvents[r] = <<>>

\* The closed headers of a record say where it comes from.
OriginInv ==
    \A r \in readOnly : r \notin abandoned /\ Read(headers[r]) = origin[r]

\* Sends add up, and deliveries do.
Balanced(r) ==
    /\ Len(sendEvents[r]) + unheard[r] + inFlight[r] = accepted[r]
    /\ Len(receiveEvents[r]) + Cardinality(Handlers(r)) = deliveries[r]

CountInv == \A r \in Records : Balanced(r)

IInv ==
    /\ TypeOK
    /\ ThreadInv
    /\ FreshInv
    /\ OriginInv
    /\ EventsCarryTheirOrigin
    /\ CountInv

LEMMA InitiallyIInv == Init => IInv
<1> SUFFICES ASSUME Init PROVE IInv
  OBVIOUS
<1>1. \A r \in Records : Handlers(r) = {}
  BY KafkaAssumption DEF Init, Handlers
<1>2. TypeOK
  BY KafkaAssumption, NoMetadataTyped DEF Init, TypeOK
<1>3. ThreadInv
  BY DEF Init, ThreadInv, Threads
<1>4. FreshInv /\ OriginInv
  BY DEF Init, FreshInv, OriginInv
<1>5. EventsCarryTheirOrigin
  BY DEF Init, EventsCarryTheirOrigin, ToSet
<1>6. CountInv
  <2> SUFFICES ASSUME NEW r \in Records PROVE Balanced(r)
    BY DEF CountInv
  <2>1. /\ sendEvents[r] = <<>> /\ receiveEvents[r] = <<>>
        /\ inFlight[r] = 0 /\ accepted[r] = 0 /\ deliveries[r] = 0
        /\ unheard[r] = 0
    BY DEF Init
  <2>2. Len(sendEvents[r]) = 0 /\ Len(receiveEvents[r]) = 0
    BY <2>1
  <2>3. Cardinality(Handlers(r)) = 0
    BY <1>1, FS_EmptySet
  <2> QED BY <2>1, <2>2, <2>3 DEF Balanced
<1> QED BY <1>2, <1>3, <1>4, <1>5, <1>6 DEF IInv

-----------------------------------------------------------------------------
(* The steps                                                               *)

\* What the counts are made of.
LEMMA CountsTyped ==
    ASSUME TypeOK, ThreadInv, NEW r \in Records
    PROVE  /\ Len(sendEvents[r]) \in Nat /\ Len(receiveEvents[r]) \in Nat
           /\ Handlers(r) \subseteq ListenerThreads
           /\ IsFiniteSet(Handlers(r)) /\ Cardinality(Handlers(r)) \in Nat
           /\ accepted[r] \in Nat /\ deliveries[r] \in Nat
           /\ inFlight[r] \in Nat /\ unheard[r] \in Nat
<1>1. sendEvents[r] \in Seq(Event) /\ receiveEvents[r] \in Seq(Event)
  BY DEF TypeOK
<1>2. Handlers(r) \subseteq ListenerThreads
  BY KafkaAssumption DEF Handlers, ThreadInv, Threads
<1>3. /\ accepted[r] \in Nat /\ deliveries[r] \in Nat
      /\ inFlight[r] \in Nat /\ unheard[r] \in Nat
  BY KafkaAssumption DEF TypeOK
<1> QED BY <1>1, <1>2, <1>3, LenProperties, HandlersFinite

\* What the producer or the broker has of a record belongs to an accepted
\* one.
LEMMA AcceptedFirst ==
    ASSUME IInv, NEW r \in Records, inFlight[r] > 0 \/ r \in stored
    PROVE  r \in readOnly
  BY DEF IInv, FreshInv, TypeOK

LEMMA CallsKeep ==
    ASSUME IInv, NEW t \in Threads,
           EndCall(t) \/ \E meta \in Callers : BeginCall(t, meta)
    PROVE  IInv'
<1>1. /\ t \in RequestThreads /\ t \notin ListenerThreads
      /\ \E meta \in Metadata : context' = [context EXCEPT ![t] = meta]
      /\ busy' \in {busy \cup {t}, busy \ {t}}
      /\ busy' = busy \ {t} => context'[t] = NoMetadata
      /\ UNCHANGED <<handling, brokerVars, eventVars, historyVars>>
  BY KafkaAssumption, NoMetadataTyped DEF BeginCall, EndCall, IInv, TypeOK
<1>2. TypeOK'
  BY <1>1 DEF IInv, TypeOK, brokerVars, eventVars, historyVars
<1>3. ThreadInv'
  BY <1>1 DEF IInv, TypeOK, ThreadInv, Threads, brokerVars, eventVars, historyVars
<1>4. FreshInv' /\ OriginInv' /\ EventsCarryTheirOrigin' /\ CountInv'
  BY <1>1 DEF IInv, FreshInv, OriginInv, EventsCarryTheirOrigin, CountInv, Balanced,
     Handlers, brokerVars, eventVars, historyVars
<1> QED BY <1>2, <1>3, <1>4 DEF IInv

\* An accepted send is in flight: the sum of what became of the sends of a
\* record grows along with their number.
LEMMA AcceptanceIsCounted ==
    ASSUME IInv, NEW q \in Records,
           \/ inFlight'[q] = inFlight[q] /\ accepted'[q] = accepted[q]
           \/ inFlight'[q] = inFlight[q] + 1 /\ accepted'[q] = accepted[q] + 1
    PROVE  Len(sendEvents[q]) + unheard[q] + inFlight'[q] = accepted'[q]
<1> DEFINE a == Len(sendEvents[q])
           b == unheard[q]
           c == inFlight[q]
           d == accepted[q]
           more == inFlight'[q]
           total == accepted'[q]
<1>1. a \in Nat /\ b \in Nat /\ c \in Nat /\ d \in Nat
  BY CountsTyped DEF IInv
<1>2. a + b + c = d
  BY DEF IInv, CountInv, Balanced
<1>3. (more = c /\ total = d) \/ (more = c + 1 /\ total = d + 1)
  OBVIOUS
<1>4. a + b + more = total
  <2> HIDE DEF a, b, c, d, more, total
  <2> QED BY <1>1, <1>2, <1>3
<1> QED BY <1>4

\* A new record carries what it should, whoever sends it.
LEMMA NewRecordsCarryTheirOrigin ==
    ASSUME IInv, NEW t \in busy, NEW h \in ApplicationHeaders
    PROVE  /\ NewHeaders(t, h) \in Headers
           /\ Attribution(t, h) \in Metadata
           /\ Read(NewHeaders(t, h)) = Attribution(t, h)
<1>1. h \in Headers /\ context[t] \in Metadata
  BY KafkaAssumption DEF IInv, TypeOK
<1>2. NewHeaders(t, h) \in Headers
  BY <1>1, ApplyTyped DEF NewHeaders
<1>3. handling[t] # NoRecord => context[t] = origin[handling[t]]
  BY DEF IInv, TypeOK, ThreadInv, Threads
<1>4. Read(NewHeaders(t, h)) = Attribution(t, h)
  BY <1>3 DEF NewHeaders, Attribution
<1> QED BY <1>2, <1>4, ReadTyped

LEMMA SendKeeps ==
    ASSUME IInv, NEW t \in Threads, NEW r \in Records, NEW h \in ApplicationHeaders,
           Send(t, r, h) \/ FailSend(t, r, h)
    PROVE  IInv'
<1>1. /\ t \in busy /\ r \notin readOnly
      /\ headers' = [headers EXCEPT ![r] = NewHeaders(t, h)]
      /\ origin' = [origin EXCEPT ![r] = Attribution(t, h)]
      /\ UNCHANGED <<threadVars, stored, eventVars, deliveries, unheard>>
  BY DEF Send, FailSend
<1>2. \/ /\ readOnly' = readOnly \cup {r} /\ r \notin abandoned
         /\ inFlight' = [inFlight EXCEPT ![r] = @ + 1]
         /\ accepted' = [accepted EXCEPT ![r] = @ + 1]
         /\ UNCHANGED abandoned
      \/ /\ abandoned' = abandoned \cup {r}
         /\ UNCHANGED <<readOnly, inFlight, accepted>>
  BY DEF Send, FailSend
<1>3. inFlight[r] = 0 /\ accepted[r] = 0 /\ sendEvents[r] = <<>> /\ receiveEvents[r] = <<>>
  BY <1>1 DEF IInv, FreshInv
<1>4. /\ NewHeaders(t, h) \in Headers /\ Attribution(t, h) \in Metadata
      /\ Read(NewHeaders(t, h)) = Attribution(t, h)
  BY <1>1, NewRecordsCarryTheirOrigin
<1>5. TypeOK'
  <2>1. /\ headers' \in [Records -> Headers] /\ origin' \in [Records -> Metadata]
        /\ readOnly' \subseteq Records /\ abandoned' \subseteq Records
    BY <1>1, <1>2, <1>4 DEF IInv, TypeOK
  <2>2. inFlight' \in [Records -> 0..MaxSends] /\ accepted' \in [Records -> 0..MaxSends]
    <3>1. 0 + 1 \in 0..MaxSends
      BY KafkaAssumption
    <3>2. inFlight \in [Records -> 0..MaxSends] /\ accepted \in [Records -> 0..MaxSends]
      BY DEF IInv, TypeOK
    <3> QED BY <1>2, <1>3, <3>1, <3>2
  <2> QED BY <1>1, <2>1, <2>2 DEF IInv, TypeOK, threadVars, eventVars
<1>6. ThreadInv'
  BY <1>1, <1>2 DEF IInv, TypeOK, ThreadInv, threadVars
<1>7. FreshInv'
  BY <1>1, <1>2 DEF IInv, TypeOK, FreshInv, eventVars
<1>8. OriginInv'
  BY <1>1, <1>2, <1>4 DEF IInv, TypeOK, OriginInv
<1>9. EventsCarryTheirOrigin'
  <2> SUFFICES ASSUME NEW q \in Records, q # r
               PROVE  \A e \in ToSet(sendEvents[q]') \cup ToSet(receiveEvents[q]') :
                         e.attribution = origin'[q]
    BY <1>1, <1>3 DEF EventsCarryTheirOrigin, eventVars, ToSet
  <2> QED BY <1>1 DEF IInv, TypeOK, EventsCarryTheirOrigin, eventVars
<1>10. CountInv'
  <2> SUFFICES ASSUME NEW q \in Records PROVE Balanced(q)'
    BY DEF CountInv
  <2>1. Balanced(q)
    BY DEF IInv, CountInv
  <2>2. \/ inFlight'[q] = inFlight[q] /\ accepted'[q] = accepted[q]
        \/ inFlight'[q] = inFlight[q] + 1 /\ accepted'[q] = accepted[q] + 1
    BY <1>2 DEF IInv, TypeOK
  <2>3. /\ sendEvents'[q] = sendEvents[q] /\ receiveEvents'[q] = receiveEvents[q]
        /\ unheard'[q] = unheard[q] /\ deliveries'[q] = deliveries[q]
        /\ Handlers(q)' = Handlers(q)
    BY <1>1 DEF Handlers, threadVars, eventVars
  <2>4. Len(sendEvents[q]) + unheard[q] + inFlight'[q] = accepted'[q]
    BY <2>2, AcceptanceIsCounted
  <2> QED BY <2>1, <2>3, <2>4 DEF Balanced
<1> QED BY <1>5, <1>6, <1>7, <1>8, <1>9, <1>10 DEF IInv

\* A record is not completed more often than it was accepted.
LEMMA AcceptedBound ==
    ASSUME IInv, NEW r \in Records
    PROVE  /\ inFlight[r] <= accepted[r]
           /\ unheard[r] + inFlight[r] <= accepted[r]
<1>1. Len(sendEvents[r]) + unheard[r] + inFlight[r] = accepted[r]
  BY DEF IInv, CountInv, Balanced
<1>2. /\ Len(sendEvents[r]) \in Nat /\ unheard[r] \in Nat
      /\ inFlight[r] \in Nat /\ accepted[r] \in Nat
  BY CountsTyped DEF IInv
<1>3. \A a, b, c, d \in Nat : a + b + c = d => c <= d /\ b + c <= d
  OBVIOUS
<1> QED BY <1>1, <1>2, <1>3

LEMMA ResendKeeps ==
    ASSUME IInv, NEW t \in Threads, NEW r \in Records, Resend(t, r)
    PROVE  IInv'
<1>1. /\ r \in readOnly /\ accepted[r] < MaxSends
      /\ inFlight' = [inFlight EXCEPT ![r] = @ + 1]
      /\ accepted' = [accepted EXCEPT ![r] = @ + 1]
      /\ UNCHANGED <<threadVars, headers, readOnly, stored, eventVars,
                     deliveries, abandoned, unheard, origin>>
  BY DEF Resend
<1>2. TypeOK /\ ThreadInv
  BY DEF IInv
<1>3. inFlight[r] <= accepted[r]
  BY AcceptedBound
<1>4. TypeOK'
  <2>1. inFlight[r] + 1 \in 0..MaxSends /\ accepted[r] + 1 \in 0..MaxSends
    BY <1>1, <1>2, <1>3, CountsTyped, KafkaAssumption
  <2>2. inFlight' \in [Records -> 0..MaxSends] /\ accepted' \in [Records -> 0..MaxSends]
    BY <1>1, <1>2, <2>1 DEF TypeOK
  <2> QED BY <1>1, <1>2, <2>2 DEF TypeOK, threadVars, eventVars
<1>5. ThreadInv' /\ FreshInv' /\ OriginInv' /\ EventsCarryTheirOrigin'
  BY <1>1 DEF IInv, TypeOK, ThreadInv, FreshInv, OriginInv, EventsCarryTheirOrigin,
     threadVars, eventVars
<1>6. CountInv'
  <2> SUFFICES ASSUME NEW q \in Records PROVE Balanced(q)'
    BY DEF CountInv
  <2>1. Balanced(q)
    BY DEF IInv, CountInv
  <2>2. \/ inFlight'[q] = inFlight[q] /\ accepted'[q] = accepted[q]
        \/ inFlight'[q] = inFlight[q] + 1 /\ accepted'[q] = accepted[q] + 1
    BY <1>1, <1>2 DEF TypeOK
  <2>3. /\ sendEvents'[q] = sendEvents[q] /\ receiveEvents'[q] = receiveEvents[q]
        /\ unheard'[q] = unheard[q] /\ deliveries'[q] = deliveries[q]
        /\ Handlers(q)' = Handlers(q)
    BY <1>1 DEF Handlers, threadVars, eventVars
  <2>4. Len(sendEvents[q]) + unheard[q] + inFlight'[q] = accepted'[q]
    BY <2>2, AcceptanceIsCounted
  <2> QED BY <2>1, <2>3, <2>4 DEF Balanced
<1> QED BY <1>4, <1>5, <1>6 DEF IInv

\* The event of a send that completes names the test that made it, whatever
\* the I/O thread's own context is.
LEMMA CompletionsCarryTheirOrigin ==
    ASSUME IInv, NEW r \in readOnly, NEW outcome \in Outcomes
    PROVE  /\ EventOf(r, outcome) \in Event
           /\ EventOf(r, outcome).attribution = origin[r]
           /\ EventOf(r, outcome).outcome = outcome
<1>1. Read(headers[r]) = origin[r] /\ origin[r] \in Metadata
  BY DEF IInv, TypeOK, OriginInv
<1> QED BY <1>1 DEF EventOf, Event

LEMMA CompleteKeeps ==
    ASSUME IInv, NEW r \in Records, NEW outcome \in Outcomes,
           CompleteSend(r, outcome) \/ CompleteUnheard(r)
    PROVE  IInv'
<1> DEFINE e == EventOf(r, outcome)
<1>1. /\ inFlight[r] > 0
      /\ inFlight' = [inFlight EXCEPT ![r] = @ - 1]
      /\ UNCHANGED <<threadVars, headers, readOnly, stored, receiveEvents,
                     accepted, deliveries, abandoned, origin>>
  BY DEF CompleteSend, CompleteUnheard, historyVars, eventVars
<1>2. \/ /\ sendEvents' = [sendEvents EXCEPT ![r] = Append(@, e)]
         /\ UNCHANGED unheard
      \/ /\ unheard' = [unheard EXCEPT ![r] = @ + 1]
         /\ UNCHANGED sendEvents
  BY DEF CompleteSend, CompleteUnheard, historyVars, eventVars
<1>3. TypeOK /\ ThreadInv
  BY DEF IInv
<1>4. r \in readOnly
  BY <1>1, AcceptedFirst
<1>5. e \in Event /\ e.attribution = origin[r]
  BY <1>4, CompletionsCarryTheirOrigin
<1> HIDE DEF e
<1>6. sendEvents[r] \in Seq(Event) /\ Append(sendEvents[r], e) \in Seq(Event)
  BY <1>3, <1>5, LenAppend DEF TypeOK
<1>7. /\ inFlight[r] \in Nat /\ unheard[r] \in Nat /\ Len(sendEvents[r]) \in Nat
      /\ accepted[r] \in Nat /\ MaxSends \in Nat /\ accepted[r] <= MaxSends
  BY <1>3, CountsTyped, KafkaAssumption DEF TypeOK
<1>8. TypeOK'
  <2>1. sendEvents' \in [Records -> Seq(Event)]
    BY <1>2, <1>3, <1>6 DEF TypeOK
  <2>2. inFlight[r] - 1 \in 0..MaxSends /\ unheard[r] + 1 \in 0..MaxSends
    BY <1>1, <1>7, AcceptedBound
  <2>3. inFlight' \in [Records -> 0..MaxSends] /\ unheard' \in [Records -> 0..MaxSends]
    BY <1>1, <1>2, <1>3, <2>2 DEF TypeOK
  <2> QED BY <1>1, <1>3, <2>1, <2>3 DEF TypeOK, threadVars
<1>9. ThreadInv' /\ OriginInv'
  BY <1>1, <1>3 DEF IInv, ThreadInv, OriginInv, threadVars
<1>10. FreshInv'
  <2> SUFFICES ASSUME NEW q \in Records \ readOnly, q # r
               PROVE  /\ inFlight'[q] = inFlight[q] /\ unheard'[q] = unheard[q]
                      /\ sendEvents'[q] = sendEvents[q]
    BY <1>1, <1>4 DEF IInv, FreshInv
  <2> QED BY <1>1, <1>2, <1>3 DEF TypeOK
<1>11. EventsCarryTheirOrigin'
  <2> SUFFICES ASSUME NEW q \in Records,
                      NEW f \in ToSet(sendEvents'[q]) \cup ToSet(receiveEvents'[q])
               PROVE  f.attribution = origin[q]
    BY <1>1 DEF EventsCarryTheirOrigin
  <2>1. ToSet(Append(sendEvents[r], e)) = ToSet(sendEvents[r]) \cup {e}
    BY <1>5, <1>6, EventsAppend
  <2>2. sendEvents'[q] = sendEvents[q] \/ (q = r /\ sendEvents'[q] = Append(sendEvents[r], e))
    BY <1>2, <1>3 DEF TypeOK
  <2>3. \/ f \in ToSet(sendEvents[q]) \cup ToSet(receiveEvents[q])
        \/ f = e /\ q = r
    BY <1>1, <2>1, <2>2
  <2> QED BY <1>5, <2>3 DEF IInv, EventsCarryTheirOrigin
<1>12. CountInv'
  <2> SUFFICES ASSUME NEW q \in Records PROVE Balanced(q)'
    BY DEF CountInv
  <2>1. Balanced(q)
    BY DEF IInv, CountInv
  <2>2. /\ receiveEvents'[q] = receiveEvents[q] /\ deliveries'[q] = deliveries[q]
        /\ Handlers(q)' = Handlers(q) /\ accepted'[q] = accepted[q]
    BY <1>1 DEF Handlers, threadVars
  <2>3. CASE q # r
    <3>1. /\ sendEvents'[q] = sendEvents[q] /\ unheard'[q] = unheard[q]
          /\ inFlight'[q] = inFlight[q]
      BY <1>1, <1>2, <1>3, <2>3 DEF TypeOK
    <3> QED BY <2>1, <2>2, <3>1 DEF Balanced
  <2>4. CASE q = r
    <3>1. inFlight'[r] = inFlight[r] - 1
      BY <1>1, <1>3 DEF TypeOK
    <3>2. Len(Append(sendEvents[r], e)) = Len(sendEvents[r]) + 1
      BY <1>5, <1>6, LenAppend
    <3>3. \/ Len(sendEvents'[r]) = Len(sendEvents[r]) + 1 /\ unheard'[r] = unheard[r]
          \/ Len(sendEvents'[r]) = Len(sendEvents[r]) /\ unheard'[r] = unheard[r] + 1
      BY <1>2, <1>3, <3>2 DEF TypeOK
    <3>4. Len(sendEvents[r]) + unheard[r] + inFlight[r] = accepted[r]
      BY <2>1, <2>4 DEF Balanced
    <3>5. Len(sendEvents'[r]) + unheard'[r] + inFlight'[r] = accepted[r]
      <4> DEFINE a == Len(sendEvents[r])
                 b == unheard[r]
                 c == inFlight[r]
                 d == accepted[r]
                 events == Len(sendEvents'[r])
                 lost == unheard'[r]
                 left == inFlight'[r]
      <4>1. a \in Nat /\ b \in Nat /\ c \in Nat /\ d \in Nat
        BY <1>7
      <4>2. a + b + c = d /\ left = c - 1
        BY <3>1, <3>4
      <4>3. (events = a + 1 /\ lost = b) \/ (events = a /\ lost = b + 1)
        BY <3>3
      <4>4. events + lost + left = d
        <5> HIDE DEF a, b, c, d, events, lost, left
        <5> QED BY <4>1, <4>2, <4>3
      <4> QED BY <4>4
    <3> QED BY <2>1, <2>2, <2>4, <3>5 DEF Balanced
  <2> QED BY <2>3, <2>4
<1> QED BY <1>8, <1>9, <1>10, <1>11, <1>12 DEF IInv

\* What the broker stores it may deliver; of what was made and received by
\* then nothing changes.
LEMMA StoreKeeps ==
    ASSUME IInv, NEW r \in Records, Store(r)
    PROVE  IInv'
<1>1. /\ r \in readOnly /\ stored' = stored \cup {r}
      /\ UNCHANGED <<threadVars, headers, readOnly, inFlight, eventVars, historyVars>>
  BY DEF Store
<1>2. TypeOK'
  BY <1>1 DEF IInv, TypeOK, threadVars, eventVars, historyVars
<1>3. ThreadInv' /\ FreshInv' /\ OriginInv' /\ EventsCarryTheirOrigin' /\ CountInv'
  BY <1>1 DEF IInv, ThreadInv, FreshInv, OriginInv, EventsCarryTheirOrigin, CountInv,
     Balanced, Handlers, threadVars, eventVars, historyVars
<1> QED BY <1>2, <1>3 DEF IInv

LEMMA InterceptKeeps ==
    ASSUME IInv, NEW t \in Threads, NEW r \in Records, Intercept(t, r)
    PROVE  IInv'
<1>1. /\ t \in ListenerThreads \ busy
      /\ r \in stored /\ deliveries[r] < MaxDeliveries
      /\ context' = [context EXCEPT ![t] = Read(headers[r])]
      /\ handling' = [handling EXCEPT ![t] = r]
      /\ busy' = busy \cup {t}
      /\ deliveries' = [deliveries EXCEPT ![r] = @ + 1]
      /\ UNCHANGED <<brokerVars, eventVars, accepted, abandoned, unheard, origin>>
  BY DEF Intercept
<1>2. TypeOK /\ ThreadInv
  BY DEF IInv
<1>3. t \notin RequestThreads /\ handling[t] = NoRecord /\ r # NoRecord
  BY <1>1, <1>2, KafkaAssumption DEF ThreadInv
<1>4. r \in readOnly /\ Read(headers[r]) = origin[r] /\ Read(headers[r]) \in Metadata
  <2>1. r \in readOnly
    BY <1>1, AcceptedFirst
  <2> QED BY <1>2, <2>1 DEF IInv, TypeOK, OriginInv
<1>5. TypeOK'
  <2>1. deliveries[r] + 1 \in 0..MaxDeliveries
    BY <1>1, <1>2, KafkaAssumption DEF TypeOK
  <2>2. deliveries' \in [Records -> 0..MaxDeliveries]
    BY <1>1, <1>2, <2>1 DEF TypeOK
  <2>3. /\ context' \in [Threads -> Metadata] /\ busy' \subseteq Threads
        /\ handling' \in [Threads -> Records \cup {NoRecord}]
    BY <1>1, <1>2, <1>4 DEF TypeOK
  <2> QED BY <1>1, <1>2, <2>2, <2>3 DEF TypeOK, brokerVars, eventVars
<1>6. ThreadInv'
  <2>1. /\ \A u \in Threads \ {t} : /\ context'[u] = context[u]
                                    /\ handling'[u] = handling[u]
        /\ context'[t] = origin[r] /\ handling'[t] = r
    BY <1>1, <1>2, <1>4 DEF TypeOK
  <2>2. origin' = origin /\ readOnly' = readOnly /\ busy' = busy \cup {t}
    BY <1>1 DEF brokerVars
  <2> QED BY <1>2, <1>3, <1>4, <2>1, <2>2 DEF ThreadInv, Threads
<1>7. FreshInv' /\ OriginInv' /\ EventsCarryTheirOrigin'
  BY <1>1, <1>2, <1>4 DEF IInv, TypeOK, FreshInv, OriginInv, EventsCarryTheirOrigin,
     brokerVars, eventVars
<1>8. CountInv'
  <2> SUFFICES ASSUME NEW q \in Records PROVE Balanced(q)'
    BY DEF CountInv
  <2>1. Balanced(q)
    BY DEF IInv, CountInv
  <2>2. /\ sendEvents'[q] = sendEvents[q] /\ receiveEvents'[q] = receiveEvents[q]
        /\ unheard'[q] = unheard[q]
        /\ inFlight'[q] = inFlight[q] /\ accepted'[q] = accepted[q]
    BY <1>1 DEF brokerVars, eventVars
  <2>3. CASE q # r
    <3>1. deliveries'[q] = deliveries[q] /\ Handlers(q)' = Handlers(q)
      BY <1>1, <1>2, <1>3, <2>3, KafkaAssumption DEF TypeOK, Handlers
    <3> QED BY <2>1, <2>2, <3>1 DEF Balanced
  <2>4. CASE q = r
    <3>1. Handlers(r)' = Handlers(r) \cup {t} /\ t \notin Handlers(r)
      BY <1>1, <1>2, <1>3 DEF TypeOK, Handlers
    <3>2. Cardinality(Handlers(r)') = Cardinality(Handlers(r)) + 1
      BY <1>2, <3>1, CountsTyped, FS_AddElement
    <3>3. /\ Len(receiveEvents[r]) \in Nat /\ deliveries[r] \in Nat
          /\ Cardinality(Handlers(r)) \in Nat
      BY <1>2, CountsTyped
    <3>4. deliveries'[r] = deliveries[r] + 1
      BY <1>1, <1>2 DEF TypeOK
    <3>5. Len(receiveEvents[r]) + Cardinality(Handlers(r)') = deliveries'[r]
      <4>1. Len(receiveEvents[r]) + Cardinality(Handlers(r)) = deliveries[r]
        BY <2>1, <2>4 DEF Balanced
      <4> QED BY <3>2, <3>3, <3>4, <4>1
    <3> QED BY <2>1, <2>2, <2>4, <3>5 DEF Balanced
  <2> QED BY <2>3, <2>4
<1> QED BY <1>5, <1>6, <1>7, <1>8 DEF IInv

LEMMA FinishRecordKeeps ==
    ASSUME IInv, NEW t \in Threads, NEW outcome \in Outcomes, NEW r \in Records,
           r = handling[t], FinishRecord(t, outcome)
    PROVE  IInv'
<1> DEFINE e == EventOf(r, outcome)
<1>1. /\ t \in ListenerThreads \cap busy
      /\ receiveEvents' = [receiveEvents EXCEPT ![r] = Append(@, e)]
      /\ context' = [context EXCEPT ![t] = NoMetadata]
      /\ handling' = [handling EXCEPT ![t] = NoRecord]
      /\ busy' = busy \ {t}
      /\ UNCHANGED <<brokerVars, sendEvents, historyVars>>
  BY DEF FinishRecord
<1>2. TypeOK /\ ThreadInv
  BY DEF IInv
<1>3. t \notin RequestThreads /\ r \in readOnly
  BY <1>1, <1>2, KafkaAssumption DEF ThreadInv, TypeOK
<1>4. e \in Event /\ e.attribution = origin[r] /\ e.outcome = outcome
  BY <1>3, CompletionsCarryTheirOrigin
<1>5. /\ Handlers(r)' = Handlers(r) \ {t} /\ t \in Handlers(r)
      /\ \A q \in Records : q # r => Handlers(q)' = Handlers(q)
  BY <1>1, <1>2, KafkaAssumption DEF TypeOK, Handlers
<1>6. /\ Cardinality(Handlers(r)') \in Nat
      /\ Cardinality(Handlers(r)) = Cardinality(Handlers(r)') + 1
  <2>1. IsFiniteSet(Handlers(r)) /\ Cardinality(Handlers(r)) \in Nat
    BY <1>2, CountsTyped
  <2>2. /\ IsFiniteSet(Handlers(r) \ {t})
        /\ Cardinality(Handlers(r) \ {t}) = Cardinality(Handlers(r)) - 1
    BY <1>5, <2>1, FS_RemoveElement
  <2>3. Cardinality(Handlers(r) \ {t}) \in Nat
    BY <2>2, FS_CardinalityType
  <2> QED BY <1>5, <2>1, <2>2, <2>3
<1> HIDE DEF e
<1>7. /\ Len(receiveEvents[r]) \in Nat /\ deliveries[r] \in Nat
      /\ receiveEvents[r] \in Seq(Event)
  BY <1>2, <1>3, CountsTyped DEF TypeOK
<1>8. Balanced(r)
  BY <1>3 DEF IInv, CountInv
<1>9. TypeOK'
  <2>1. Append(receiveEvents[r], e) \in Seq(Event)
    BY <1>4, <1>7, LenAppend
  <2>2. receiveEvents' \in [Records -> Seq(Event)]
    BY <1>1, <1>2, <1>3, <2>1 DEF TypeOK
  <2>3. /\ context' \in [Threads -> Metadata] /\ busy' \subseteq Threads
        /\ handling' \in [Threads -> Records \cup {NoRecord}]
    BY <1>1, <1>2, NoMetadataTyped DEF TypeOK
  <2> QED BY <1>1, <1>2, <2>2, <2>3 DEF TypeOK, brokerVars, historyVars
<1>10. ThreadInv'
  BY <1>1, <1>2, <1>3 DEF TypeOK, ThreadInv, Threads, brokerVars, historyVars
<1>11. OriginInv'
  BY <1>1 DEF IInv, OriginInv, brokerVars, historyVars
<1>12. FreshInv'
  <2> SUFFICES ASSUME NEW q \in Records \ readOnly
               PROVE  receiveEvents'[q] = receiveEvents[q]
    BY <1>1 DEF IInv, FreshInv, brokerVars, historyVars
  <2> QED BY <1>1, <1>2, <1>3 DEF TypeOK, brokerVars
<1>13. EventsCarryTheirOrigin'
  <2> SUFFICES ASSUME NEW q \in Records,
                      NEW f \in ToSet(sendEvents'[q]) \cup ToSet(receiveEvents'[q])
               PROVE  f.attribution = origin[q]
    BY <1>1 DEF EventsCarryTheirOrigin, historyVars
  <2>1. ToSet(Append(receiveEvents[r], e)) = ToSet(receiveEvents[r]) \cup {e}
    BY <1>4, <1>7, EventsAppend
  <2>2. \/ receiveEvents'[q] = receiveEvents[q]
        \/ q = r /\ receiveEvents'[q] = Append(receiveEvents[r], e)
    BY <1>1, <1>2 DEF TypeOK
  <2>3. \/ f \in ToSet(sendEvents[q]) \cup ToSet(receiveEvents[q])
        \/ f = e /\ q = r
    BY <1>1, <2>1, <2>2
  <2> QED BY <1>4, <2>3 DEF IInv, EventsCarryTheirOrigin
<1>14. CountInv'
  <2> SUFFICES ASSUME NEW q \in Records PROVE Balanced(q)'
    BY DEF CountInv
  <2>1. Balanced(q)
    BY DEF IInv, CountInv
  <2>2. /\ sendEvents'[q] = sendEvents[q] /\ unheard'[q] = unheard[q]
        /\ inFlight'[q] = inFlight[q] /\ accepted'[q] = accepted[q]
        /\ deliveries'[q] = deliveries[q]
    BY <1>1 DEF brokerVars, historyVars
  <2>3. CASE q # r
    <3>1. receiveEvents'[q] = receiveEvents[q] /\ Handlers(q)' = Handlers(q)
      BY <1>1, <1>2, <1>5, <2>3 DEF TypeOK
    <3> QED BY <2>1, <2>2, <3>1 DEF Balanced
  <2>4. CASE q = r
    <3>1. receiveEvents'[r] = Append(receiveEvents[r], e)
      BY <1>1, <1>2, <1>3 DEF TypeOK
    <3>2. Len(receiveEvents'[r]) = Len(receiveEvents[r]) + 1
      BY <1>4, <1>7, <3>1, LenAppend
    <3>3. Len(receiveEvents'[r]) + Cardinality(Handlers(r)') = deliveries[r]
      <4> DEFINE a == Len(receiveEvents[r])
                 c == Cardinality(Handlers(r)')
                 d == deliveries[r]
      <4>1. a + (c + 1) = d
        BY <1>6, <1>8 DEF Balanced
      <4>2. a \in Nat /\ c \in Nat /\ d \in Nat
        BY <1>6, <1>7
      <4>3. (a + 1) + c = d
        <5> HIDE DEF a, c, d
        <5> QED BY <4>1, <4>2
      <4> QED BY <3>2, <4>3
    <3> QED BY <2>2, <2>4, <1>8, <3>3 DEF Balanced
  <2> QED BY <2>3, <2>4
<1> QED BY <1>9, <1>10, <1>11, <1>12, <1>13, <1>14 DEF IInv

-----------------------------------------------------------------------------
(* The theorems                                                            *)

LEMMA StepKeepsIInv == IInv /\ [Next]_vars => IInv'
<1> SUFFICES ASSUME IInv, [Next]_vars PROVE IInv'
  OBVIOUS
<1>1. CASE UNCHANGED vars
  BY <1>1 DEF IInv, TypeOK, ThreadInv, FreshInv, OriginInv, EventsCarryTheirOrigin,
     CountInv, Balanced, Handlers, vars, threadVars, brokerVars, eventVars, historyVars
<1>2. CASE \E t \in Threads : EndCall(t) \/ \E meta \in Callers : BeginCall(t, meta)
  BY <1>2, CallsKeep
<1>3. CASE \E t \in Threads, r \in Records, h \in ApplicationHeaders :
              Send(t, r, h) \/ FailSend(t, r, h)
  BY <1>3, SendKeeps
<1>4. CASE \E t \in Threads, r \in Records : Resend(t, r)
  BY <1>4, ResendKeeps
<1>5. CASE \E t \in Threads, r \in Records : Intercept(t, r)
  BY <1>5, InterceptKeeps
<1>6. CASE \E t \in Threads, outcome \in Outcomes : FinishRecord(t, outcome)
  <2> PICK t \in Threads, outcome \in Outcomes : FinishRecord(t, outcome)
    BY <1>6
  <2>1. handling[t] \in Records
    BY DEF FinishRecord, IInv, TypeOK, ThreadInv
  <2> QED BY <2>1, FinishRecordKeeps
<1>7. CASE \E r \in Records : Store(r)
  BY <1>7, StoreKeeps
<1>8. CASE IOThread
  BY <1>8, CompleteKeeps DEF IOThread, Outcomes
<1> QED BY <1>1, <1>2, <1>3, <1>4, <1>5, <1>6, <1>7, <1>8 DEF Next

THEOREM KafkaInductive == Spec => []IInv
  BY InitiallyIInv, StepKeepsIInv, PTL DEF Spec

\* The recorder keeps no state that is not what it should be: contexts are
\* metadata, counts stay within what was sent and delivered.
THEOREM KafkaTypeCorrect == Spec => []TypeOK
<1>1. IInv => TypeOK
  BY DEF IInv
<1> QED BY <1>1, KafkaInductive, PTL

\* Every event of a record carries the metadata of the call or the record
\* that caused it, whichever thread sends, completes or handles it.
THEOREM KafkaEventsCarryTheirOrigin == Spec => []EventsCarryTheirOrigin
<1>1. IInv => EventsCarryTheirOrigin
  BY DEF IInv
<1> QED BY <1>1, KafkaInductive, PTL

\* Each accepted send is recorded once when it completes, unless a listener
\* of the application throws, and each delivery once when its listener is
\* done: in whatever order the broker stores and serves the record and the
\* producer completes its send, however often the record is sent again and
\* delivered again, and on however many threads.
THEOREM KafkaRecordsOnce == Spec => []RecordedOnce
<1>1. ASSUME IInv PROVE RecordedOnce
  <2> SUFFICES ASSUME NEW r \in Records
               PROVE  /\ Balanced(r)
                      /\ r \in abandoned => /\ sendEvents[r] = <<>>
                                            /\ receiveEvents[r] = <<>>
    BY DEF RecordedOnce, Balanced
  <2>1. Balanced(r)
    BY <1>1 DEF IInv, CountInv
  <2>2. r \in abandoned => sendEvents[r] = <<>> /\ receiveEvents[r] = <<>>
    BY <1>1 DEF IInv, FreshInv, OriginInv
  <2> QED BY <2>1, <2>2
<1> QED BY <1>1, KafkaInductive, PTL

\* A thread between two pieces of work carries no metadata.
THEOREM KafkaCleanBetweenRecords == Spec => []CleanBetweenRecords
<1>1. IInv => CleanBetweenRecords
  BY DEF IInv, ThreadInv, CleanBetweenRecords
<1> QED BY <1>1, KafkaInductive, PTL

-----------------------------------------------------------------------------
(* The recorder implements MessageEvidence                                 *)

\* What the events say of the test, and nothing else.
Attributions(events) == [i \in 1..Len(events) |-> events[i].attribution]

\* The records that an interceptor has seen: a send of them was made.
Issued == readOnly \cup abandoned

\* A record is issued when it is first sent.  Events say all of its cause, and
\* a record may be sent any number of times.
Evidence == INSTANCE MessageEvidence
    WITH Messages <- Records,
         issued <- Issued,
         cause <- origin,
         sends <- [r \in Records |-> Attributions(sendEvents[r])],
         receipts <- [r \in Records |-> Attributions(receiveEvents[r])],
         Complete <- TRUE,
         Once <- FALSE

EvidenceSpec == Evidence!Spec

\* A thread that serves a call has the metadata of a call.
CallersInv == \A t \in RequestThreads \cap busy : context[t] \in Callers

\* Only calls change what a request thread carries.
LEMMA StepKeepsCallers == IInv /\ CallersInv /\ [Next]_vars => CallersInv'
<1> SUFFICES ASSUME IInv, CallersInv, [Next]_vars PROVE CallersInv'
  OBVIOUS
<1>0. /\ context \in [Threads -> Metadata] /\ busy \subseteq Threads
      /\ RequestThreads \cap ListenerThreads = {} /\ RequestThreads \subseteq Threads
  BY KafkaAssumption DEF IInv, TypeOK, Threads
<1>1. CASE UNCHANGED threadVars
  BY <1>1 DEF CallersInv, threadVars
<1>2. ASSUME NEW t \in Threads, NEW meta \in Callers, BeginCall(t, meta)
      PROVE  CallersInv'
  BY <1>0, <1>2 DEF BeginCall, CallersInv
<1>3. ASSUME NEW t \in Threads, EndCall(t) PROVE CallersInv'
  BY <1>0, <1>3 DEF EndCall, CallersInv
<1>4. ASSUME NEW t \in Threads, NEW r \in Records, Intercept(t, r) PROVE CallersInv'
  BY <1>0, <1>4 DEF Intercept, CallersInv
<1>5. ASSUME NEW t \in Threads, NEW outcome \in Outcomes, FinishRecord(t, outcome)
      PROVE  CallersInv'
  BY <1>0, <1>5 DEF FinishRecord, CallersInv
<1> QED
  BY <1>1, <1>2, <1>3, <1>4, <1>5
     DEF Next, Send, FailSend, Resend, Store, IOThread, CompleteSend, CompleteUnheard,
         vars

\* Where nothing was recorded nothing is said, and an event more says one
\* attribution more.
LEMMA NoAttributions == Attributions(<<>>) = <<>>
  BY DEF Attributions

LEMMA AppendedAttribution ==
    ASSUME NEW s \in Seq(Event), NEW e \in Event
    PROVE  Attributions(Append(s, e)) = Append(Attributions(s), e.attribution)
<1>1. /\ Len(s) \in Nat /\ \A i \in 1..Len(s) : s[i] \in Event
      /\ Append(s, e) \in Seq(Event) /\ Len(Append(s, e)) = Len(s) + 1
      /\ \A i \in 1..Len(s) : Append(s, e)[i] = s[i]
      /\ Append(s, e)[Len(s) + 1] = e
  BY AppendProperties, LenProperties, ElementOfSeq
<1>2. \A i \in 1..Len(s) : s[i].attribution \in Metadata
  BY <1>1 DEF Event
<1>3. Attributions(s) \in Seq(Metadata) /\ Len(Attributions(s)) = Len(s)
  BY <1>1, <1>2 DEF Attributions
<1>4. \A i \in 1..(Len(s) + 1) : Append(s, e)[i].attribution \in Metadata
  BY <1>1, <1>2 DEF Event
<1>5. /\ Attributions(Append(s, e)) \in Seq(Metadata)
      /\ Len(Attributions(Append(s, e))) = Len(s) + 1
  BY <1>1, <1>4 DEF Attributions
<1>6. e.attribution \in Metadata
  BY DEF Event
<1>7. /\ Append(Attributions(s), e.attribution) \in Seq(Metadata)
      /\ Len(Append(Attributions(s), e.attribution)) = Len(s) + 1
      /\ \A i \in 1..Len(s) :
            Append(Attributions(s), e.attribution)[i] = Attributions(s)[i]
      /\ Append(Attributions(s), e.attribution)[Len(s) + 1] = e.attribution
  BY <1>3, <1>6, AppendProperties
<1>8. \A i \in 1..(Len(s) + 1) :
          Attributions(Append(s, e))[i] = Append(Attributions(s), e.attribution)[i]
  BY <1>1, <1>7 DEF Attributions
<1> QED BY <1>5, <1>7, <1>8, SeqEqual

\* The cause of a record sent now: a call, or a record that was sent.
Cause(t) == IF handling[t] = NoRecord THEN context[t] ELSE origin[handling[t]]

LEMMA SendsHaveCauses ==
    ASSUME IInv, CallersInv, NEW t \in Threads, t \in busy
    PROVE  \/ Cause(t) \in Callers
           \/ handling[t] \in readOnly /\ Cause(t) = origin[handling[t]]
<1>1. CASE t \in RequestThreads
  BY <1>1 DEF IInv, ThreadInv, CallersInv, Cause
<1>2. CASE t \in ListenerThreads
  <2>1. handling[t] \in readOnly /\ readOnly \subseteq Records
    BY <1>2 DEF IInv, ThreadInv, TypeOK
  <2> QED BY <2>1, KafkaAssumption DEF Cause
<1> QED BY <1>1, <1>2 DEF Threads

\* The first send of a record issues it, with the metadata of its cause, also
\* when the producer refuses it.
LEMMA SendIssues ==
    ASSUME IInv, CallersInv, NEW t \in Threads, NEW r \in Records,
           NEW h \in ApplicationHeaders, Send(t, r, h) \/ FailSend(t, r, h)
    PROVE  Evidence!Issue(r)
<1>1. /\ t \in busy /\ r \notin Issued /\ Issued' = Issued \cup {r}
      /\ origin' = [origin EXCEPT ![r] = Attribution(t, h)]
      /\ UNCHANGED <<sendEvents, receiveEvents>>
  BY DEF Send, FailSend, Issued, eventVars
<1>2. Cause(t) \in Callers \cup {origin[n] : n \in Issued}
  BY <1>1, SendsHaveCauses DEF Issued
<1>3. origin' = [origin EXCEPT ![r] = Read(ApplyContextIfAbsent(h, Cause(t)))]
  BY <1>1 DEF Attribution, Cause
<1> QED
  BY <1>1, <1>2, <1>3
     DEF Evidence!Issue, Evidence!Causes, Evidence!Read, Evidence!ApplyContextIfAbsent,
         Read, ApplyContextIfAbsent

\* What is recorded of a record that was sent is its cause.
LEMMA RecordedEvent ==
    ASSUME IInv, NEW r \in readOnly, NEW outcome \in Outcomes
    PROVE  /\ r \in Records /\ r \in Issued /\ origin[r] \in Metadata
           /\ EventOf(r, outcome) \in Event
           /\ EventOf(r, outcome).attribution = origin[r]
<1>1. r \in Records /\ Read(headers[r]) = origin[r] /\ origin[r] \in Metadata
  BY DEF IInv, TypeOK, OriginInv
<1> QED BY <1>1 DEF Issued, EventOf, Event

\* A completed send is recorded as a send of its record, on whichever thread.
LEMMA CompleteSendRecords ==
    ASSUME IInv, NEW r \in Records, NEW outcome \in Outcomes, CompleteSend(r, outcome)
    PROVE  Evidence!RecordSend(r)
<1> DEFINE e == EventOf(r, outcome)
<1>1. /\ inFlight[r] > 0
      /\ sendEvents' = [sendEvents EXCEPT ![r] = Append(@, e)]
      /\ UNCHANGED <<Issued, receiveEvents, origin>>
  BY DEF CompleteSend, Issued, historyVars
<1>2. r \in readOnly /\ sendEvents \in [Records -> Seq(Event)]
  BY <1>1 DEF IInv, FreshInv, TypeOK
<1>3. r \in Issued /\ origin[r] \in Metadata /\ e \in Event /\ e.attribution = origin[r]
  BY <1>2, RecordedEvent
<1> HIDE DEF e
<1>4. [q \in Records |-> Attributions(sendEvents'[q])]
        = [[q \in Records |-> Attributions(sendEvents[q])]
              EXCEPT ![r] = Append(@, origin[r])]
  <2>1. Attributions(Append(sendEvents[r], e)) = Append(Attributions(sendEvents[r]), origin[r])
    BY <1>2, <1>3, AppendedAttribution
  <2> QED BY <1>1, <1>2, <1>3, <2>1
<1> QED
  BY <1>1, <1>3, <1>4
     DEF Evidence!RecordSend, Evidence!Says, Evidence!Metadata, Metadata

\* The end of a listener is recorded as a receipt of its record.
LEMMA FinishRecordRecords ==
    ASSUME IInv, NEW t \in Threads, NEW outcome \in Outcomes, FinishRecord(t, outcome)
    PROVE  \E r \in Records : Evidence!RecordReceipt(r)
<1> DEFINE r == handling[t]
           e == EventOf(r, outcome)
<1>1. /\ t \in ListenerThreads \cap busy
      /\ receiveEvents' = [receiveEvents EXCEPT ![r] = Append(@, e)]
      /\ UNCHANGED <<sendEvents, origin, readOnly, abandoned>>
  BY DEF FinishRecord, brokerVars, historyVars
<1>2. r \in readOnly /\ receiveEvents \in [Records -> Seq(Event)] /\ UNCHANGED Issued
  BY <1>1 DEF IInv, ThreadInv, TypeOK, Issued
<1>3. /\ r \in Records /\ r \in Issued /\ origin[r] \in Metadata
      /\ e \in Event /\ e.attribution = origin[r]
  BY <1>2, RecordedEvent
<1> HIDE DEF r, e
<1>4. [q \in Records |-> Attributions(receiveEvents'[q])]
        = [[q \in Records |-> Attributions(receiveEvents[q])]
              EXCEPT ![r] = Append(@, origin[r])]
  <2>1. Attributions(Append(receiveEvents[r], e)) = Append(Attributions(receiveEvents[r]), origin[r])
    BY <1>2, <1>3, AppendedAttribution
  <2> QED BY <1>1, <1>2, <1>3, <2>1
<1>5. Evidence!RecordReceipt(r)
  BY <1>1, <1>2, <1>3, <1>4
     DEF Evidence!RecordReceipt, Evidence!Says, Evidence!Metadata, Metadata
<1> QED BY <1>3, <1>5

\* The other steps record nothing and issue nothing.
LEMMA StepImplementsEvidence ==
    IInv /\ CallersInv /\ [Next]_vars => [Evidence!Next]_(Evidence!vars)
<1> SUFFICES ASSUME IInv, CallersInv, [Next]_vars
             PROVE  [Evidence!Next]_(Evidence!vars)
  OBVIOUS
<1>1. CASE UNCHANGED <<sendEvents, receiveEvents, origin, readOnly, abandoned>>
  BY <1>1 DEF Evidence!vars, Issued
<1>2. CASE \E t \in Threads, r \in Records, h \in ApplicationHeaders :
              Send(t, r, h) \/ FailSend(t, r, h)
  BY <1>2, SendIssues DEF Evidence!Next
<1>3. CASE \E r \in Records, outcome \in Outcomes : CompleteSend(r, outcome)
  BY <1>3, CompleteSendRecords DEF Evidence!Next
<1>4. CASE \E t \in Threads, outcome \in Outcomes : FinishRecord(t, outcome)
  <2>1. PICK t \in Threads, outcome \in Outcomes : FinishRecord(t, outcome)
    BY <1>4
  <2> QED BY <2>1, FinishRecordRecords DEF Evidence!Next
<1> QED
  BY <1>1, <1>2, <1>3, <1>4
     DEF Next, BeginCall, EndCall, Resend, Store, Intercept, IOThread, CompleteUnheard,
         vars, brokerVars, eventVars, historyVars

\* The interceptors and the producer listener record messages as
\* MessageEvidence says, although a send is recorded later and on another
\* thread than it is made: every record is caused by a call, or by a record
\* before it, when it is first sent, and its sends and receipts are recorded
\* one by one, none before that and none ever changed, all with the metadata
\* of the cause.
THEOREM KafkaImplementsMessageEvidence == Spec => EvidenceSpec
<1>1. Init => Evidence!Init /\ CallersInv
  <2> SUFFICES ASSUME Init PROVE Evidence!Init /\ CallersInv
    OBVIOUS
  <2>1. Issued = {}
    BY DEF Init, Issued
  <2>2. \A r \in Records : /\ Attributions(sendEvents[r]) = <<>>
                           /\ Attributions(receiveEvents[r]) = <<>>
    BY NoAttributions DEF Init
  <2> QED
    BY <2>1, <2>2
       DEF Init, CallersInv, Evidence!Init, Evidence!NoMetadata, NoMetadata
<1> QED
  BY <1>1, StepKeepsCallers, StepImplementsEvidence, KafkaInductive, PTL
     DEF Spec, EvidenceSpec, Evidence!Spec

\* Where the application sets no test by itself, all that is sent is caused,
\* in the end, by one call.
CausesInv ==
    ApplicationHeaders \subseteq {NoHeaders} => \A r \in Issued : origin[r] \in Callers

\* Only a new send has a new cause.
LEMMA StepKeepsCauses ==
    IInv /\ CallersInv /\ CausesInv /\ [Next]_vars => CausesInv'
<1> SUFFICES ASSUME IInv, CallersInv, CausesInv, [Next]_vars,
                    ApplicationHeaders \subseteq {NoHeaders}, NEW q \in Issued'
             PROVE  origin'[q] \in Callers
  BY DEF CausesInv
<1>1. /\ origin \in [Records -> Metadata] /\ \A n \in Issued : origin[n] \in Callers
  BY DEF IInv, TypeOK, CausesInv
<1>2. CASE UNCHANGED <<origin, readOnly, abandoned>>
  BY <1>1, <1>2 DEF Issued
<1>3. ASSUME NEW t \in Threads, NEW r \in Records, NEW h \in ApplicationHeaders,
             Send(t, r, h) \/ FailSend(t, r, h)
      PROVE  origin'[q] \in Callers
  <2>1. /\ t \in busy /\ origin' = [origin EXCEPT ![r] = Attribution(t, h)]
        /\ Issued' = Issued \cup {r}
    BY <1>3 DEF Send, FailSend, Issued
  <2>2. Cause(t) \in Callers
    BY <1>1, <2>1, SendsHaveCauses DEF Issued
  <2>3. Cause(t) \in Metadata /\ h = NoHeaders
    BY <2>2, KafkaAssumption
  <2>4. Attribution(t, h) = Read(ApplyContextIfAbsent(h, Cause(t)))
    BY DEF Attribution, Cause
  <2>5. Attribution(t, h) = Cause(t)
    BY <2>3, <2>4, UnreadableAssumption
       DEF Read, ApplyContextIfAbsent, NoHeaders, NoMetadata, Metadata
  <2> QED BY <1>1, <2>1, <2>2, <2>5
<1> QED
  BY <1>2, <1>3
     DEF Next, BeginCall, EndCall, Resend, Store, Intercept, FinishRecord, IOThread,
         CompleteSend, CompleteUnheard, vars, brokerVars, historyVars

\* No event mixes the run of one test with the suite of another.
THEOREM KafkaOneTestPerEvent == Spec => []Evidence!OneTestPerEvent
<1>1. Init => CallersInv /\ CausesInv
  BY DEF Init, CallersInv, CausesInv, Issued
<1>2. IInv /\ CausesInv => Evidence!OneTestPerEvent
  <2> SUFFICES ASSUME IInv, CausesInv, ApplicationHeaders \subseteq {NoHeaders},
                      NEW r \in Records
               PROVE  /\ \A i \in DOMAIN Attributions(sendEvents[r]) : \E c \in Callers :
                            Evidence!ComesFrom(Attributions(sendEvents[r])[i], c)
                      /\ \A i \in DOMAIN Attributions(receiveEvents[r]) : \E c \in Callers :
                            Evidence!ComesFrom(Attributions(receiveEvents[r])[i], c)
    BY DEF Evidence!OneTestPerEvent, Evidence!NoHeaders, Evidence!NoMetadata,
           NoHeaders, NoMetadata
  <2>1. /\ r \notin readOnly => sendEvents[r] = <<>> /\ receiveEvents[r] = <<>>
        /\ sendEvents[r] \in Seq(Event) /\ receiveEvents[r] \in Seq(Event)
    BY DEF IInv, FreshInv, TypeOK
  <2>2. ASSUME NEW s \in {sendEvents[r], receiveEvents[r]},
               NEW i \in DOMAIN Attributions(s)
        PROVE  \E c \in Callers : Evidence!ComesFrom(Attributions(s)[i], c)
    <3>1. s \in Seq(Event) /\ i \in 1..Len(s) /\ DOMAIN s = 1..Len(s)
      BY <2>1, <2>2, LenProperties DEF Attributions
    <3>2. s # <<>> /\ s[i] \in ToSet(sendEvents[r]) \cup ToSet(receiveEvents[r])
      BY <3>1, EmptySeq DEF ToSet
    <3>3. Attributions(s)[i] = origin[r] /\ origin[r] \in Callers
      BY <2>1, <3>1, <3>2
         DEF Attributions, IInv, EventsCarryTheirOrigin, CausesInv, Issued
    <3> QED BY <3>3 DEF Evidence!ComesFrom
  <2> QED BY <2>2
<1> QED
  BY <1>1, <1>2, StepKeepsCallers, StepKeepsCauses, KafkaInductive, PTL DEF Spec

=============================================================================
