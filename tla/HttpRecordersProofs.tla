------------------------- MODULE HttpRecordersProofs -------------------------
(***************************************************************************)
(* For every contract, request, body, limit and status, both recorders keep*)
(* the same of a body, the gates on payloads, parameters and security are  *)
(* right about what was exchanged, and what is judged is covered: the      *)
(* choices of httpPayloadConformance.ts and httpRequestConformance.ts      *)
(* agree with those of statusCoverage.ts and parameterCoverage.ts.         *)
(*                                                                         *)
(* The invariant is in three parts: IInv says what the evidence of the     *)
(* request may be, CaptureInv what a capture session has gathered, and     *)
(* EventInv that the event tells what was exchanged.                       *)
(***************************************************************************)
EXTENDS HttpRecorders, WellFoundedInduction, TLAPS

-----------------------------------------------------------------------------
(* The bytes of a body                                                     *)

\* A set of numbers that is not empty has a least one.
LEMMA LeastOfNumbers ==
    ASSUME NEW S \in SUBSET Nat, S # {}
    PROVE  \E n \in S : \A m \in S : n <= m
<1>1. IsWellFoundedOn(OpToRel(<, Nat), Nat)
  BY NatLessThanWellFounded
<1>2. PICK n \in S : \A m \in S : <<m, n>> \notin OpToRel(<, Nat)
  BY <1>1, WFMin, Zenon
<1>3. \A m \in S : ~(m < n)
  BY <1>2 DEF OpToRel
<1> QED
  BY <1>3

\* Induction on the numbers.
LEMMA NumbersByStep ==
    ASSUME NEW G \in SUBSET Nat, 0 \in G, \A n \in G : n + 1 \in G
    PROVE  G = Nat
<1> SUFFICES ASSUME Nat \ G # {} PROVE FALSE
  OBVIOUS
<1>1. PICK n \in Nat \ G : \A m \in Nat \ G : n <= m
  BY LeastOfNumbers
<1>2. n # 0
  OBVIOUS
<1>3. n - 1 \in Nat /\ n - 1 + 1 = n /\ ~(n <= n - 1)
  BY <1>2
<1>4. n - 1 \in G
  BY <1>1, <1>3
<1> QED
  BY <1>3, <1>4

\* The bytes of the first chunks, added up.
BytesUpTo(chunks) ==
    CHOOSE upTo : upTo = [k \in 0..Len(chunks) |->
        IF k = 0 THEN 0 ELSE upTo[k - 1] + chunks[k]]

LEMMA BytesOfIsUpTo ==
    ASSUME NEW d, NEW n
    PROVE  BytesOf(d, n) = BytesUpTo(sent[d].chunks)[n]
  BY DEF BytesOf, BytesUpTo

LEMMA BytesUpToExists ==
    ASSUME NEW chunks, NEW n \in Nat
    PROVE  \E upTo : upTo = [k \in 0..n |->
               IF k = 0 THEN 0 ELSE upTo[k - 1] + chunks[k]]
<1> DEFINE Adds(g, m) == g = [k \in 0..m |->
                                IF k = 0 THEN 0 ELSE g[k - 1] + chunks[k]]
           N == {m \in Nat : \E g : Adds(g, m)}
<1>1. 0 \in N
  <2> DEFINE g == [k \in 0..0 |-> 0]
  <2>1. \A k \in 0..0 : k = 0
    OBVIOUS
  <2>2. Adds(g, 0)
    BY <2>1
  <2> QED
    BY <2>2
<1>2. ASSUME NEW m \in Nat, NEW g, Adds(g, m)
      PROVE  \E h : Adds(h, m + 1)
  <2> DEFINE h == [k \in 0..(m + 1) |->
                     IF k = 0 THEN 0 ELSE g[k - 1] + chunks[k]]
  <2>1. ASSUME NEW k \in 0..m PROVE h[k] = g[k]
    <3>1. k \in 0..(m + 1)
      OBVIOUS
    <3>2. g[k] = IF k = 0 THEN 0 ELSE g[k - 1] + chunks[k]
      BY <1>2
    <3> QED
      BY <3>1, <3>2
  <2>2. ASSUME NEW k \in 0..(m + 1)
        PROVE  h[k] = IF k = 0 THEN 0 ELSE h[k - 1] + chunks[k]
    <3>1. CASE k = 0
      BY <3>1
    <3>2. CASE k # 0
      <4>1. k - 1 \in 0..m
        BY <3>2
      <4>2. h[k - 1] = g[k - 1]
        BY <2>1, <4>1
      <4> QED
        BY <3>2, <4>2
    <3> QED
      BY <3>1, <3>2
  <2>3. Adds(h, m + 1)
    BY <2>2
  <2> QED
    BY <2>3
<1>3. \A m \in N : m + 1 \in N
  <2> HIDE DEF Adds
  <2> QED
    BY <1>2
<1>4. N = Nat
  <2> HIDE DEF N
  <2>1. N \in SUBSET Nat
    BY DEF N
  <2> QED
    BY <1>1, <1>3, <2>1, NumbersByStep
<1>5. n \in N
  BY <1>4
<1> QED
  BY <1>5

\* A chunk more adds its bytes.
LEMMA BytesUpToIs ==
    ASSUME NEW chunks \in Seq(Nat)
    PROVE  /\ BytesUpTo(chunks)[0] = 0
           /\ \A k \in 0..Len(chunks) : BytesUpTo(chunks)[k] \in Nat
           /\ \A k \in 0..Len(chunks) : k < Len(chunks) =>
                BytesUpTo(chunks)[k + 1] = BytesUpTo(chunks)[k] + chunks[k + 1]
<1> DEFINE up == BytesUpTo(chunks)
           n  == Len(chunks)
<1>1. n \in Nat /\ \A k \in 1..n : chunks[k] \in Nat
  OBVIOUS
<1>2. \E upTo : upTo = [k \in 0..n |->
         IF k = 0 THEN 0 ELSE upTo[k - 1] + chunks[k]]
  BY <1>1, BytesUpToExists
<1>3. up = [k \in 0..n |-> IF k = 0 THEN 0 ELSE up[k - 1] + chunks[k]]
  BY <1>2, Zenon DEF BytesUpTo
<1> HIDE DEF up, n
<1>4. up[0] = 0 /\ \A i \in 0..n : i # 0 => up[i] = up[i - 1] + chunks[i]
  BY <1>1, <1>3
<1>5. ASSUME NEW k \in 0..n, k < n
      PROVE  up[k + 1] = up[k] + chunks[k + 1]
  <2>1. k + 1 \in 0..n /\ k + 1 # 0 /\ k + 1 - 1 = k
    BY <1>1, <1>5
  <2>2. up[k + 1] = up[k + 1 - 1] + chunks[k + 1]
    BY <1>4, <2>1
  <2> QED
    BY <2>1, <2>2
<1>6. \A k \in 0..n : up[k] \in Nat
  <2> DEFINE G == {k \in Nat : k <= n => up[k] \in Nat}
  <2>1. 0 \in G
    BY <1>4
  <2>2. ASSUME NEW k \in G PROVE k + 1 \in G
    <3>1. CASE k < n
      BY <1>1, <1>5, <2>2, <3>1
    <3>2. CASE ~(k < n)
      BY <1>1, <3>2
    <3> QED
      BY <3>1, <3>2
  <2>3. G = Nat
    <3> HIDE DEF G
    <3>1. G \in SUBSET Nat
      BY DEF G
    <3> QED
      BY <2>1, <2>2, <3>1, NumbersByStep
  <2> QED
    BY <1>1, <2>3
<1> QED
  BY <1>4, <1>5, <1>6 DEF up, n

-----------------------------------------------------------------------------
(* What is judged is covered                                               *)

\* selectResponseContract never picks default while another declared status
\* matches, which is what isDeclaredStatusCovered asks of default.
LEMMA SelectedIsCovered ==
    ASSUME NEW responses, NEW status_, NEW r \in SelectResponseContract(responses, status_),
           \A q \in responses : q.status.type \in {"code", "range", "default"}
    PROVE  r.status \in CoveredStatuses({q.status : q \in responses}, {status_})
<1> DEFINE declared == {q.status : q \in responses}
           ofType(kind) == {q \in responses : q.status.type = kind
                                         /\ MatchesStatusToken(status_, q.status)}
<1>1. /\ r \in responses
      /\ r.status.type \in {"code", "range", "default"}
      /\ MatchesStatusToken(status_, r.status)
      /\ r.status.type = "default" => ofType("code") = {} /\ ofType("range") = {}
  BY DEF SelectResponseContract
<1>2. r.status \in declared
  BY <1>1
<1>3. IsDeclaredStatusCovered(r.status, {status_}, declared)
  <2>1. CASE r.status.type # "default"
    BY <1>1, <2>1 DEF IsDeclaredStatusCovered
  <2>2. CASE r.status.type = "default"
    <3>1. \A q \in responses : q.status.type # "default"
             => ~MatchesStatusToken(status_, q.status)
      BY <1>1, <2>2
    <3>2. \A t \in declared : t.type # "default" => ~MatchesStatusToken(status_, t)
      BY <3>1
    <3>3. QED
      BY <2>2, <3>2 DEF IsDeclaredStatusCovered
  <2>3. QED
    BY <2>1, <2>2
<1>4. QED
  BY <1>2, <1>3 DEF CoveredStatuses

\* What a recorder keeps of a key is in one of three states.
States == {"captured", "redacted", "omitted"}
Kept(evidence) == \A key \in DOMAIN evidence : evidence[key].state \in States

LEMMA ToEvidenceState ==
    ASSUME NEW values, NEW sensitive, ToEvidence(values, sensitive) # Absent
    PROVE  ToEvidence(values, sensitive).state \in States
  BY DEF ToEvidence, Evidence, States

LEMMA CaptureRequestKept ==
    ASSUME NEW stack_, NEW parameters_, NEW mapped,
           \A p \in parameters_ : p.in \in Places \cup {"form"}
    PROVE  Kept(CaptureRequest(stack_, parameters_, mapped))
<1> DEFINE all(key) == EvidenceOf(stack_, parameters_, mapped, key)
           kept     == {k \in KeysOf(parameters_) : all(k) # Absent}
<1>1. \A key \in KeysOf(parameters_) : key.in \in Places
  BY DEF KeysOf, Key, Places
<1>2. ASSUME NEW key \in KeysOf(parameters_), all(key) # Absent
      PROVE  all(key).state \in States
  <2>1. all(key) \in {Absent, ToEvidence(QueryValues(stack_, parameters_, key.name), FALSE),
                      ToEvidence(ValuesOf(parameters_, key.in, key.name), FALSE),
                      ToEvidence(ValuesOf(parameters_, key.in, key.name),
                                 key.name \in SensitiveNames)}
    BY <1>1 DEF EvidenceOf, Places
  <2>2. CASE all(key) = ToEvidence(QueryValues(stack_, parameters_, key.name), FALSE)
    BY <1>2, <2>2, ToEvidenceState
  <2>3. CASE all(key) = ToEvidence(ValuesOf(parameters_, key.in, key.name), FALSE)
    BY <1>2, <2>3, ToEvidenceState
  <2>4. CASE all(key) = ToEvidence(ValuesOf(parameters_, key.in, key.name),
                                   key.name \in SensitiveNames)
    <3> DEFINE secret == key.name \in SensitiveNames
    <3>1. ToEvidence(ValuesOf(parameters_, key.in, key.name), secret) # Absent
      BY <1>2, <2>4
    <3> HIDE DEF secret
    <3>2. ToEvidence(ValuesOf(parameters_, key.in, key.name), secret).state \in States
      BY <3>1, ToEvidenceState
    <3> USE DEF secret
    <3>3. QED
      BY <2>4, <3>2
  <2>5. QED
    BY <1>2, <2>1, <2>2, <2>3, <2>4
<1>3. CaptureRequest(stack_, parameters_, mapped) = [key \in kept |-> all(key)]
  BY DEF CaptureRequest
<1>4. QED
  BY <1>2, <1>3 DEF Kept

\* A parameter is valid only when its key was captured.
LEMMA ValidIsCaptured ==
    ASSUME NEW evidence, Kept(evidence), NEW p,
           ParameterTruth(evidence, p) = "captured-valid"
    PROVE  p.name \in CapturedKeys(evidence, p.in)
<1> DEFINE found == Lookup(evidence, p.in, p.name)
           key   == Key(p.in, p.name)
<1>1. found # Absent
  BY DEF ParameterTruth, NoTruth
<1>2. key \in DOMAIN evidence /\ found = evidence[key]
  BY <1>1 DEF Lookup
<1>3. found.state \in States
  BY <1>2 DEF Kept
<1>4. found.state = "captured"
  BY <1>1, <1>3 DEF ParameterTruth, States
<1>5. key.in = p.in /\ key.name = p.name
  BY DEF Key
<1>6. QED
  BY <1>2, <1>4, <1>5 DEF CapturedKeys

\* The inductive invariant: no step changes the call, and the one event, which
\* is written when the exchange is over, keeps evidence in the three states.
IInv ==
    /\ stack \in {"mvc", "webflux"}
    /\ contract \in Contracts
    /\ \E request \in Requests : parameters = request.parameters
    /\ phase # "over" => events = <<>>
    /\ \A i \in DOMAIN events : Kept(events[i].evidence)

LEMMA IInvInit == Init => IInv
  BY DEF Init, IInv

\* Record appends the event to none.
LEMMA RecordKept ==
    ASSUME NEW s, IInv, phase # "over", Record(s), UNCHANGED exchange
    PROVE  IInv'
<1>1. /\ (stack \in {"mvc", "webflux"})'
      /\ (contract \in Contracts)' /\ phase' = "over"
      /\ (\E request \in Requests : parameters = request.parameters)'
  BY DEF IInv, exchange, Record
<1>2. events = <<>>
  BY DEF IInv
<1>3. CASE UNCHANGED events
  BY <1>1, <1>2, <1>3 DEF IInv
<1>4. CASE events' # events
  <2>1. PICK mapped \in BOOLEAN :
          events' = Append(events,
                 [status   |-> s,
                  mapped   |-> mapped,
                  evidence |-> CaptureRequest(stack, parameters, mapped),
                  request  |-> Snapshot("request"),
                  response |-> Snapshot("response")])
    BY <1>4 DEF Record
  <2>2. DOMAIN events' = {1}
        /\ events'[1].evidence = CaptureRequest(stack, parameters, mapped)
    BY <1>2, <2>1
  <2>3. Kept(CaptureRequest(stack, parameters, mapped))
    BY RequestsAssumption, CaptureRequestKept DEF IInv
  <2>4. QED
    BY <1>1, <2>2, <2>3 DEF IInv, Kept
<1>5. QED
  BY <1>3, <1>4

LEMMA IInvNext == IInv /\ [Next]_vars => IInv'
<1> SUFFICES ASSUME IInv, [Next]_vars PROVE IInv'
  OBVIOUS
<1>1. ASSUME NEW s, Record(s), phase # "over", UNCHANGED exchange PROVE IInv'
  BY <1>1, RecordKept
<1>2. ASSUME UNCHANGED <<exchange, events>>, phase' = "over" => phase = "over" \/ events = <<>>,
             phase = "over" => phase' = "over"
      PROVE  IInv'
  BY <1>2 DEF IInv, exchange
<1>3. ASSUME NEW d \in Directions, PassChunk(d) PROVE IInv'
  BY <1>2, <1>3 DEF PassChunk, Moves
<1>4. ASSUME NEW d \in Directions, LoseChunk(d) PROVE IInv'
  BY <1>2, <1>4 DEF LoseChunk, Moves
<1>5. ASSUME NEW s \in Statuses, NEW body \in Bodies, NEW flush \in BOOLEAN,
             Answer(s, body, flush)
      PROVE  IInv'
  BY <1>2, <1>5 DEF Answer, exchange
<1>6. CASE Complete
  BY <1>1, <1>6 DEF Complete
<1>7. ASSUME NEW s \in Statuses, SendError(s) PROVE IInv'
  BY <1>1, <1>7 DEF SendError
<1>8. CASE StartAsync
  BY <1>1, <1>8 DEF StartAsync
<1>9. CASE Fail
  BY <1>2, <1>9 DEF Fail, IInv
<1>10. ASSUME NEW s \in Statuses, RenderError(s) PROVE IInv'
  BY <1>2, <1>10 DEF RenderError
<1>11. CASE RecordFailure
  BY <1>1, <1>11 DEF RecordFailure
<1>12. CASE Cancel
  BY <1>2, <1>12 DEF Cancel, IInv
<1>13. CASE UNCHANGED vars
  BY <1>2, <1>13 DEF vars, exchange
<1>14. QED
  BY <1>3, <1>4, <1>5, <1>6, <1>7, <1>8, <1>9, <1>10, <1>11, <1>12, <1>13 DEF Next

\* The declared status whose content judges an answer is one that the coverage
\* report ticks off for it, and so is every path, query and header parameter
\* that is found valid: for all contracts, requests, bodies and statuses.
THEOREM JudgedCovered == Spec => []JudgedIsCovered
<1>1. IInv => JudgedIsCovered
  <2> SUFFICES ASSUME IInv, NEW i \in DOMAIN events
               PROVE  JudgedStatusIsCovered(events[i]) /\ ValidParameterIsCovered(events[i])
    BY DEF JudgedIsCovered
  <2> DEFINE e == events[i]
  <2>1. JudgedStatusIsCovered(e)
    <3>1. \A r \in contract.responses : r.status.type \in {"code", "range", "default"}
      BY ContractsAssumption DEF IInv, StatusTokens
    <3> QED
      BY <3>1, SelectedIsCovered DEF JudgedStatusIsCovered
  <2>2. ASSUME NEW p \in contract.parameters, p.in # "cookie",
               ParameterTruth(e.evidence, p) = "captured-valid"
        PROVE  IsParameterCovered(p, ParameterEvidence(e))
    <3>1. Kept(e.evidence) /\ p.in \in Places
      BY ContractsAssumption DEF IInv
    <3>2. p.name \in CapturedKeys(e.evidence, p.in)
      BY <2>2, <3>1, ValidIsCaptured
    <3>3. CASE p.in = "path"
      BY <3>3 DEF IsParameterCovered, ParameterEvidence
    <3>4. CASE p.in = "query"
      BY <3>2, <3>4 DEF IsParameterCovered, ParameterEvidence
    <3>5. CASE p.in = "header"
      BY <3>2, <3>5 DEF IsParameterCovered, ParameterEvidence
    <3>6. QED
      BY <2>2, <3>1, <3>3, <3>4, <3>5 DEF Places
  <2>3. QED
    BY <2>1, <2>2 DEF ValidParameterIsCovered
<1>2. QED
  BY <1>1, IInvInit, IInvNext, PTL DEF Spec

-----------------------------------------------------------------------------
(* The recorders keep the same                                             *)

AllBodies == Bodies \cup {Nothing} \cup {r.body : r \in Requests}

Types == {b.type : b \in AllBodies}

SessionType ==
    [type : Types, kept : Nat, sawBytes : BOOLEAN,
     failed : BOOLEAN, reason : Reasons \cup {None}]

LEMMA ChunksAreSizes == \A b \in AllBodies : b.chunks \in Seq(Nat)
<1>1. Nothing.chunks \in Seq(Nat)
  BY DEF Nothing
<1> QED
  BY <1>1, BodiesAssumption DEF AllBodies

LEMMA BodiesHaveSessions ==
    ASSUME NEW b \in AllBodies
    PROVE  NewSession(b.type) \in SessionType
  BY DEF NewSession, SessionType, Types

\* What a session in which no chunk was lost has made of so many bytes.
Gathers(s, bytes) ==
    /\ s.reason = None =>
         /\ ~s.failed
         /\ s.kept = bytes
         /\ bytes <= MaxCapture
         /\ s.sawBytes => bytes > 0
         /\ bytes > 0 => s.sawBytes
         /\ bytes > 0 => JsonIncompatibility(s.type) = None
    /\ s.reason = "policy-filtered" =>
         bytes > 0 /\ JsonIncompatibility(s.type) = "policy-filtered"
    /\ s.reason = "oversized" =>
         bytes > MaxCapture /\ JsonIncompatibility(s.type) = None
    /\ s.reason # "malformed"

LEMMA NewGathers ==
    ASSUME NEW type
    PROVE  Gathers(NewSession(type), 0)
  BY MaxCaptureAssumption DEF Gathers, NewSession, None

LEMMA Incompatibilities ==
    ASSUME NEW type
    PROVE  JsonIncompatibility(type) \in {None, "unsupported", "policy-filtered"}
  BY DEF JsonIncompatibility

\* A chunk more, of whatever size and in whatever state of the session.
LEMMA AppendGathers ==
    ASSUME NEW s \in SessionType, NEW bytes \in Nat, NEW n \in Nat
    PROVE  /\ AppendBytes(s, n) \in SessionType
           /\ Gathers(s, bytes) => Gathers(AppendBytes(s, n), bytes + n)
<1> USE MaxCaptureAssumption DEF SessionType
<1>1. CASE n = 0
  BY <1>1 DEF AppendBytes
<1>2. CASE n # 0 /\ s.reason # None
  <2>1. AppendBytes(s, n) = [s EXCEPT !.sawBytes = TRUE]
    BY <1>2 DEF AppendBytes
  <2>2. ASSUME NEW t, t = AppendBytes(s, n)
        PROVE  t \in SessionType /\ (Gathers(s, bytes) => Gathers(t, bytes + n))
    <3>1. /\ t \in SessionType
          /\ t.type = s.type /\ t.reason = s.reason
      BY <2>1, <2>2
    <3>2. bytes > 0 \/ bytes > MaxCapture => bytes + n > 0
      OBVIOUS
    <3>3. bytes > MaxCapture => bytes + n > MaxCapture
      OBVIOUS
    <3> QED
      BY <1>2, <3>1, <3>2, <3>3 DEF Gathers
  <2> QED
    BY <2>2
<1>3. CASE n # 0 /\ s.reason = None /\ JsonIncompatibility(s.type) # None
  <2>1. AppendBytes(s, n) = [[s EXCEPT !.sawBytes = TRUE]
                                EXCEPT !.reason = JsonIncompatibility(s.type)]
    BY <1>3 DEF AppendBytes
  <2>2. JsonIncompatibility(s.type) \in {"unsupported", "policy-filtered"}
    BY <1>3, Incompatibilities
  <2>3. bytes + n > 0
    BY <1>3
  <2>4. ASSUME NEW t, t = AppendBytes(s, n)
        PROVE  t \in SessionType /\ Gathers(t, bytes + n)
    <3>1. /\ t \in SessionType
          /\ t.type = s.type /\ t.reason = JsonIncompatibility(s.type)
      BY <2>1, <2>2, <2>4 DEF Reasons
    <3>2. t.reason \notin {None, "oversized", "malformed"}
      BY <2>2, <3>1 DEF None
    <3> QED
      BY <2>3, <3>1, <3>2 DEF Gathers
  <2> QED
    BY <2>4
<1>4. CASE n # 0 /\ s.reason = None /\ JsonIncompatibility(s.type) = None
  <2>1. CASE s.kept + n > MaxCapture
    <3>1. AppendBytes(s, n) = [[s EXCEPT !.sawBytes = TRUE] EXCEPT !.reason = "oversized"]
      BY <1>4, <2>1 DEF AppendBytes, KeepBytes
    <3> QED
      BY <1>4, <2>1, <3>1 DEF Gathers, None, Reasons
  <2>2. CASE ~(s.kept + n > MaxCapture)
    <3>1. AppendBytes(s, n) = [[s EXCEPT !.sawBytes = TRUE] EXCEPT !.kept = s.kept + n]
      BY <1>4, <2>2 DEF AppendBytes, KeepBytes
    <3>2. ASSUME NEW t, t = AppendBytes(s, n)
          PROVE  t \in SessionType /\ (Gathers(s, bytes) => Gathers(t, bytes + n))
      <4>1. s.kept + n \in Nat
        OBVIOUS
      <4>2. /\ t \in SessionType
            /\ t.type = s.type /\ t.reason = None /\ t.failed = s.failed
            /\ t.kept = s.kept + n /\ t.sawBytes
        BY <1>4, <3>1, <3>2, <4>1
      <4>3. bytes + n > 0
        BY <1>4
      <4> QED
        BY <1>4, <2>2, <4>2, <4>3 DEF Gathers, None
    <3> QED
      BY <3>2
  <2> QED
    BY <2>1, <2>2
<1> QED
  BY <1>1, <1>2, <1>3, <1>4

\* In the end it is what MVC makes of the bytes in one piece.
LEMMA GatheredAgrees ==
    ASSUME NEW s \in SessionType, NEW bytes \in Nat, NEW form, NEW whole,
           Gathers(s, bytes), s.reason # "unsupported",
           s.kept = bytes => form = whole
    PROVE  FinishSession(s, form) = CaptureMvc(s.type, whole, bytes)
<1> USE MaxCaptureAssumption DEF SessionType
<1>1. CASE s.reason = None /\ bytes = 0
  BY <1>1 DEF Gathers, FinishSession, CaptureMvc
<1>2. CASE s.reason = None /\ bytes # 0
  <2>1. IsMediaType(s.type) /\ IsJson(s.type) /\ JsonIncompatibility(s.type) = None
    BY <1>2 DEF Gathers, JsonIncompatibility, None
  <2>2. FinishSession(s, form) = ReadTree(s.type, form, s.kept)
    BY <1>2, <2>1 DEF Gathers, FinishSession
  <2>3. CaptureMvc(s.type, whole, bytes) = ReadTree(s.type, whole, bytes)
    BY <1>2, <2>1 DEF Gathers, CaptureMvc
  <2> QED
    BY <1>2, <2>2, <2>3 DEF Gathers
<1>3. CASE s.reason = "policy-filtered"
  <2>1. ~IsMediaType(s.type) \/ ~IsJson(s.type)
    BY <1>3 DEF Gathers, JsonIncompatibility, None
  <2> QED
    BY <1>3, <2>1 DEF Gathers, FinishSession, CaptureMvc, None
<1>4. CASE s.reason = "oversized"
  <2>1. IsMediaType(s.type) /\ IsJson(s.type)
    BY <1>4 DEF Gathers, JsonIncompatibility, None
  <2> QED
    BY <1>4, <2>1 DEF Gathers, FinishSession, CaptureMvc, None
<1> QED
  BY <1>1, <1>2, <1>3, <1>4 DEF Gathers, Reasons

\* The bytes that have gone through the recorder.
Gone(d) == BytesUpTo(sent[d].chunks)[passed[d]]

\* The inductive invariant: a session has made of the bytes that went by what
\* it should, and has seen nothing of an answer before there is one.
CaptureInv ==
    /\ sent \in [Directions -> AllBodies]
    /\ passed \in [Directions -> Nat]
    /\ session \in [Directions -> SessionType]
    /\ phase = "handling" =>
         /\ sent["response"] = Nothing
         /\ session["response"] = NewSession(NoType)
         /\ "response" \notin lost
    /\ \A d \in Directions :
         /\ passed[d] <= Len(sent[d].chunks)
         /\ stack = "webflux" /\ d \notin lost => Gathers(session[d], Gone(d))

\* What the invariant needs of one direction in a step that leaves it alone.
LEMMA DirectionKept ==
    ASSUME CaptureInv, NEW d \in Directions,
           sent'[d] = sent[d], passed'[d] = passed[d], session'[d] = session[d],
           lost \subseteq lost', stack' = stack
    PROVE  /\ passed'[d] <= Len(sent'[d].chunks)
           /\ stack' = "webflux" /\ d \notin lost' => Gathers(session'[d], Gone(d)')
<1>1. Gone(d)' = Gone(d)
  BY DEF Gone
<1> QED
  BY <1>1 DEF CaptureInv

LEMMA CaptureInitially == Init => CaptureInv
<1> SUFFICES ASSUME Init PROVE CaptureInv
  OBVIOUS
<1>1. PICK request \in Requests :
         /\ sent = [request |-> request.body, response |-> Nothing]
         /\ session = [request |-> NewSession(request.body.type),
                       response |-> NewSession(NoType)]
  BY DEF Init
<1>2. request.body \in AllBodies /\ Nothing \in AllBodies /\ Nothing.type = NoType
  BY DEF AllBodies, Nothing
<1>3. sent \in [Directions -> AllBodies]
  BY <1>1, <1>2 DEF Directions
<1>4. \A d \in Directions : session[d] = NewSession(sent[d].type)
  BY <1>1, <1>2 DEF Directions
<1>5. session \in [Directions -> SessionType]
  <2>1. NewSession(request.body.type) \in SessionType /\ NewSession(NoType) \in SessionType
    BY <1>2, BodiesHaveSessions
  <2> QED
    BY <1>1, <2>1 DEF Directions
<1>6. passed = [d \in Directions |-> 0] /\ lost = {}
  BY DEF Init
<1>7. ASSUME NEW d \in Directions
      PROVE  passed[d] <= Len(sent[d].chunks) /\ Gathers(session[d], Gone(d))
  <2>1. sent[d].chunks \in Seq(Nat) /\ passed[d] = 0
    BY <1>3, <1>6, ChunksAreSizes
  <2>2. Gone(d) = 0
    BY <2>1, BytesUpToIs DEF Gone
  <2>3. Gathers(session[d], 0)
    BY <1>4, NewGathers
  <2> QED
    BY <2>1, <2>2, <2>3
<1>8. sent["response"] = Nothing /\ session["response"] = NewSession(NoType)
  BY <1>1
<1> QED
  BY <1>3, <1>5, <1>6, <1>7, <1>8 DEF CaptureInv

\* A chunk more, kept or lost.
LEMMA CaptureMoves ==
    ASSUME CaptureInv, NEW d \in Directions, Moves(d), NEW s \in SessionType,
           \/ stack = "mvc" /\ s = session[d]
           \/ s = AppendBytes(session[d], sent[d].chunks[passed[d] + 1])
           \/ d \in lost',
           session' = [session EXCEPT ![d] = s],
           lost \subseteq lost', lost' \subseteq lost \cup {d},
           sent' = sent, phase' = phase, stack' = stack
    PROVE  CaptureInv'
<1>1. /\ passed' = [passed EXCEPT ![d] = @ + 1]
      /\ passed[d] < Len(sent[d].chunks)
      /\ d = "request" \/ phase # "handling"
  BY DEF Moves
<1>2. /\ sent' \in [Directions -> AllBodies]
      /\ passed' \in [Directions -> Nat]
      /\ session' \in [Directions -> SessionType]
  BY <1>1 DEF CaptureInv
<1>3. phase' = "handling" => /\ sent'["response"] = Nothing
                             /\ session'["response"] = NewSession(NoType)
                             /\ "response" \notin lost'
  BY <1>1 DEF CaptureInv, Directions
<1>4. ASSUME NEW e \in Directions
      PROVE  /\ passed'[e] <= Len(sent'[e].chunks)
             /\ stack' = "webflux" /\ e \notin lost' => Gathers(session'[e], Gone(e)')
  <2>1. CASE e # d
    <3>1. sent'[e] = sent[e] /\ passed'[e] = passed[e] /\ session'[e] = session[e]
      BY <1>1, <2>1 DEF CaptureInv
    <3> QED
      BY <3>1, DirectionKept
  <2>2. CASE e = d
    <3>1. sent[d].chunks \in Seq(Nat) /\ passed[d] \in Nat /\ session[d] \in SessionType
      BY ChunksAreSizes DEF CaptureInv
    <3>2. /\ passed'[d] = passed[d] + 1 /\ sent'[d] = sent[d] /\ session'[d] = s
          /\ passed[d] \in 0..Len(sent[d].chunks)
      BY <1>1, <3>1 DEF CaptureInv
    <3>3. sent[d].chunks[passed[d] + 1] \in Nat
      BY <1>1, <3>1
    <3>4. Gone(d) \in Nat /\ Gone(d)' = Gone(d) + sent[d].chunks[passed[d] + 1]
      BY <1>1, <3>1, <3>2, BytesUpToIs DEF Gone
    <3>5. passed'[d] <= Len(sent'[d].chunks)
      BY <1>1, <3>1, <3>2
    <3>6. ASSUME stack' = "webflux", d \notin lost' PROVE Gathers(session'[d], Gone(d)')
      <4>1. Gathers(session[d], Gone(d))
        BY <3>6 DEF CaptureInv
      <4>2. s = AppendBytes(session[d], sent[d].chunks[passed[d] + 1])
        BY <3>6
      <4> QED
        BY <3>1, <3>2, <3>3, <3>4, <4>1, <4>2, AppendGathers
    <3> QED
      BY <2>2, <3>5, <3>6
  <2> QED
    BY <2>1, <2>2
<1> QED
  BY <1>2, <1>3, <1>4 DEF CaptureInv

\* The application answers: the session learns the type of the answer.
LEMMA CaptureAnswer ==
    ASSUME CaptureInv, NEW s \in Statuses, NEW body \in Bodies, NEW flush \in BOOLEAN,
           Answer(s, body, flush)
    PROVE  CaptureInv'
<1> DEFINE observed == ObserveContentType(session["response"], body.type)
           after    == IF flush THEN MarkUnsupported(observed) ELSE observed
<1>1. /\ phase = "handling" /\ phase' = "answering"
      /\ sent' = [sent EXCEPT !["response"] = body]
      /\ session' = [session EXCEPT !["response"] = after]
      /\ UNCHANGED <<stack, passed, lost>>
  BY DEF Answer, exchange
<1>2. /\ session["response"] = NewSession(NoType)
      /\ body \in AllBodies /\ body.type \in Types
      /\ sent["response"].chunks = <<>>
  BY <1>1 DEF CaptureInv, AllBodies, Types, Nothing
<1>3. observed \in SessionType /\ observed.kept = 0 /\ ~observed.sawBytes
      /\ ~observed.failed /\ observed.reason = None
  <2>1. ASSUME NEW o, o = NewSession(NoType)
        PROVE  o \in SessionType /\ o.kept = 0 /\ ~o.sawBytes /\ ~o.failed /\ o.reason = None
    <3>1. o \in SessionType
      BY <1>2, <2>1 DEF CaptureInv, Directions
    <3> QED
      BY <2>1, <3>1 DEF NewSession
  <2>2. ASSUME NEW o \in SessionType, o.kept = 0, ~o.sawBytes, ~o.failed, o.reason = None,
               NEW w, w = [o EXCEPT !.type = body.type]
        PROVE  w \in SessionType /\ w.kept = 0 /\ ~w.sawBytes /\ ~w.failed /\ w.reason = None
    BY <1>2, <2>2 DEF SessionType
  <2> QED
    BY <1>2, <2>1, <2>2 DEF ObserveContentType
<1>4. after \in SessionType /\ Gathers(after, 0)
  <2> HIDE DEF observed
  <2>1. Gathers(observed, 0) /\ Gathers([observed EXCEPT !.reason = "unsupported"], 0)
    BY <1>3, MaxCaptureAssumption DEF Gathers, None, SessionType
  <2>2. [observed EXCEPT !.reason = "unsupported"] \in SessionType
    BY <1>3 DEF SessionType, Reasons
  <2> QED
    BY <1>3, <2>1, <2>2 DEF MarkUnsupported
<1> HIDE DEF after
<1>5. /\ sent' \in [Directions -> AllBodies]
      /\ passed' \in [Directions -> Nat]
      /\ session' \in [Directions -> SessionType]
  BY <1>1, <1>2, <1>4 DEF CaptureInv
<1>6. ASSUME NEW d \in Directions
      PROVE  /\ passed'[d] <= Len(sent'[d].chunks)
             /\ stack' = "webflux" /\ d \notin lost' => Gathers(session'[d], Gone(d)')
  <2>1. CASE d # "response"
    <3>1. sent'[d] = sent[d] /\ passed'[d] = passed[d] /\ session'[d] = session[d]
      BY <1>1, <2>1 DEF CaptureInv
    <3> QED
      BY <1>1, <3>1, DirectionKept
  <2>2. CASE d = "response"
    <3>1. passed[d] \in Nat /\ passed[d] <= Len(sent[d].chunks)
      BY DEF CaptureInv
    <3>2. passed[d] = 0
      BY <1>2, <2>2, <3>1
    <3>3. sent'[d] = body /\ session'[d] = after /\ body.chunks \in Seq(Nat)
      BY <1>1, <1>2, <2>2, ChunksAreSizes DEF CaptureInv
    <3>4. Gone(d)' = 0
      BY <1>1, <3>2, <3>3, BytesUpToIs DEF Gone
    <3> QED
      BY <1>1, <1>4, <3>2, <3>3, <3>4
  <2> QED
    BY <2>1, <2>2
<1> QED
  BY <1>1, <1>5, <1>6 DEF CaptureInv

\* A step that moves no byte and starts no handling.
LEMMA CaptureKept ==
    ASSUME CaptureInv, UNCHANGED <<stack, sent, passed, session, lost>>,
           phase' = phase \/ phase' # "handling"
    PROVE  CaptureInv'
<1>1. \A d \in Directions : /\ passed'[d] <= Len(sent'[d].chunks)
                            /\ stack' = "webflux" /\ d \notin lost' => Gathers(session'[d], Gone(d)')
  BY DirectionKept
<1> QED
  BY <1>1 DEF CaptureInv

LEMMA CaptureNext == CaptureInv /\ [Next]_vars => CaptureInv'
<1> SUFFICES ASSUME CaptureInv, [Next]_vars PROVE CaptureInv'
  OBVIOUS
<1>1. ASSUME NEW d \in Directions, PassChunk(d) PROVE CaptureInv'
  <2> DEFINE s == IF stack = "mvc" THEN session[d]
                  ELSE AppendBytes(session[d], sent[d].chunks[passed[d] + 1])
  <2>1. Moves(d) /\ UNCHANGED <<stack, sent, phase, lost>>
    BY <1>1 DEF PassChunk, exchange
  <2>2. /\ session[d] \in SessionType /\ sent[d].chunks \in Seq(Nat)
        /\ passed[d] \in Nat /\ passed[d] < Len(sent[d].chunks)
    BY <2>1, ChunksAreSizes DEF CaptureInv, Moves
  <2>3. s \in SessionType
    <3>1. sent[d].chunks[passed[d] + 1] \in Nat
      BY <2>2
    <3> QED
      BY <2>2, <3>1, AppendGathers
  <2>4. session' = [session EXCEPT ![d] = s]
    BY <1>1 DEF PassChunk, CaptureInv
  <2>5. \/ stack = "mvc" /\ s = session[d]
        \/ s = AppendBytes(session[d], sent[d].chunks[passed[d] + 1])
    OBVIOUS
  <2> HIDE DEF s
  <2> QED
    BY <2>1, <2>3, <2>4, <2>5, CaptureMoves
<1>2. ASSUME NEW d \in Directions, LoseChunk(d) PROVE CaptureInv'
  <2>1. /\ Moves(d) /\ UNCHANGED <<stack, sent, phase>>
        /\ lost' = lost \cup {d}
        /\ session' = [session EXCEPT ![d] = MarkUnexpectedFailure(session[d])]
    BY <1>2 DEF LoseChunk, exchange
  <2>2. MarkUnexpectedFailure(session[d]) \in SessionType
    <3>1. session[d] \in SessionType
      BY DEF CaptureInv
    <3> QED
      BY <3>1 DEF MarkUnexpectedFailure, SessionType
  <2> QED
    BY <2>1, <2>2, CaptureMoves
<1>3. ASSUME NEW s \in Statuses, NEW body \in Bodies, NEW flush \in BOOLEAN,
             Answer(s, body, flush)
      PROVE  CaptureInv'
  BY <1>3, CaptureAnswer
<1>4. CASE Complete
  BY <1>4, CaptureKept DEF Complete, Record, exchange
<1>5. ASSUME NEW s \in Statuses, SendError(s) PROVE CaptureInv'
  BY <1>5, CaptureKept DEF SendError, Record, exchange
<1>6. CASE StartAsync
  BY <1>6, CaptureKept DEF StartAsync, Record, exchange
<1>7. CASE Fail
  BY <1>7, CaptureKept DEF Fail, exchange
<1>8. ASSUME NEW s \in Statuses, RenderError(s) PROVE CaptureInv'
  BY <1>8, CaptureKept DEF RenderError, exchange
<1>9. CASE RecordFailure
  BY <1>9, CaptureKept DEF RecordFailure, Record, exchange
<1>10. CASE Cancel
  BY <1>10, CaptureKept DEF Cancel, exchange
<1>11. CASE UNCHANGED vars
  BY <1>11, CaptureKept DEF vars
<1> QED
  BY <1>1, <1>2, <1>3, <1>4, <1>5, <1>6, <1>7, <1>8, <1>9, <1>10, <1>11 DEF Next

\* What WebFlux has gathered of a body chunk by chunk is what MVC makes of the
\* same bytes in one piece, for every body in whatever chunks and any limit.
THEOREM RecordersKeepTheSame == Spec => []RecordersAgree
<1>1. CaptureInv => RecordersAgree
  <2> SUFFICES ASSUME CaptureInv, NEW d \in Directions,
                      stack = "webflux", d \notin lost, session[d].reason # "unsupported"
               PROVE  Snapshot(d) = CaptureMvc(session[d].type,
                                      FormOf(d, BytesOf(d, passed[d])),
                                      BytesOf(d, passed[d]))
    BY DEF RecordersAgree
  <2>1. /\ session[d] \in SessionType /\ Gathers(session[d], Gone(d))
        /\ sent[d].chunks \in Seq(Nat)
        /\ passed[d] \in 0..Len(sent[d].chunks)
    BY ChunksAreSizes DEF CaptureInv
  <2>2. BytesOf(d, passed[d]) = Gone(d) /\ Gone(d) \in Nat
    BY <2>1, BytesOfIsUpTo, BytesUpToIs DEF Gone
  <2>3. FinishSession(session[d], FormOf(d, session[d].kept))
          = CaptureMvc(session[d].type, FormOf(d, Gone(d)), Gone(d))
    BY <2>1, <2>2, GatheredAgrees
  <2> QED
    BY <2>2, <2>3 DEF Snapshot
<1> QED
  BY <1>1, CaptureInitially, CaptureNext, PTL DEF Spec

-----------------------------------------------------------------------------
(* The event tells what was sent                                           *)

\* An event is about the exchange as it was when it was over.
Tells(e) ==
    /\ e.status = status
    /\ e.mapped \in BOOLEAN
    /\ e.evidence = CaptureRequest(stack, parameters, e.mapped)
    /\ \A d \in Directions : e[d] = Snapshot(d)

EventInv ==
    /\ IInv
    /\ CaptureInv
    /\ status \in 100..599
    /\ \A d \in Directions : session[d].type = sent[d].type
    /\ \A i \in DOMAIN events : Tells(events[i])

LEMMA SnapshotKept ==
    ASSUME UNCHANGED <<stack, sent, passed, session>>, NEW d
    PROVE  Snapshot(d)' = Snapshot(d)
<1>1. \A n : BytesOf(d, n)' = BytesOf(d, n)
  BY DEF BytesOf
<1>2. \A n : FormOf(d, n)' = FormOf(d, n)
  BY <1>1 DEF FormOf
<1> QED
  BY <1>1, <1>2 DEF Snapshot

LEMMA EventInitially == Init => EventInv
<1> SUFFICES ASSUME Init PROVE EventInv
  OBVIOUS
<1>1. IInv /\ CaptureInv
  BY IInvInit, CaptureInitially
<1>2. status \in 100..599 /\ events = <<>>
  BY DEF Init, ServerDefault
<1>3. \A d \in Directions : session[d].type = sent[d].type
  BY DEF Init, Directions, NewSession, Nothing
<1> QED
  BY <1>1, <1>2, <1>3 DEF EventInv

\* The event is written when the exchange is over, and tells what it was.
LEMMA RecordTells ==
    ASSUME EventInv, IInv', CaptureInv', phase # "over", NEW s \in 100..599,
           Record(s), status' = s, UNCHANGED <<exchange, sent, passed, session>>
    PROVE  EventInv'
<1>1. events = <<>>
  BY DEF EventInv, IInv
<1>2. \A i \in DOMAIN events' : Tells(events[i])'
  <2>1. CASE UNCHANGED events
    BY <1>1, <2>1
  <2>2. CASE events' # events
    <3>1. PICK mapped \in BOOLEAN :
            events' = Append(events,
                   [status   |-> s,
                    mapped   |-> mapped,
                    evidence |-> CaptureRequest(stack, parameters, mapped),
                    request  |-> Snapshot("request"),
                    response |-> Snapshot("response")])
      BY <2>2 DEF Record
    <3>2. /\ DOMAIN events' = {1}
          /\ events'[1].status = s /\ events'[1].mapped = mapped
          /\ events'[1].evidence = CaptureRequest(stack, parameters, mapped)
          /\ \A d \in Directions : events'[1][d] = Snapshot(d)
      BY <1>1, <3>1 DEF Directions
    <3>3. \A d \in Directions : events'[1][d] = Snapshot(d)'
      <4>1. UNCHANGED <<stack, sent, passed, session>>
        BY DEF exchange
      <4> QED
        BY <3>2, <4>1, SnapshotKept
    <3>4. stack' = stack /\ parameters' = parameters
      BY DEF exchange
    <3> QED
      BY <3>2, <3>3, <3>4 DEF Tells
  <2> QED
    BY <2>1, <2>2
<1> QED
  BY <1>2 DEF EventInv

\* As long as the exchange is not over there is no event.
LEMMA SilenceKept ==
    ASSUME EventInv, IInv', CaptureInv', phase # "over", UNCHANGED events,
           status' \in 100..599,
           \A d \in Directions : session'[d].type = sent'[d].type
    PROVE  EventInv'
  BY DEF EventInv, IInv

\* No byte and no header: the types stay.
LEMMA TypesKept ==
    ASSUME EventInv, UNCHANGED <<sent, session>>
    PROVE  \A d \in Directions : session'[d].type = sent'[d].type
  BY DEF EventInv

LEMMA EventNext == EventInv /\ [Next]_vars => EventInv'
<1> SUFFICES ASSUME EventInv, [Next]_vars PROVE EventInv'
  OBVIOUS
<1> USE StatusesAssumption
<1>0. IInv' /\ CaptureInv'
  BY IInvNext, CaptureNext DEF EventInv
<1>1. ASSUME NEW d \in Directions, PassChunk(d) PROVE EventInv'
  <2> DEFINE s == AppendBytes(session[d], sent[d].chunks[passed[d] + 1])
  <2>1. /\ session \in [Directions -> SessionType] /\ session[d] \in SessionType
        /\ sent[d].chunks \in Seq(Nat) /\ passed[d] \in Nat
        /\ passed[d] < Len(sent[d].chunks) /\ phase # "over"
    BY <1>1, ChunksAreSizes DEF EventInv, CaptureInv, PassChunk, Moves
  <2>2. s.type = session[d].type
    <3> DEFINE n == sent[d].chunks[passed[d] + 1]
    <3> HIDE DEF n
    <3> QED
      BY <2>1 DEF AppendBytes, KeepBytes, SessionType, n
  <2>3. session' = session \/ session' = [session EXCEPT ![d] = s]
    BY <1>1 DEF PassChunk
  <2> HIDE DEF s
  <2>4. \A e \in Directions : session'[e].type = sent'[e].type
    BY <1>1, <2>1, <2>2, <2>3 DEF EventInv, PassChunk
  <2> QED
    BY <1>0, <1>1, <2>1, <2>4, SilenceKept DEF EventInv, PassChunk
<1>2. ASSUME NEW d \in Directions, LoseChunk(d) PROVE EventInv'
  <2>1. /\ session \in [Directions -> SessionType] /\ session[d] \in SessionType
        /\ phase # "over"
    BY <1>2 DEF EventInv, CaptureInv, LoseChunk, Moves
  <2>2. \A e \in Directions : session'[e].type = sent'[e].type
    BY <1>2, <2>1 DEF EventInv, LoseChunk, MarkUnexpectedFailure, SessionType
  <2> QED
    BY <1>0, <1>2, <2>1, <2>2, SilenceKept DEF EventInv, LoseChunk
<1>3. ASSUME NEW s \in Statuses, NEW body \in Bodies, NEW flush \in BOOLEAN,
             Answer(s, body, flush)
      PROVE  EventInv'
  <2> DEFINE observed == ObserveContentType(session["response"], body.type)
             after    == IF flush THEN MarkUnsupported(observed) ELSE observed
  <2>1. /\ phase = "handling" /\ status' = s /\ UNCHANGED events
        /\ sent' = [sent EXCEPT !["response"] = body]
        /\ session' = [session EXCEPT !["response"] = after]
        /\ sent \in [Directions -> AllBodies] /\ session \in [Directions -> SessionType]
        /\ session["response"] = NewSession(NoType)
    BY <1>3 DEF Answer, EventInv, CaptureInv
  <2>2. observed.type = body.type /\ "type" \in DOMAIN observed
    BY <2>1 DEF ObserveContentType, NewSession
  <2>3. after.type = body.type
    <3> HIDE DEF observed
    <3> QED
      BY <2>2 DEF MarkUnsupported
  <2> HIDE DEF after
  <2>4. \A e \in Directions : session'[e].type = sent'[e].type
    BY <2>1, <2>3 DEF EventInv
  <2> QED
    BY <1>0, <2>1, <2>4, SilenceKept
<1>4. CASE Complete
  BY <1>0, <1>4, RecordTells DEF Complete, EventInv
<1>5. ASSUME NEW s \in Statuses, SendError(s) PROVE EventInv'
  BY <1>0, <1>5, RecordTells DEF SendError
<1>6. CASE StartAsync
  BY <1>0, <1>6, RecordTells DEF StartAsync, EventInv
<1>7. CASE Fail
  BY <1>0, <1>7, SilenceKept, TypesKept DEF Fail, EventInv
<1>8. ASSUME NEW s \in Statuses, RenderError(s) PROVE EventInv'
  BY <1>0, <1>8, SilenceKept, TypesKept DEF RenderError
<1>9. CASE RecordFailure
  BY <1>0, <1>9, RecordTells DEF RecordFailure, EventInv
<1>10. CASE Cancel
  BY <1>0, <1>10, SilenceKept, TypesKept DEF Cancel, EventInv
<1>11. CASE UNCHANGED vars
  <2>1. UNCHANGED <<stack, parameters, status, sent, passed, session, events>>
    BY <1>11 DEF vars
  <2>2. \A d \in Directions : Snapshot(d)' = Snapshot(d)
    BY <2>1, SnapshotKept
  <2>3. \A i \in DOMAIN events' : Tells(events[i])'
    BY <2>1, <2>2 DEF EventInv, Tells
  <2> QED
    BY <1>0, <2>1, <2>3, TypesKept DEF EventInv
<1> QED
  BY <1>1, <1>2, <1>3, <1>4, <1>5, <1>6, <1>7, <1>8, <1>9, <1>10, <1>11 DEF Next

-----------------------------------------------------------------------------
(* Parameters and security are judged rightly                              *)

\* What is read of a value.
Texts == STRING \cup {"", "null"}

\* What RequestsAssumption says of a request's parameters.
Sendable(parameters_) ==
    \A p \in parameters_ :
        /\ p.in \in Places \cup {"form"}
        /\ p.values \in Seq(Texts)
        /\ \A i \in DOMAIN p.values :
              p.values[i] # "null" /\ (p.values[i] = "bare" => p.in = "query")

LEMMA ValuesAreSent ==
    ASSUME NEW parameters_, Sendable(parameters_), NEW in, NEW name
    PROVE  /\ ValuesOf(parameters_, in, name) \in Seq(Texts)
           /\ \A i \in DOMAIN ValuesOf(parameters_, in, name) :
                /\ ValuesOf(parameters_, in, name)[i] # "null"
                /\ ValuesOf(parameters_, in, name)[i] = "bare" => in = "query"
           /\ ValuesOf(parameters_, in, name) # <<>> =>
                \E p \in parameters_ : p.in = in /\ p.name = name
<1> DEFINE found  == {p.values : p \in {q \in parameters_ : q.in = in /\ q.name = name}}
           values == ValuesOf(parameters_, in, name)
<1>1. CASE found = {}
  <2>1. values = <<>>
    BY <1>1 DEF ValuesOf
  <2> HIDE DEF values
  <2>2. values \in Seq(Texts) /\ \A i \in DOMAIN values : FALSE
    BY <2>1
  <2> QED
    BY <2>1, <2>2 DEF values
<1>2. CASE found # {}
  <2>1. values \in found
    BY <1>2 DEF ValuesOf
  <2>2. PICK p \in parameters_ : p.in = in /\ p.name = name /\ values = p.values
    BY <2>1
  <2> HIDE DEF values
  <2>3. /\ values \in Seq(Texts)
        /\ \A i \in DOMAIN values : values[i] # "null" /\ (values[i] = "bare" => in = "query")
    BY <2>2 DEF Sendable
  <2> QED
    BY <2>2, <2>3 DEF values
<1> QED
  BY <1>1, <1>2

\* A key is captured, redacted or omitted, and captured as it was sent.
LEMMA EvidenceTells ==
    ASSUME NEW values \in Seq(Texts), values # <<>>, NEW sensitive
    PROVE  /\ ToEvidence(values, sensitive) # Absent
           /\ ToEvidence(values, sensitive).state \in States
           /\ ToEvidence(values, sensitive).state = "captured" =>
                /\ ToEvidence(values, sensitive).values = values
                /\ \A i \in DOMAIN values : values[i] \notin {"null", "control", "long"}
           /\ ~sensitive /\ (\A i \in DOMAIN values : values[i] \notin {"null", "control", "long"})
                => ToEvidence(values, sensitive).state = "captured"
<1> DEFINE refused == {i \in DOMAIN values : ReasonToOmit(values[i]) # "none"}
<1>1. \A i \in DOMAIN values :
        ReasonToOmit(values[i]) # "none" <=> values[i] \in {"null", "control", "long"}
  BY DEF ReasonToOmit
<1>2. CASE sensitive
  BY <1>2 DEF ToEvidence, Evidence, Absent, States
<1>3. CASE ~sensitive /\ refused # {}
  <2>1. ToEvidence(values, sensitive)
          = Evidence("omitted", <<>>, ReasonToOmit(values[Min(refused)]))
    BY <1>3 DEF ToEvidence
  <2>2. ~(\A i \in DOMAIN values : values[i] \notin {"null", "control", "long"})
    BY <1>1, <1>3
  <2> QED
    BY <2>1, <2>2 DEF Evidence, Absent, States
<1>4. CASE ~sensitive /\ refused = {}
  <2>1. ToEvidence(values, sensitive) = Evidence("captured", values, "none")
    BY <1>4 DEF ToEvidence
  <2>2. \A i \in DOMAIN values : values[i] \notin {"null", "control", "long"}
    BY <1>1, <1>4
  <2> QED
    BY <2>1, <2>2 DEF Evidence, Absent, States
<1> QED
  BY <1>2, <1>3, <1>4

\* An event has a key's evidence if there is some.
LEMMA LookupFinds ==
    ASSUME NEW stack_, NEW parameters_, NEW mapped, Sendable(parameters_),
           NEW in \in Places, NEW name
    PROVE  /\ Lookup(CaptureRequest(stack_, parameters_, mapped), in, name)
                \in {Absent, EvidenceOf(stack_, parameters_, mapped, Key(in, name))}
           /\ ValuesOf(parameters_, in, name) # <<>> =>
                Lookup(CaptureRequest(stack_, parameters_, mapped), in, name)
                  = EvidenceOf(stack_, parameters_, mapped, Key(in, name))
<1> DEFINE all(key) == EvidenceOf(stack_, parameters_, mapped, key)
           kept     == {k \in KeysOf(parameters_) : all(k) # Absent}
<1>1. CaptureRequest(stack_, parameters_, mapped) = [key \in kept |-> all(key)]
  BY DEF CaptureRequest
<1>2. Lookup(CaptureRequest(stack_, parameters_, mapped), in, name)
        = IF Key(in, name) \in kept THEN all(Key(in, name)) ELSE Absent
  BY <1>1 DEF Lookup
<1>3. ValuesOf(parameters_, in, name) # <<>> => Key(in, name) \in KeysOf(parameters_)
  <2>1. ASSUME NEW p \in parameters_, p.in = in, p.name = name
        PROVE  Key(in, name) \in KeysOf(parameters_)
    BY <2>1 DEF KeysOf, Places
  <2> QED
    BY <2>1, ValuesAreSent
<1> HIDE DEF all
<1>4. ValuesOf(parameters_, in, name) # <<>> =>
        Lookup(CaptureRequest(stack_, parameters_, mapped), in, name) = all(Key(in, name))
  BY <1>2, <1>3
<1> QED
  BY <1>2, <1>4 DEF all

\* No field of a form is read for the query parameter.
Unmixed(stack_, parameters_, name) ==
    stack_ = "mvc" => ~\E p \in parameters_ : p.in = "form" /\ p.name = name

\* A query parameter is read as it was sent, a bare name as "" or as null.
LEMMA QueryRead ==
    ASSUME NEW stack_, NEW parameters_, Sendable(parameters_), NEW name,
           Unmixed(stack_, parameters_, name)
    PROVE  /\ QueryValues(stack_, parameters_, name) \in Seq(Texts)
           /\ Len(QueryValues(stack_, parameters_, name))
                = Len(ValuesOf(parameters_, "query", name))
           /\ \A i \in DOMAIN ValuesOf(parameters_, "query", name) :
                \/ QueryValues(stack_, parameters_, name)[i]
                     = Text(ValuesOf(parameters_, "query", name)[i])
                \/ /\ ValuesOf(parameters_, "query", name)[i] = "bare"
                   /\ QueryValues(stack_, parameters_, name)[i] = "null"
<1> DEFINE query == ValuesOf(parameters_, "query", name)
           read  == QueryValues(stack_, parameters_, name)
           all   == IF stack_ = "mvc" THEN query \o ValuesOf(parameters_, "form", name)
                    ELSE query
           bare  == IF stack_ = "mvc" THEN "" ELSE "null"
<1>1. query \in Seq(Texts)
  BY ValuesAreSent
<1>2. stack_ = "mvc" => ValuesOf(parameters_, "form", name) = <<>>
  BY ValuesAreSent DEF Unmixed
<1>3. read = [i \in DOMAIN all |-> IF all[i] = "bare" THEN bare ELSE all[i]]
  BY DEF QueryValues
<1> HIDE DEF read, query
<1>4. all = query
  BY <1>1, <1>2
<1>5. bare \in Texts
  <2>1. "" \in Texts /\ "null" \in Texts
    BY DEF Texts
  <2> QED
    BY <2>1
<1> HIDE DEF all, bare
<1>6. \A i \in 1..Len(query) : query[i] \in Texts
  BY <1>1
<1>7. DOMAIN query = 1..Len(query) /\ Len(query) \in Nat
  BY <1>1
<1>8. read = [i \in 1..Len(query) |-> IF query[i] = "bare" THEN bare ELSE query[i]]
  BY <1>3, <1>4, <1>7
<1>9. read \in Seq(Texts) /\ Len(read) = Len(query)
  BY <1>5, <1>6, <1>7, <1>8
<1> QED
  BY <1>7, <1>8, <1>9 DEF query, read, bare, Text

LEMMA RequestsAreSendable ==
    ASSUME NEW request \in Requests
    PROVE  Sendable(request.parameters)
<1>1. ASSUME NEW values \in Seq(STRING) PROVE values \in Seq(Texts)
  <2>1. \A i \in 1..Len(values) : values[i] \in Texts
    <3>1. \A i \in 1..Len(values) : values[i] \in STRING
      OBVIOUS
    <3> QED
      BY <3>1 DEF Texts
  <2>2. values = [i \in 1..Len(values) |-> values[i]] /\ Len(values) \in Nat
    OBVIOUS
  <2> QED
    BY <2>1, <2>2
<1> QED
  BY <1>1, RequestsAssumption DEF Sendable

\* An evidence that shows values, if it shows any, as the application reads them.
Shows(e, values) ==
    /\ e # Absent /\ e.state \in States
    /\ e.state = "captured" =>
         /\ DOMAIN e.values = DOMAIN values
         /\ Len(e.values) = Len(values)
         /\ \A i \in DOMAIN values : e.values[i] = Text(values[i])

Keepable(values) == \A i \in DOMAIN values : values[i] \notin {"bare", "control", "long"}

\* What the recorder reads of values that were sent: a bare one may be null.
ReadsAs(read, values) ==
    /\ read \in Seq(Texts) /\ Len(read) = Len(values)
    /\ \A i \in DOMAIN values :
         /\ values[i] # "null"
         /\ read[i] = Text(values[i]) \/ (values[i] = "bare" /\ read[i] = "null")

\* A key is captured as the application reads it, unless a value of it cannot
\* be kept.
LEMMA ReadTells ==
    ASSUME NEW values \in Seq(Texts), values # <<>>, NEW read, ReadsAs(read, values),
           NEW secret
    PROVE  /\ Shows(ToEvidence(read, secret), values)
           /\ ~secret /\ Keepable(values) => ToEvidence(read, secret).state = "captured"
<1>0. /\ read \in Seq(Texts) /\ Len(read) = Len(values)
      /\ \A i \in DOMAIN values :
           /\ values[i] # "null"
           /\ read[i] = Text(values[i]) \/ (values[i] = "bare" /\ read[i] = "null")
  BY DEF ReadsAs
<1>1. DOMAIN read = DOMAIN values /\ read # <<>>
  <2>1. Len(values) # 0
    OBVIOUS
  <2> QED
    BY <1>0, <2>1
<1>2. Keepable(values)
        => \A i \in DOMAIN read : read[i] \notin {"null", "control", "long"}
  BY <1>0, <1>1 DEF Text, Keepable
<1>3. (\A i \in DOMAIN read : read[i] \notin {"null", "control", "long"})
        => \A i \in DOMAIN values : read[i] = Text(values[i])
  BY <1>0, <1>1
<1>4. read # <<>>
  BY <1>1
<1> QED
  <2> DEFINE e == ToEvidence(read, secret)
  <2>1. /\ e # Absent /\ e.state \in States
        /\ e.state = "captured" =>
             /\ e.values = read
             /\ \A i \in DOMAIN read : read[i] \notin {"null", "control", "long"}
        /\ ~secret /\ (\A i \in DOMAIN read : read[i] \notin {"null", "control", "long"})
             => e.state = "captured"
    BY <1>0, <1>4, EvidenceTells
  <2> HIDE DEF e
  <2>2. Shows(e, values)
    BY <1>0, <1>1, <1>3, <2>1 DEF Shows
  <2>3. ~secret /\ Keepable(values) => e.state = "captured"
    BY <1>2, <2>1
  <2> QED
    BY <2>2, <2>3 DEF e

\* What the analyzer finds of a key, and what was sent of it.
LEMMA FoundTells ==
    ASSUME Sendable(parameters), NEW mapped \in BOOLEAN, NEW in \in Places, NEW name,
           in = "query" => Unmixed(stack, parameters, name),
           NEW found, found = Lookup(CaptureRequest(stack, parameters, mapped), in, name)
    PROVE  /\ ~Carried(in, name) => found = Absent
           /\ Carried(in, name) /\ (in = "path" => mapped) =>
                /\ found # Absent /\ found.state \in States
                /\ found.state = "captured" =>
                     /\ DOMAIN found.values = DOMAIN Sent(in, name)
                     /\ Len(found.values) = Len(Sent(in, name))
                     /\ \A i \in DOMAIN Sent(in, name) :
                          found.values[i] = Text(Sent(in, name)[i])
                /\ Showable(in, name) => found.state = "captured"
<1> DEFINE values == ValuesOf(parameters, in, name)
           all    == EvidenceOf(stack, parameters, mapped, Key(in, name))
           secret == name \in SensitiveNames
<1>1. /\ found \in {Absent, all}
      /\ values # <<>> => found = all
  BY LookupFinds
<1>2. /\ values \in Seq(Texts)
      /\ \A i \in DOMAIN values : values[i] # "null" /\ (values[i] = "bare" => in = "query")
  BY ValuesAreSent
<1>3. Key(in, name).in = in /\ Key(in, name).name = name
  BY DEF Key
<1>4. CASE in = "query"
  <2> DEFINE read == QueryValues(stack, parameters, name)
  <2>1. Sent(in, name) = values
    BY <1>4 DEF Sent
  <2>2. all = ToEvidence(read, FALSE)
    BY <1>3, <1>4 DEF EvidenceOf
  <2>3. /\ read \in Seq(Texts) /\ Len(read) = Len(values)
        /\ \A i \in DOMAIN values :
             read[i] = Text(values[i]) \/ (values[i] = "bare" /\ read[i] = "null")
    <3>1. Unmixed(stack, parameters, name) /\ values = ValuesOf(parameters, "query", name)
      BY <1>4
    <3>2. /\ QueryValues(stack, parameters, name) \in Seq(Texts)
          /\ Len(QueryValues(stack, parameters, name))
               = Len(ValuesOf(parameters, "query", name))
          /\ \A i \in DOMAIN ValuesOf(parameters, "query", name) :
               \/ QueryValues(stack, parameters, name)[i]
                    = Text(ValuesOf(parameters, "query", name)[i])
               \/ /\ ValuesOf(parameters, "query", name)[i] = "bare"
                  /\ QueryValues(stack, parameters, name)[i] = "null"
      BY <3>1, QueryRead
    <3> HIDE DEF values
    <3> QED
      BY <3>1, <3>2
  <2> HIDE DEF all, read, values
  <2>4. CASE values = <<>>
    <3>1. read = <<>>
      BY <2>3, <2>4
    <3>2. all = Absent
      BY <2>2, <3>1 DEF ToEvidence
    <3> QED
      BY <1>1, <2>1, <2>4, <3>2 DEF Carried
  <2>5. CASE values # <<>>
    <3>1. ReadsAs(read, values)
      BY <1>2, <2>3 DEF ReadsAs
    <3>2. /\ Shows(ToEvidence(read, FALSE), values)
          /\ Keepable(values) => ToEvidence(read, FALSE).state = "captured"
      BY <1>2, <2>5, <3>1, ReadTells
    <3> QED
      BY <1>1, <2>1, <2>2, <2>5, <3>2 DEF Carried, Showable, Shows, Keepable
  <2> QED
    BY <2>4, <2>5
<1>5. CASE in # "query"
  <2>1. \A i \in DOMAIN values : values[i] # "null" /\ values[i] = Text(values[i])
    BY <1>2, <1>5 DEF Text
  <2>4. ReadsAs(values, values)
    BY <1>2, <2>1 DEF ReadsAs
  <2>2. CASE in = "path"
    <3>1. Sent(in, name) = values
      BY <2>2 DEF Sent
    <3>2. all = IF mapped THEN ToEvidence(values, FALSE) ELSE Absent
      BY <1>3, <2>2 DEF EvidenceOf
    <3> HIDE DEF all, values
    <3>3. CASE values = <<>>
      <4>1. all = Absent
        BY <3>2, <3>3 DEF ToEvidence
      <4> QED
        BY <1>1, <3>1, <3>3, <4>1 DEF Carried
    <3>4. CASE values # <<>>
      <4>1. /\ Shows(ToEvidence(values, FALSE), values)
            /\ Keepable(values) => ToEvidence(values, FALSE).state = "captured"
        BY <1>2, <2>4, <3>4, ReadTells
      <4> QED
        BY <1>1, <2>2, <3>1, <3>2, <3>4, <4>1 DEF Carried, Showable, Shows, Keepable
    <3> QED
      BY <3>3, <3>4
  <2>3. CASE in \in {"header", "cookie"}
    <3> DEFINE reserved == in = "header" /\ name \in ReservedHeaders
    <3>1. Sent(in, name) = IF reserved THEN <<>> ELSE values
      BY DEF Sent
    <3>2. all = IF values = <<>> \/ reserved THEN Absent ELSE ToEvidence(values, secret)
      BY <1>3, <2>3 DEF EvidenceOf
    <3> HIDE DEF all, values, reserved, secret
    <3>3. CASE values = <<>> \/ reserved
      <4>1. all = Absent /\ Sent(in, name) = <<>>
        BY <3>1, <3>2, <3>3
      <4> QED
        BY <1>1, <4>1 DEF Carried
    <3>4. CASE values # <<>> /\ ~reserved
      <4>1. /\ Shows(ToEvidence(values, secret), values)
            /\ ~secret /\ Keepable(values) => ToEvidence(values, secret).state = "captured"
        BY <1>2, <2>4, <3>4, ReadTells
      <4>2. found = ToEvidence(values, secret) /\ Sent(in, name) = values
        BY <1>1, <3>1, <3>2, <3>4
      <4>3. Showable(in, name) => ~secret /\ Keepable(values)
        BY <2>3, <4>2 DEF Showable, Keepable, secret
      <4> QED
        BY <3>4, <4>1, <4>2, <4>3 DEF Carried, Shows
    <3> QED
      BY <3>3, <3>4
  <2> QED
    BY <1>5, <2>2, <2>3 DEF Places
<1> QED
  BY <1>4, <1>5

\* evaluateRequestParameter, on what was sent.
LEMMA ParameterJudged ==
    ASSUME Sendable(parameters), NEW mapped \in BOOLEAN, NEW p, p.in \in Places,
           p.in = "query" => Unmixed(stack, parameters, p.name),
           NEW truth, truth = ParameterTruth(CaptureRequest(stack, parameters, mapped), p)
    PROVE  /\ ~Carried(p.in, p.name) => truth = NoTruth
           /\ Carried(p.in, p.name) /\ (p.in = "path" => mapped)
                => /\ ~Legal(p) => truth \in FailClosedParameterTruths
                   /\ Legal(p) => truth # "captured-invalid"
                   /\ Legal(p) /\ Showable(p.in, p.name) /\ DeclaredSupport(p) # "unsupported"
                        => truth = "captured-valid"
<1> DEFINE found   == Lookup(CaptureRequest(stack, parameters, mapped), p.in, p.name)
           support == DeclaredSupport(p)
           read    == Sent(p.in, p.name)
<1>1. /\ ~Carried(p.in, p.name) => found = Absent
      /\ Carried(p.in, p.name) /\ (p.in = "path" => mapped) =>
           /\ found # Absent /\ found.state \in States
           /\ found.state = "captured" =>
                /\ DOMAIN found.values = DOMAIN read
                /\ Len(found.values) = Len(read)
                /\ \A i \in DOMAIN read : found.values[i] = Text(read[i])
           /\ Showable(p.in, p.name) => found.state = "captured"
  BY FoundTells
<1>2. truth = IF found = Absent THEN NoTruth
              ELSE IF found.state # "captured" THEN found.state
              ELSE IF support = "unsupported" THEN "unsupported"
              ELSE IF support = "scalar" /\ Len(found.values) # 1 THEN "unsupported"
              ELSE IF \A i \in DOMAIN found.values : IsAdmitted(found.values[i], p)
              THEN "captured-valid"
              ELSE "captured-invalid"
  BY DEF ParameterTruth
<1>3. support \in {"unsupported", "scalar", "array"} /\ (support = "scalar" => p.type = "scalar")
      /\ (p.type = "scalar" /\ support # "unsupported" => support = "scalar")
  BY DEF DeclaredSupport
<1> HIDE DEF found, support, read
<1>4. CASE ~Carried(p.in, p.name)
  BY <1>1, <1>2, <1>4
<1>5. ASSUME Carried(p.in, p.name), p.in = "path" => mapped
      PROVE  /\ ~Legal(p) => truth \in FailClosedParameterTruths
             /\ Legal(p) => truth # "captured-invalid"
             /\ Legal(p) /\ Showable(p.in, p.name) /\ support # "unsupported"
                  => truth = "captured-valid"
  <2>1. found # Absent /\ found.state \in States
    BY <1>1, <1>5
  <2>2. CASE found.state # "captured"
    <3>1. truth \in {"redacted", "omitted"}
      BY <1>2, <2>1, <2>2 DEF States
    <3> QED
      BY <1>1, <1>5, <2>2, <3>1 DEF FailClosedParameterTruths
  <2>3. CASE found.state = "captured"
    <3>1. /\ DOMAIN found.values = DOMAIN read
          /\ Len(found.values) = Len(read)
          /\ \A i \in DOMAIN read : found.values[i] = Text(read[i])
      BY <1>1, <1>5, <2>3
    <3>2. (\A i \in DOMAIN found.values : IsAdmitted(found.values[i], p))
            <=> \A i \in DOMAIN read : Text(read[i]) \in p.admitted
      BY <3>1 DEF IsAdmitted
    <3>3. Legal(p) <=> /\ \A i \in DOMAIN read : Text(read[i]) \in p.admitted
                       /\ p.type = "scalar" => Len(read) = 1
      BY DEF Legal, read
    <3> QED
      BY <1>2, <1>3, <2>1, <2>3, <3>1, <3>2, <3>3 DEF FailClosedParameterTruths
  <2> QED
    BY <2>2, <2>3
<1> QED
  BY <1>4, <1>5 DEF support

\* evaluateScheme, on what was sent.
LEMMA SchemeJudged ==
    ASSUME Sendable(parameters), NEW mapped \in BOOLEAN, NEW s,
           s.in = "query" => Unmixed(stack, parameters, s.key),
           NEW truth, truth = EvaluateScheme(CaptureRequest(stack, parameters, mapped), s)
    PROVE  /\ truth \in {"satisfied", "missing", "unavailable", "unsupported"}
           /\ truth = "satisfied" => CarriesAll({s})
           /\ CarriesAll({s}) => truth \in {"satisfied", "unavailable"}
           /\ CarriesAll({s}) /\ Showable(s.in, s.key) => truth = "satisfied"
<1> DEFINE found == Lookup(CaptureRequest(stack, parameters, mapped), s.in, s.key)
<1>1. CarriesAll({s}) <=> s.type = "apiKey" /\ s.in \in KeyLocations /\ Carried(s.in, s.key)
  BY DEF CarriesAll
<1>2. truth = IF s.type # "apiKey" \/ s.in \notin KeyLocations THEN "unsupported"
              ELSE IF found = Absent THEN "missing"
              ELSE IF found.state = "captured" THEN "satisfied"
              ELSE "unavailable"
  BY DEF EvaluateScheme
<1>3. ASSUME s.in \in KeyLocations
      PROVE  /\ ~Carried(s.in, s.key) => found = Absent
             /\ Carried(s.in, s.key) => /\ found # Absent
                                        /\ Showable(s.in, s.key) => found.state = "captured"
  <2>1. s.in \in Places /\ s.in # "path"
    BY <1>3 DEF KeyLocations, Places
  <2> QED
    BY <2>1, FoundTells
<1> HIDE DEF found
<1> QED
  BY <1>1, <1>2, <1>3

\* evaluateBranch: an alternative whose keys are all there is not missing, and
\* one that is satisfied has them all.
LEMMA BranchJudged ==
    ASSUME Sendable(parameters), NEW mapped \in BOOLEAN, NEW r,
           \A s \in r : s.in = "query" => Unmixed(stack, parameters, s.key),
           NEW truth, truth = EvaluateBranch(CaptureRequest(stack, parameters, mapped), r)
    PROVE  /\ truth \in {"satisfied", "optional"} \/ truth \in FailClosedSecurityTruths
           /\ truth \in {"satisfied", "optional"} => CarriesAll(r)
           /\ CarriesAll(r) => truth # "missing"
           /\ CarriesAll(r) /\ (\A s \in r : Showable(s.in, s.key))
                => truth \in {"satisfied", "optional"}
<1> DEFINE of(s)    == EvaluateScheme(CaptureRequest(stack, parameters, mapped), s)
           failures == {of(s) : s \in r} \ {"satisfied"}
<1>1. \A s \in r : /\ of(s) \in {"satisfied", "missing", "unavailable", "unsupported"}
                   /\ of(s) = "satisfied" => CarriesAll({s})
                   /\ CarriesAll({s}) => of(s) \in {"satisfied", "unavailable"}
                   /\ CarriesAll({s}) /\ Showable(s.in, s.key) => of(s) = "satisfied"
  BY SchemeJudged
<1>2. CarriesAll(r) <=> \A s \in r : CarriesAll({s})
  BY DEF CarriesAll
<1>3. truth = IF r = {} THEN "optional"
              ELSE IF failures = {} THEN "satisfied"
              ELSE WorstFailure(failures)
  BY DEF EvaluateBranch
<1> HIDE DEF of
<1>4. /\ failures = {} <=> \A s \in r : of(s) = "satisfied"
      /\ (\A s \in r : of(s) \in {"satisfied", "unavailable"}) => failures \subseteq {"unavailable"}
      /\ WorstFailure(failures) \in FailClosedSecurityTruths
      /\ failures # {} /\ failures \subseteq {"unavailable"}
            => WorstFailure(failures) = "unavailable"
  BY DEF WorstFailure, FailClosedSecurityTruths
<1> HIDE DEF failures
<1>5. truth \in {"satisfied", "optional"} <=> r = {} \/ failures = {}
  BY <1>3, <1>4 DEF FailClosedSecurityTruths
<1>6. truth \in {"satisfied", "optional"} => CarriesAll(r)
  BY <1>1, <1>2, <1>4, <1>5
<1>7. CarriesAll(r) => truth # "missing"
  BY <1>1, <1>2, <1>3, <1>4
<1>8. CarriesAll(r) /\ (\A s \in r : Showable(s.in, s.key)) => truth \in {"satisfied", "optional"}
  BY <1>1, <1>2, <1>4, <1>5
<1>9. truth \in {"satisfied", "optional"} \/ truth \in FailClosedSecurityTruths
  BY <1>3, <1>4
<1> QED
  BY <1>6, <1>7, <1>8, <1>9

\* computeHttpSecurityConformance: the alternatives that a call carries.
LEMMA SecurityJudged ==
    ASSUME EventInv, NEW i \in DOMAIN events, NoFieldLikeAParameter
    PROVE  SecurityIsJudged(events[i])
<1> DEFINE e         == events[i]
           declared  == IF contract.security.declared THEN contract.security
                        ELSE contract.root
           truth     == SecurityTruth(e.evidence, Security)
           carried   == {r \in declared.requirements : CarriesAll(r)}
           shown     == {r \in carried : \A s \in r : Showable(s.in, s.key)}
           of(r)     == EvaluateBranch(e.evidence, r)
           truths    == {of(r) : r \in declared.requirements}
<1>1. /\ Sendable(parameters) /\ contract \in Contracts
      /\ e.mapped \in BOOLEAN /\ e.evidence = CaptureRequest(stack, parameters, e.mapped)
  BY RequestsAreSendable DEF EventInv, IInv, Tells
<1>2. Security = declared /\ (~declared.declared => declared.requirements = {})
  <2>1. \A security \in {contract.root, contract.security} :
          ~security.declared => security.requirements = {}
    BY <1>1, ContractsAssumption
  <2> QED
    BY <2>1 DEF Security, ResolveSecurity
<1>3. ASSUME NEW r \in declared.requirements, NEW s \in r, s.in = "query"
      PROVE  Unmixed(stack, parameters, s.key)
  BY <1>2, <1>3 DEF NoFieldLikeAParameter, Unmixed
<1>4. ASSUME NEW r \in declared.requirements
      PROVE  /\ of(r) \in {"satisfied", "optional"} \/ of(r) \in FailClosedSecurityTruths
             /\ of(r) \in {"satisfied", "optional"} => CarriesAll(r)
             /\ CarriesAll(r) => of(r) # "missing"
             /\ CarriesAll(r) /\ (\A s \in r : Showable(s.in, s.key))
                  => of(r) \in {"satisfied", "optional"}
  <2>1. \A s \in r : s.in = "query" => Unmixed(stack, parameters, s.key)
    BY <1>3
  <2> QED
    BY <1>1, <2>1, BranchJudged
<1>5. truth = IF ~declared.declared THEN NoTruth
              ELSE IF declared.requirements = {} THEN "clear"
              ELSE SelectOverall(truths)
  BY <1>2 DEF SecurityTruth
<1> HIDE DEF declared, of, e, truth
<1>6. CASE declared.requirements = {}
  <2>1. truth \in {NoTruth, "clear"}
    BY <1>5, <1>6
  <2>2. truth \notin FailClosedSecurityTruths
    BY <2>1 DEF NoTruth, FailClosedSecurityTruths
  <2>3. /\ truth \notin FailClosedSecurityTruths => carried # {} \/ declared.requirements = {}
        /\ truth = "missing" => carried = {}
        /\ shown # {} => truth \notin FailClosedSecurityTruths
    BY <1>6, <2>2
  <2> QED
    BY <2>3 DEF SecurityIsJudged, declared, truth, e
<1>7. CASE declared.requirements # {}
  <2>1. truth = IF "satisfied" \in truths THEN "satisfied"
                ELSE IF "optional" \in truths THEN "optional"
                ELSE WorstFailure(truths)
    BY <1>2, <1>5, <1>7 DEF SelectOverall
  <2>2. WorstFailure(truths) \in FailClosedSecurityTruths
    BY DEF WorstFailure, FailClosedSecurityTruths
  <2>3. truth \notin FailClosedSecurityTruths
          <=> \E r \in declared.requirements : of(r) \in {"satisfied", "optional"}
    BY <2>1, <2>2 DEF FailClosedSecurityTruths
  <2>4. ASSUME truth = "missing" PROVE \A r \in declared.requirements : of(r) = "missing"
    <3>1. "satisfied" \notin truths /\ "optional" \notin truths
      BY <2>1, <2>4
    <3>2. WorstFailure(truths) = "missing"
      BY <2>1, <2>4, <3>1
    <3>3. "unsupported" \notin truths /\ "unavailable" \notin truths
      BY <3>2 DEF WorstFailure
    <3>4. \A r \in declared.requirements : of(r) \in truths
      OBVIOUS
    <3> HIDE DEF truths
    <3> QED
      BY <1>4, <3>1, <3>3, <3>4 DEF FailClosedSecurityTruths
  <2>5. /\ truth \notin FailClosedSecurityTruths => carried # {} \/ declared.requirements = {}
        /\ truth = "missing" => carried = {}
        /\ shown # {} => truth \notin FailClosedSecurityTruths
    BY <1>4, <2>3, <2>4
  <2> QED
    BY <2>5 DEF SecurityIsJudged, declared, truth, e
<1> QED
  BY <1>6, <1>7

\* The gates on parameters and security are right about every recorded call on
\* either stack: for every set of declared parameters and of alternatives, and
\* every request.
THEOREM RequestVerdicts == Spec => []RequestVerdictsAreDeserved
<1>1. EventInv => RequestVerdictsAreDeserved
  <2> SUFFICES ASSUME EventInv, NEW i \in DOMAIN events, NoFieldLikeAParameter
               PROVE  ParametersAreJudged(events[i]) /\ SecurityIsJudged(events[i])
    BY DEF RequestVerdictsAreDeserved
  <2> DEFINE e == events[i]
  <2>1. /\ Sendable(parameters) /\ contract \in Contracts
        /\ e.mapped \in BOOLEAN /\ e.evidence = CaptureRequest(stack, parameters, e.mapped)
    BY RequestsAreSendable DEF EventInv, IInv, Tells
  <2>2. ASSUME NEW p \in contract.parameters
        PROVE  p.in \in Places /\ (p.in = "query" => Unmixed(stack, parameters, p.name))
    BY <2>1, ContractsAssumption DEF NoFieldLikeAParameter, Unmixed
  <2> HIDE DEF e
  <2>3. ParametersAreJudged(e)
    BY <2>1, <2>2, ParameterJudged DEF ParametersAreJudged
  <2> QED
    BY <2>3, SecurityJudged DEF e
<1> QED
  BY <1>1, EventInitially, EventNext, PTL DEF Spec

-----------------------------------------------------------------------------
(* Bodies are judged rightly                                               *)

\* A chunk that is not empty is not forgotten.
LEMMA ChunkCounts ==
    ASSUME NEW chunks \in Seq(Nat), NEW i \in DOMAIN chunks, chunks[i] > 0
    PROVE  BytesUpTo(chunks)[Len(chunks)] > 0
<1> DEFINE up == BytesUpTo(chunks)
           n  == Len(chunks)
           G  == {k \in Nat : i <= k /\ k <= n => up[k] > 0}
<1>1. /\ n \in Nat /\ i \in 1..n
      /\ \A k \in 1..n : chunks[k] \in Nat
  OBVIOUS
<1>2. /\ \A k \in 0..n : up[k] \in Nat
      /\ \A k \in 0..n : k < n => up[k + 1] = up[k] + chunks[k + 1]
  BY BytesUpToIs
<1> HIDE DEF up, n
<1>3. 0 \in G
  BY <1>1
<1>4. ASSUME NEW k \in G PROVE k + 1 \in G
  <2> SUFFICES ASSUME i <= k + 1, k + 1 <= n PROVE up[k + 1] > 0
    BY <1>4
  <2>1. k \in 0..n /\ k < n /\ k + 1 \in 1..n
    BY <1>1, <1>4
  <2>2. up[k + 1] = up[k] + chunks[k + 1] /\ up[k] \in Nat /\ chunks[k + 1] \in Nat
    BY <1>1, <1>2, <2>1
  <2>3. CASE i <= k
    <3>1. up[k] > 0
      BY <1>4, <2>1, <2>3
    <3> QED
      BY <2>2, <3>1
  <2>4. CASE ~(i <= k)
    <3>1. i = k + 1
      BY <1>1, <2>1, <2>4
    <3> QED
      BY <2>2, <3>1
  <2> QED
    BY <2>3, <2>4
<1>5. G = Nat
  <2>1. G \in SUBSET Nat
    OBVIOUS
  <2> HIDE DEF G
  <2> QED
    BY <1>3, <1>4, <2>1, NumbersByStep
<1> QED
  BY <1>1, <1>5 DEF up, n

\* A media type of a message has no wildcards, one of a document may have.
IsTriple(m) == m = MediaType(m.type, m.base, m.suffix)
IsConcrete(m) == IsTriple(m) /\ "*" \notin {m.type, m.base} /\ IsMediaType(m)

LEMMA TriplesDiffer ==
    ASSUME NEW m, IsTriple(m), NEW t, IsTriple(t)
    PROVE  m = t <=> m.type = t.type /\ m.base = t.base /\ m.suffix = t.suffix
  BY DEF IsTriple, MediaType

\* What a score says: in full, by its subtype, by its suffix, or by no more.
LEMMA ScoreTells ==
    ASSUME NEW m, IsTriple(m), NEW t, IsConcrete(t)
    PROVE  /\ m = t => MediaScore(m, t) = 40
           /\ m # t /\ Admits(m, t) /\ m.base # "*" => MediaScore(m, t) = 31
           /\ Admits(m, t) /\ m.base = "*" /\ m.suffix # "" =>
                /\ m.type = t.type => MediaScore(m, t) = 22
                /\ m.type # t.type => MediaScore(m, t) = 21
           /\ Admits(m, t) /\ m.base = "*" /\ m.suffix = "" =>
                /\ m.type = t.type => MediaScore(m, t) = 12
                /\ m.type # t.type => MediaScore(m, t) = 11
           /\ ~Admits(m, t) => MediaScore(m, t) = 0
<1>1. m = t <=> m.type = t.type /\ m.base = t.base /\ m.suffix = t.suffix
  BY TriplesDiffer DEF IsConcrete
<1>2. t.base # "*" /\ t.type # "*" /\ t.base # ""
  BY DEF IsConcrete, IsMediaType
<1>3. CASE m = t
  <2>1. MediaScore(m, t) = 40 /\ Admits(m, t)
    BY <1>3 DEF MediaScore, Admits
  <2> QED
    BY <1>2, <1>3, <2>1
<1>4. CASE m # t /\ ~Admits(m, t)
  <2>1. MediaScore(m, t) = 0
    BY <1>1, <1>2, <1>4 DEF MediaScore, Admits, IsMediaType
  <2> QED
    BY <1>4, <2>1
<1>5. CASE m # t /\ Admits(m, t)
  <2>1. m.type = "*" \/ m.type = t.type
    BY <1>5 DEF Admits
  <2>2. CASE m.base # "*"
    <3>1. m.base = t.base /\ m.suffix = t.suffix /\ m.type = "*" /\ m.type # t.type
      BY <1>1, <1>2, <1>5, <2>1, <2>2 DEF Admits
    <3>2. MediaScore(m, t) = 30 + 1
      BY <1>2, <1>5, <3>1 DEF MediaScore, IsMediaType
    <3>3. MediaScore(m, t) = 31
      BY <3>2
    <3> QED
      BY <1>5, <2>2, <3>3
  <2>3. CASE m.base = "*"
    <3>1. m.base # t.base /\ m.base # "" /\ m.suffix \in {"", t.suffix}
      BY <1>2, <1>5, <2>3 DEF Admits
    <3> DEFINE specific == IF m.type = t.type THEN 2 ELSE 1
    <3>2. /\ m.suffix # "" => MediaScore(m, t) = 20 + specific
          /\ m.suffix = "" => MediaScore(m, t) = 10 + specific
      BY <1>2, <1>5, <2>1, <2>3, <3>1 DEF MediaScore, IsMediaType
    <3>3. CASE m.type = t.type
      <4>1. /\ m.suffix # "" => MediaScore(m, t) = 20 + 2
            /\ m.suffix = "" => MediaScore(m, t) = 10 + 2
        BY <3>2, <3>3
      <4>2. 20 + 2 = 22 /\ 10 + 2 = 12
        OBVIOUS
      <4>3. /\ m.suffix # "" => MediaScore(m, t) = 22
            /\ m.suffix = "" => MediaScore(m, t) = 12
        BY <4>1, <4>2
      <4> QED
        BY <1>5, <2>3, <3>3, <4>3
    <3>4. CASE m.type # t.type
      <4>1. /\ m.suffix # "" => MediaScore(m, t) = 20 + 1
            /\ m.suffix = "" => MediaScore(m, t) = 10 + 1
        BY <3>2, <3>4
      <4>2. 20 + 1 = 21 /\ 10 + 1 = 11
        OBVIOUS
      <4>3. /\ m.suffix # "" => MediaScore(m, t) = 21
            /\ m.suffix = "" => MediaScore(m, t) = 11
        BY <4>1, <4>2
      <4> QED
        BY <1>5, <2>3, <3>4, <4>3
    <3> QED
      BY <3>3, <3>4
  <2> QED
    BY <2>2, <2>3
<1> QED
  BY <1>3, <1>4, <1>5

LEMMA ScoresAreBounded ==
    ASSUME NEW m, IsTriple(m), NEW t, IsConcrete(t)
    PROVE  MediaScore(m, t) \in 0..40 /\ (MediaScore(m, t) > 0 <=> Admits(m, t))
<1>1. CASE Admits(m, t)
  <2>1. MediaScore(m, t) \in {40, 31, 22, 21, 12, 11}
    BY <1>1, ScoreTells
  <2> QED
    BY <1>1, <2>1
<1>2. CASE ~Admits(m, t)
  <2>1. MediaScore(m, t) = 0
    BY <1>2, ScoreTells
  <2> QED
    BY <1>2, <2>1
<1> QED
  BY <1>1, <1>2

\* Of two types that admit a message, the one that the other admits scores more.
LEMMA NarrowerScoresMore ==
    ASSUME NEW c, IsTriple(c), NEW m, IsTriple(m), NEW t, IsConcrete(t),
           Admits(c, t), Admits(m, t), Admits(m, c),
           MediaScore(m, t) >= MediaScore(c, t)
    PROVE  m = c
<1>1. m = c <=> m.type = c.type /\ m.base = c.base /\ m.suffix = c.suffix
  BY TriplesDiffer
<1>2. c = t <=> c.type = t.type /\ c.base = t.base /\ c.suffix = t.suffix
  BY TriplesDiffer DEF IsConcrete
<1>3. m = t <=> m.type = t.type /\ m.base = t.base /\ m.suffix = t.suffix
  BY TriplesDiffer DEF IsConcrete
<1>4. t.base # "*" /\ t.type # "*" /\ t.base # ""
  BY DEF IsConcrete, IsMediaType
<1>5. /\ m.type \in {"*", t.type} /\ c.type \in {"*", t.type} /\ m.type \in {"*", c.type}
      /\ \/ m.base = t.base /\ m.suffix = t.suffix
         \/ m.base = "*" /\ m.suffix \in {"", t.suffix}
      /\ \/ c.base = t.base /\ c.suffix = t.suffix
         \/ c.base = "*" /\ c.suffix \in {"", t.suffix}
      /\ \/ m.base = c.base /\ m.suffix = c.suffix
         \/ m.base = "*" /\ m.suffix \in {"", c.suffix}
  BY DEF Admits
<1>6. MediaScore(m, t) \in 0..40 /\ MediaScore(c, t) \in 0..40
  BY ScoresAreBounded
<1>7. CASE c = t
  <2>1. MediaScore(c, t) = 40 /\ MediaScore(m, t) \in {40, 31, 22, 21, 12, 11}
    BY <1>4, <1>7, ScoreTells
  <2>2. MediaScore(m, t) = 40
    BY <2>1
  <2>3. m # t => MediaScore(m, t) \in {31, 22, 21, 12, 11}
    BY ScoreTells
  <2> QED
    BY <1>7, <2>2, <2>3
<1>8. CASE c # t /\ c.base # "*"
  <2>1. MediaScore(c, t) = 31 /\ c.type # t.type
    BY <1>2, <1>5, <1>8, ScoreTells
  <2>2. m.base = "*" => MediaScore(m, t) \in {22, 21, 12, 11}
    BY ScoreTells
  <2>3. m.base # "*"
    BY <2>1, <2>2
  <2> QED
    BY <1>1, <1>5, <2>1, <2>3
<1>9. CASE c.base = "*"
  <2>1. m.base = "*"
    BY <1>5, <1>9
  <2>2. m.suffix = c.suffix
    <3>1. CASE m.suffix = "" /\ c.suffix # ""
      <4>1. MediaScore(c, t) \in {22, 21} /\ MediaScore(m, t) \in {12, 11}
        BY <1>9, <2>1, <3>1, ScoreTells
      <4> QED
        BY <4>1
    <3> QED
      BY <1>5, <2>1, <3>1
  <2>3. m.type = c.type
    <3>1. CASE m.type = "*" /\ c.type = t.type
      <4>1. CASE m.suffix = ""
        <5>1. MediaScore(c, t) = 12 /\ MediaScore(m, t) = 11
          BY <1>4, <1>9, <2>1, <2>2, <3>1, <4>1, ScoreTells
        <5> QED
          BY <5>1
      <4>2. CASE m.suffix # ""
        <5>1. MediaScore(c, t) = 22 /\ MediaScore(m, t) = 21
          BY <1>4, <1>9, <2>1, <2>2, <3>1, <4>2, ScoreTells
        <5> QED
          BY <5>1
      <4> QED
        BY <4>1, <4>2
    <3>2. \/ m.type = c.type
          \/ m.type = "*" /\ c.type = "*"
          \/ m.type = "*" /\ c.type = t.type
      BY <1>5
    <3> QED
      BY <3>1, <3>2
  <2> QED
    BY <1>1, <1>9, <2>1, <2>2, <2>3
<1> QED
  BY <1>7, <1>8, <1>9

\* A content that matches has a best match.
LEMMA BestMatches ==
    ASSUME NEW content, IsContent(content), NEW t, IsConcrete(t), Matching(content, t) # {}
    PROVE  \E c \in Matching(content, t) : \A d \in Matching(content, t) :
             MediaScore(c.media, t) >= MediaScore(d.media, t)
<1> DEFINE M       == Matching(content, t)
           score(c) == MediaScore(c.media, t)
           Gaps    == {40 - score(c) : c \in M}
<1>1. \A c \in M : score(c) \in 0..40
  BY ScoresAreBounded DEF Matching, IsContent, IsTriple
<1> HIDE DEF M, score
<1>2. Gaps \in SUBSET Nat /\ Gaps # {}
  BY <1>1 DEF M
<1>3. PICK n \in Gaps : \A m \in Gaps : n <= m
  BY <1>2, LeastOfNumbers
<1>4. PICK c \in M : n = 40 - score(c)
  OBVIOUS
<1>5. ASSUME NEW d \in M PROVE score(c) >= score(d)
  <2>1. n <= 40 - score(d)
    BY <1>3
  <2>2. score(c) \in 0..40 /\ score(d) \in 0..40
    BY <1>1
  <2> QED
    BY <1>4, <2>1, <2>2
<1> QED
  BY <1>5 DEF M, score

\* The narrowest type that admits a message is the one that is found for it.
LEMMA NarrowestIsFound ==
    ASSUME NEW content, IsContent(content), NEW t, IsConcrete(t),
           NEW c \in content, Admits(c.media, t),
           \A o \in content : Admits(o.media, t) => Admits(o.media, c.media)
    PROVE  Matching(content, t) # {} /\ FindMatchingMediaType(content, t) = c
<1> DEFINE found == FindMatchingMediaType(content, t)
<1>1. \A o \in content : IsTriple(o.media)
  BY DEF IsContent, IsTriple
<1>2. \A o \in content : o \in Matching(content, t) <=> Admits(o.media, t)
  BY <1>1, ScoresAreBounded DEF Matching
<1>3. c \in Matching(content, t)
  BY <1>2
<1>4. /\ found \in Matching(content, t)
      /\ \A d \in Matching(content, t) : MediaScore(found.media, t) >= MediaScore(d.media, t)
  BY <1>3, BestMatches DEF FindMatchingMediaType
<1> HIDE DEF found
<1>5. found \in content /\ Admits(found.media, t)
  BY <1>2, <1>4 DEF Matching
<1>6. found.media = c.media
  BY <1>1, <1>3, <1>4, <1>5, NarrowerScoresMore
<1> QED
  BY <1>3, <1>5, <1>6 DEF IsContent, found

\* selectResponseContract takes the narrowest status that admits the answer.
LEMMA NarrowestIsSelected ==
    ASSUME NEW responses, NEW s \in 100..599,
           \A r \in responses : r.status \in StatusTokens
    PROVE  LET options == {r \in responses : s \in Answerable(r)}
           IN  {r \in options : \A o \in options : Answerable(r) \subseteq Answerable(o)}
                 = SelectResponseContract(responses, s)
<1> DEFINE options    == {r \in responses : s \in Answerable(r)}
           narrowest  == {r \in options : \A o \in options : Answerable(r) \subseteq Answerable(o)}
           ofType(kind) == {r \in responses : r.status.type = kind
                                         /\ MatchesStatusToken(s, r.status)}
<1>1. \A r \in responses : /\ r.status.type \in {"code", "range", "default"}
                           /\ r.status.value \in Nat
  BY DEF StatusTokens
<1>2. \A r \in responses, u \in 100..599 :
        /\ r.status.type = "default" => u \in Answerable(r)
        /\ r.status.type = "range" => (u \in Answerable(r) <=> u \div 100 = r.status.value)
        /\ r.status.type = "code" => (u \in Answerable(r) <=> u = r.status.value)
  BY DEF Answerable, MatchesStatusToken
<1>3. /\ \A r : Answerable(r) \subseteq 100..599
      /\ \A r \in responses : s \in Answerable(r) <=> MatchesStatusToken(s, r.status)
  BY DEF Answerable
<1> HIDE DEF options
<1>4. /\ options = ofType("code") \cup ofType("range") \cup ofType("default")
      /\ \A r \in options : r \in responses /\ s \in Answerable(r)
      /\ \A r \in ofType("code") : r.status.type = "code" /\ r \in options
      /\ \A r \in ofType("range") : r.status.type = "range" /\ r \in options
      /\ \A r \in ofType("default") : r.status.type = "default" /\ r \in options
  BY <1>1, <1>3 DEF options
<1> HIDE DEF ofType
<1>5. ASSUME NEW r \in ofType("code") PROVE Answerable(r) = {s}
  <2>1. r \in responses /\ r.status.type = "code" /\ s \in Answerable(r)
    BY <1>4
  <2>2. s = r.status.value
    BY <1>2, <2>1
  <2>3. \A u \in Answerable(r) : u \in 100..599 /\ u = s
    BY <1>2, <1>3, <2>1, <2>2
  <2> QED
    BY <2>1, <2>3
<1>6. ASSUME NEW r \in ofType("range")
      PROVE  Answerable(r) = {u \in 100..599 : u \div 100 = s \div 100}
  <2>1. r \in responses /\ r.status.type = "range" /\ s \in Answerable(r)
    BY <1>4
  <2>2. s \div 100 = r.status.value
    BY <1>2, <2>1
  <2>3. \A u \in 100..599 : u \in Answerable(r) <=> u \div 100 = s \div 100
    BY <1>2, <2>1, <2>2
  <2> QED
    BY <1>3, <2>3
<1>7. \A r \in ofType("default") : Answerable(r) = 100..599
  BY <1>2, <1>3, <1>4
<1>8. \E u \in 100..599 : u # s /\ u \div 100 = s \div 100
  <2>1. PICK q \in 1..5, rest \in 0..99 : s = 100 * q + rest
    <3>1. s \div 100 \in 1..5 /\ s % 100 \in 0..99 /\ s = 100 * (s \div 100) + (s % 100)
      OBVIOUS
    <3> QED
      BY <3>1
  <2>2. \A k \in 0..99 : (100 * q + k) \div 100 = q
    BY <2>1
  <2>3. \A k \in 0..99 : 100 * q + k \in 100..599
    BY <2>1
  <2>4. PICK k \in 0..99 : k # rest
    <3>1. 0 \in 0..99 /\ 1 \in 0..99 /\ (0 # rest \/ 1 # rest)
      BY <2>1
    <3> QED
      BY <3>1
  <2>5. 100 * q + k # s
    BY <2>1, <2>4
  <2>6. (100 * q + k) \div 100 = s \div 100
    BY <2>1, <2>2, <2>4
  <2> QED
    BY <2>3, <2>4, <2>5, <2>6
<1>9. \E u \in 100..599 : u \div 100 # s \div 100
  <2>1. 100 \div 100 = 1 /\ 200 \div 100 = 2
    OBVIOUS
  <2> QED
    BY <2>1
<1>10. SelectResponseContract(responses, s)
         = IF ofType("code") # {} THEN ofType("code")
           ELSE IF ofType("range") # {} THEN ofType("range")
           ELSE ofType("default")
  BY DEF SelectResponseContract, ofType
<1>11. CASE ofType("code") # {}
  <2>1. PICK c \in ofType("code") : TRUE
    BY <1>11
  <2>2. ASSUME NEW r \in ofType("code") PROVE r \in narrowest
    BY <1>4, <1>5
  <2>3. ASSUME NEW r \in narrowest PROVE r \in ofType("code")
    <3>1. Answerable(r) \subseteq {s} /\ r \in options
      BY <1>4, <1>5, <2>1
    <3>2. r \notin ofType("range")
      BY <1>6, <1>8, <3>1
    <3>3. r \notin ofType("default")
      BY <1>7, <1>8, <3>1
    <3> QED
      BY <1>4, <3>1, <3>2, <3>3
  <2> QED
    BY <1>10, <1>11, <2>2, <2>3 DEF options
<1>12. CASE ofType("code") = {} /\ ofType("range") # {}
  <2>1. PICK c \in ofType("range") : TRUE
    BY <1>12
  <2>2. ASSUME NEW r \in ofType("range") PROVE r \in narrowest
    BY <1>4, <1>6, <1>7, <1>12
  <2>3. ASSUME NEW r \in narrowest PROVE r \in ofType("range")
    <3>1. Answerable(r) \subseteq Answerable(c) /\ r \in options
      BY <1>4, <2>1
    <3>2. r \notin ofType("default")
      BY <1>6, <1>7, <1>9, <3>1
    <3> QED
      BY <1>4, <1>12, <3>1, <3>2
  <2> QED
    BY <1>10, <1>12, <2>2, <2>3 DEF options
<1>13. CASE ofType("code") = {} /\ ofType("range") = {}
  <2>1. options = ofType("default")
    BY <1>4, <1>13
  <2>2. narrowest = ofType("default")
    BY <1>7, <2>1
  <2> QED
    BY <1>10, <1>13, <2>2 DEF options
<1> QED
  BY <1>11, <1>12, <1>13

LEMMA SelectedIsOne ==
    ASSUME NEW responses, NEW s, \A r \in responses : r.status \in StatusTokens,
           \A r, q \in responses : r.status = q.status => r = q,
           NEW r \in SelectResponseContract(responses, s),
           NEW q \in SelectResponseContract(responses, s)
    PROVE  r = q
<1>1. /\ r \in responses /\ q \in responses
      /\ r.status.type = q.status.type
      /\ MatchesStatusToken(s, r.status) /\ MatchesStatusToken(s, q.status)
  BY DEF SelectResponseContract
<1>2. r.status \in StatusTokens /\ q.status \in StatusTokens
  BY <1>1
<1>3. ASSUME NEW t \in StatusTokens, NEW u \in StatusTokens, t.type = u.type,
             MatchesStatusToken(s, t), MatchesStatusToken(s, u)
      PROVE  t = u
  <2>1. CASE t.type = "default"
    BY <1>3, <2>1 DEF StatusTokens
  <2>2. CASE t.type # "default"
    <3>1. /\ t \in [type : {"code", "range"}, value : Nat]
          /\ u \in [type : {"code", "range"}, value : Nat]
      BY <1>3, <2>2 DEF StatusTokens
    <3>2. t.value = u.value
      <4>1. CASE t.type = "code"
        BY <1>3, <4>1 DEF MatchesStatusToken
      <4>2. CASE t.type = "range"
        BY <1>3, <4>2 DEF MatchesStatusToken
      <4> QED
        BY <3>1, <4>1, <4>2
    <3> QED
      BY <1>3, <3>1, <3>2
  <2> QED
    BY <2>1, <2>2
<1>4. r.status = q.status
  BY <1>1, <1>2, <1>3
<1> QED
  BY <1>1, <1>4

\* What is declared for a message, and that it is a content.
LEMMA DeclaredIsContent ==
    ASSUME contract \in Contracts, status \in 100..599, NEW d \in Directions
    PROVE  /\ IsContent(DeclaredContent(d))
           /\ d = "request" => DeclaredContent(d) = contract.request.content
           /\ d = "response" => DeclaredContent(d)
                = UNION {r.content : r \in SelectResponseContract(contract.responses, status)}
<1>1. /\ IsContent(contract.request.content)
      /\ \A r \in contract.responses : r.status \in StatusTokens /\ IsContent(r.content)
      /\ \A r, s \in contract.responses : r.status = s.status => r = s
  BY ContractsAssumption
<1>2. CASE d = "request"
  BY <1>1, <1>2 DEF DeclaredContent
<1>3. CASE d = "response"
  <2> DEFINE selected == SelectResponseContract(contract.responses, status)
  <2>1. DeclaredContent(d) = UNION {r.content : r \in selected}
    BY <1>1, <1>3, NarrowestIsSelected DEF DeclaredContent
  <2>2. \A r, q \in selected : r = q
    BY <1>1, SelectedIsOne
  <2>3. \A r \in selected : r \in contract.responses
    BY DEF SelectResponseContract
  <2> HIDE DEF selected
  <2>4. CASE selected = {}
    <3>1. DeclaredContent(d) = {}
      BY <2>1, <2>4
    <3> QED
      BY <1>3, <2>1, <3>1 DEF IsContent, selected
  <2>5. CASE selected # {}
    <3>1. PICK r \in selected : TRUE
      BY <2>5
    <3>2. DeclaredContent(d) = r.content
      BY <2>1, <2>2, <3>1
    <3> QED
      BY <1>1, <1>3, <2>1, <2>3, <3>1, <3>2 DEF selected
  <2> QED
    BY <2>4, <2>5
<1> QED
  BY <1>2, <1>3 DEF Directions

\* What went through in full is what MVC makes of the body, unless the stack
\* gave it up.
LEMMA SnapshotInFull ==
    ASSUME EventInv, NEW d \in Directions, passed[d] = Len(sent[d].chunks), d \notin lost
    PROVE  /\ \/ IsOmitted(Snapshot(d)) /\ session[d].reason = "unsupported"
              \/ Snapshot(d) = CaptureMvc(sent[d].type, sent[d].form, BytesOf(d, passed[d]))
           /\ BytesOf(d, passed[d]) \in Nat
           /\ sent[d] = Nothing => BytesOf(d, passed[d]) = 0
           /\ sent[d] # Nothing => BytesOf(d, passed[d]) > 0
<1> DEFINE size == BytesOf(d, passed[d])
<1>1. /\ session[d] \in SessionType /\ session[d].type = sent[d].type
      /\ sent[d] \in AllBodies /\ sent[d].chunks \in Seq(Nat)
      /\ stack \in {"mvc", "webflux"}
      /\ stack = "webflux" => Gathers(session[d], Gone(d))
  BY ChunksAreSizes DEF EventInv, CaptureInv, IInv
<1>2. size = Gone(d) /\ Gone(d) = BytesUpTo(sent[d].chunks)[Len(sent[d].chunks)]
  BY BytesOfIsUpTo DEF Gone
<1>3. size \in Nat
  BY <1>1, <1>2, BytesUpToIs
<1>4. sent[d] = Nothing => size = 0
  <2>1. CASE sent[d] = Nothing
    <3>1. Len(sent[d].chunks) = 0
      BY <2>1 DEF Nothing
    <3> QED
      BY <1>1, <1>2, <3>1, BytesUpToIs
  <2> QED
    BY <2>1
<1>5. sent[d] # Nothing => size > 0
  <2>1. CASE sent[d] # Nothing
    <3>1. PICK i \in DOMAIN sent[d].chunks : sent[d].chunks[i] > 0
      BY <1>1, <2>1, BodiesAssumption DEF AllBodies
    <3> QED
      BY <1>1, <1>2, <3>1, ChunkCounts
  <2> QED
    BY <2>1
<1>6. FormOf(d, size) = sent[d].form
  BY DEF FormOf
<1>7. \/ IsOmitted(Snapshot(d)) /\ session[d].reason = "unsupported"
      \/ Snapshot(d) = CaptureMvc(sent[d].type, sent[d].form, size)
  <2>1. CASE stack = "mvc"
    BY <1>6, <2>1 DEF Snapshot
  <2>2. CASE stack = "webflux" /\ session[d].reason = "unsupported"
    <3>1. Snapshot(d) = Omitted(session[d].type, "unsupported")
      BY <2>2 DEF Snapshot, FinishSession, None
    <3> QED
      BY <2>2, <3>1 DEF Omitted, Payload, IsOmitted
  <2>3. CASE stack = "webflux" /\ session[d].reason # "unsupported"
    <3>1. FinishSession(session[d], FormOf(d, session[d].kept))
            = CaptureMvc(session[d].type, FormOf(d, Gone(d)), Gone(d))
      <4>1. Gone(d) \in Nat /\ Gathers(session[d], Gone(d))
        BY <1>1, <1>2, <1>3, <2>3
      <4> HIDE DEF size
      <4> QED
        BY <1>1, <2>3, <4>1, GatheredAgrees
    <3> QED
      BY <1>1, <1>2, <1>6, <2>3, <3>1 DEF Snapshot
  <2> QED
    BY <1>1, <2>1, <2>2, <2>3
<1> QED
  BY <1>3, <1>4, <1>5, <1>7

\* The declared types that count for a message of a type.
Narrow(content, t) ==
    LET options == {c \in content : Admits(c.media, t)}
    IN  {c \in options : \A o \in options : Admits(o.media, c.media)}

LEMMA CodesTell ==
    /\ "RECORDER_OMITTED" \notin FailClosedCodes
    /\ NoVerdict \notin FailClosedCodes
    /\ "NO_DECLARED_CONTENT" \notin FailClosedCodes
    /\ "VALID" \notin FailClosedCodes
  BY DEF FailClosedCodes, Codes, NoVerdict

LEMMA OmittedPasses ==
    ASSUME NEW payload, IsOmitted(payload), NEW content, NEW declared, NEW due
    PROVE  Evaluate(payload, declared, content, due) \notin FailClosedCodes
  BY CodesTell DEF Evaluate

\* What the code of a body is, by what is declared for it.
BodyIsJudged(code, content, t, form, size) ==
    /\ content = {} => code \notin FailClosedCodes
    /\ ~IsJson(t) => code \notin FailClosedCodes
    /\ \A c \in Narrow(content, t) :
         IsJson(c.media) /\ form = c.schema => code \notin FailClosedCodes
    /\ \A c \in Narrow(content, t) :
         IsMediaType(t) /\ IsJson(t) /\ size <= MaxCapture /\ form # "malformed"
         /\ IsJson(c.media) /\ c.schema \in Schemas /\ form # c.schema
           => code = "INVALID_BODY"

\* evaluatePayloadAgainstContent, for a body that MVC has seen in one piece.
LEMMA BodyJudged ==
    ASSUME NEW content, IsContent(content), NEW declared, NEW due, NEW t, IsTriple(t),
           "*" \notin {t.type, t.base}, NEW form \in Forms, NEW size \in Nat, size > 0,
           NEW code, code = Evaluate(CaptureMvc(t, form, size), declared, content, due)
    PROVE  BodyIsJudged(code, content, t, form, size)
<1> DEFINE payload == CaptureMvc(t, form, size)
<1>0. size > MaxCapture <=> ~(size <= MaxCapture)
  BY MaxCaptureAssumption
<1>1. CASE ~IsMediaType(t) \/ ~IsJson(t) \/ size > MaxCapture \/ form = "malformed"
  <2>1. payload = Omitted(t, payload.reason)
    BY <1>1 DEF CaptureMvc, ReadTree, Omitted, Payload
  <2>2. IsOmitted(payload)
    BY <2>1 DEF Omitted, Payload, IsOmitted
  <2>3. code \notin FailClosedCodes
    BY <2>2, OmittedPasses
  <2>4. ~(/\ IsMediaType(t) /\ IsJson(t) /\ size <= MaxCapture /\ form # "malformed")
    BY <1>0, <1>1
  <2>5. \A c \in Narrow(content, t) :
           IsMediaType(t) /\ IsJson(t) /\ size <= MaxCapture /\ form # "malformed"
           /\ IsJson(c.media) /\ c.schema \in Schemas /\ form # c.schema
             => code = "INVALID_BODY"
    BY ONLY <2>4
  <2> HIDE DEF payload
  <2> QED
    BY ONLY <2>3, <2>5 DEF BodyIsJudged
<1>2. CASE IsMediaType(t) /\ IsJson(t) /\ ~(size > MaxCapture) /\ form # "malformed"
  <2> DEFINE body == [form |-> form, size |-> size]
  <2>1. payload = Captured(t, form, size)
    BY <1>2 DEF CaptureMvc, ReadTree
  <2>2. /\ payload.type = t /\ payload.body = body /\ payload.state = "captured"
        /\ body # NoBody /\ body.form = form
    BY <2>1 DEF Captured, Payload, NoBody
  <2>3. t # NoType
    <3>1. t.base # ""
      BY <1>2 DEF IsMediaType
    <3>2. NoType.base = ""
      BY DEF NoType, MediaType
    <3> QED
      BY <3>1, <3>2
  <2> HIDE DEF payload, body
  <2>4. /\ ~IsOmitted(payload) /\ IsObserved(payload)
        /\ code = IF content = {} THEN "NO_DECLARED_CONTENT"
                  ELSE EvaluateContent(payload, content)
    BY <2>2 DEF IsOmitted, IsObserved, Evaluate, payload
  <2>5. content = {} => code \notin FailClosedCodes
    BY <2>4, CodesTell
  <2>6. ASSUME NEW c \in Narrow(content, t), IsJson(c.media)
        PROVE  code = ValidationCode(c.schema, body)
    <3>1. /\ c \in content /\ Admits(c.media, t)
          /\ \A o \in content : Admits(o.media, t) => Admits(o.media, c.media)
      BY <2>6 DEF Narrow
    <3>2. IsConcrete(t)
      BY <1>2 DEF IsConcrete
    <3>3. Matching(content, t) # {} /\ FindMatchingMediaType(content, t) = c
      BY <3>1, <3>2, NarrowestIsFound
    <3>4. EvaluateContent(payload, content) = ValidationCode(c.schema, body)
      BY <2>2, <2>3, <2>6, <3>3 DEF EvaluateContent, IsSupportedJsonMediaType, IsJson
    <3> QED
      BY <2>4, <3>1, <3>4
  <2>7. ASSUME NEW c \in Narrow(content, t), IsJson(c.media), form = c.schema
        PROVE  code \notin FailClosedCodes
    <3>1. c.schema \notin {None, "unsupported-format", "uncompilable"}
      BY <2>7, SchemasAssumption DEF Forms, None
    <3>2. ValidationCode(c.schema, body) = "VALID"
      BY <2>2, <2>7, <3>1 DEF ValidationCode
    <3> QED
      BY <2>6, <2>7, <3>2, CodesTell
  <2>8. ASSUME NEW c \in Narrow(content, t), IsJson(c.media), c.schema \in Schemas,
               form # c.schema
        PROVE  code = "INVALID_BODY"
    <3>1. c.schema \notin {None, "unsupported-format", "uncompilable"}
      BY <2>8, SchemasAssumption
    <3>2. ValidationCode(c.schema, body) = "INVALID_BODY"
      BY <2>2, <2>8, <3>1 DEF ValidationCode
    <3> QED
      BY <2>6, <2>8, <3>2
  <2>9. \A c \in Narrow(content, t) :
           IsJson(c.media) /\ form = c.schema => code \notin FailClosedCodes
    BY ONLY <2>7
  <2>10. \A c \in Narrow(content, t) :
           IsMediaType(t) /\ IsJson(t) /\ size <= MaxCapture /\ form # "malformed"
           /\ IsJson(c.media) /\ c.schema \in Schemas /\ form # c.schema
             => code = "INVALID_BODY"
    BY ONLY <2>8
  <2>11. ~IsJson(t) => code \notin FailClosedCodes
    BY ONLY <1>2
  <2> QED
    BY ONLY <2>5, <2>9, <2>10, <2>11 DEF BodyIsJudged
<1> QED
  BY <1>1, <1>2

\* A message without a body is missing where one is due, and nowhere else.
LEMMA NoBodyJudged ==
    ASSUME NEW content, NEW declared, NEW due, NEW form
    PROVE  Evaluate(CaptureMvc(NoType, form, 0), declared, content, due) \in FailClosedCodes
             => due
<1>1. CaptureMvc(NoType, form, 0) = NoPayload(NoType)
  BY DEF CaptureMvc
<1>2. ~IsOmitted(NoPayload(NoType)) /\ ~IsObserved(NoPayload(NoType))
  BY DEF NoPayload, Payload, IsOmitted, IsObserved, None
<1> QED
  BY <1>1, <1>2, CodesTell DEF Evaluate

\* The gate on payloads is right about every message that went through in
\* full: for every contract, body, limit, status and way to cut it in chunks.
THEOREM PayloadVerdicts == Spec => []VerdictsAreDeserved
<1>1. EventInv => VerdictsAreDeserved
  <2> SUFFICES ASSUME EventInv, NEW i \in DOMAIN events, NEW d \in Directions, InFull(d)
               PROVE  /\ KeepsContract(d) => Code(events[i], d) \notin FailClosedCodes
                      /\ BreaksContract(d) /\ Recordable(d)
                            => Code(events[i], d) = "INVALID_BODY"
    BY DEF VerdictsAreDeserved
  <2> DEFINE e        == events[i]
             content  == DeclaredContent(d)
             declared == IF d = "request" THEN contract.request.declared
                         ELSE SelectResponseContract(contract.responses, status) # {}
             due      == IF d = "request" THEN contract.request.required ELSE content # {}
             size     == BytesOf(d, passed[d])
             b        == sent[d]
  <2>1. /\ contract \in Contracts /\ status \in 100..599
        /\ e.status = status /\ e[d] = Snapshot(d)
        /\ b \in AllBodies /\ passed[d] = Len(sent[d].chunks) /\ d \notin lost
    BY DEF EventInv, IInv, CaptureInv, Tells, InFull
  <2>2. /\ IsContent(content)
        /\ d = "request" => content = contract.request.content
        /\ d = "response" => content
             = UNION {r.content : r \in SelectResponseContract(contract.responses, status)}
    BY <2>1, DeclaredIsContent
  <2>3. Code(e, d) = Evaluate(Snapshot(d), declared, content, due)
    <3>1. CASE d = "request"
      BY <2>1, <2>2, <3>1 DEF Code, EvaluateRequest
    <3>2. CASE d = "response"
      BY <2>1, <2>2, <3>2 DEF Code, EvaluateResponse
    <3> QED
      BY <3>1, <3>2 DEF Directions
  <2>4. /\ \/ IsOmitted(Snapshot(d)) /\ session[d].reason = "unsupported"
           \/ Snapshot(d) = CaptureMvc(b.type, b.form, size)
        /\ size \in Nat
        /\ b = Nothing => size = 0
        /\ b # Nothing => size > 0
    BY <2>1, SnapshotInFull
  <2>5. Counts(d) = Narrow(content, b.type)
    BY DEF Counts, Narrow
  <2> HIDE DEF e, content, declared, due, size
  <2>6. CASE IsOmitted(Snapshot(d)) /\ session[d].reason = "unsupported"
    <3>1. Code(e, d) \notin FailClosedCodes
      BY <2>3, <2>6, OmittedPasses
    <3> QED
      BY <2>6, <3>1 DEF Recordable, e
  <2>7. CASE b = Nothing /\ Snapshot(d) = CaptureMvc(b.type, b.form, size)
    <3>1. b.type = NoType /\ b.form = None /\ size = 0
      BY <2>4, <2>7 DEF Nothing
    <3>2. Code(e, d) \in FailClosedCodes => due
      BY <2>3, <2>7, <3>1, NoBodyJudged
    <3>3. KeepsContract(d) => ~due
      BY <2>7 DEF KeepsContract, due, content
    <3>4. ~BreaksContract(d)
      BY <3>1, SchemasAssumption DEF BreaksContract, Forms, None
    <3> QED
      BY <3>2, <3>3, <3>4 DEF e
  <2>8. CASE b # Nothing /\ Snapshot(d) = CaptureMvc(b.type, b.form, size)
    <3>1. IsTriple(b.type) /\ "*" \notin {b.type.type, b.type.base} /\ b.form \in Forms
      BY <2>1, <2>8, BodiesAssumption DEF AllBodies, IsTriple
    <3>2. size \in Nat /\ size > 0
      BY <2>4, <2>8
    <3>3. Code(e, d) = Evaluate(CaptureMvc(b.type, b.form, size), declared, content, due)
      BY <2>3, <2>8
    <3>4. BodyIsJudged(Code(e, d), content, b.type, b.form, size)
      BY <2>2, <3>1, <3>2, <3>3, BodyJudged
    <3>5. KeepsContract(d) => Code(e, d) \notin FailClosedCodes
      BY <2>5, <2>8, <3>4 DEF BodyIsJudged, KeepsContract, content
    <3>6. BreaksContract(d) /\ Recordable(d) => Code(e, d) = "INVALID_BODY"
      BY <2>5, <3>4 DEF BodyIsJudged, BreaksContract, Recordable, size
    <3> QED
      BY <3>5, <3>6 DEF e
  <2> QED
    BY <2>4, <2>6, <2>7, <2>8
<1> QED
  BY <1>1, EventInitially, EventNext, PTL DEF Spec

=============================================================================
