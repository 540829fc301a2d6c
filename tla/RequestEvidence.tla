--------------------------- MODULE RequestEvidence ---------------------------
(***************************************************************************)
(* What the HTTP recorders keep of a request's parameters, headers and     *)
(* cookies (HttpRequestEvidenceCapture of either stack), and how the       *)
(* analyzer finds it again in the event.                                   *)
(*                                                                         *)
(* A request's parameters are a set of [in, name, values], of which two    *)
(* never have the same place and name.  "form" is the place of the fields  *)
(* of a form in the body.  Names of headers are lower case, as on both     *)
(* sides.  Of values only what decides matters: "bare" is a query          *)
(* parameter without "=", "control" has control characters, "long" has     *)
(* more than MAX_CAPTURED_VALUE_LENGTH of them; the others are usual ones. *)
(***************************************************************************)
EXTENDS Sequences, FiniteSetsExt

CONSTANT SensitiveNames   \* the names that isSensitiveName takes for secrets

ReservedHeaders == {"x-test-run-id", "x-test-suite", "cookie"}

\* An HttpRequestEvidence; Absent stands for a key that is not in the map.
Evidence(state, values, reason) ==
    [state |-> state, values |-> values, reason |-> reason]
Absent == Evidence("absent", <<>>, "none")

-----------------------------------------------------------------------------
(* The recorder                                                            *)

ReasonToOmit(value) ==
    CASE value = "null"    -> "unavailable"
      [] value = "control" -> "unsupported"
      [] value = "long"    -> "oversized"
      [] OTHER             -> "none"

\* toEvidence: a secret is redacted whatever it is; one value that cannot be
\* kept omits them all, for the reason of the first such value.
ToEvidence(values, sensitive) ==
    LET refused == {i \in DOMAIN values : ReasonToOmit(values[i]) # "none"}
    IN  IF sensitive THEN Evidence("redacted", <<>>, "sensitive")
        ELSE IF values = <<>> THEN Absent
        ELSE IF refused # {}
        THEN Evidence("omitted", <<>>, ReasonToOmit(values[Min(refused)]))
        ELSE Evidence("captured", values, "none")

ValuesOf(parameters, in, name) ==
    LET found == {p.values : p \in {q \in parameters : q.in = in /\ q.name = name}}
    IN  IF found = {} THEN <<>> ELSE CHOOSE values \in found : TRUE

\* What the stack's API gives for a query parameter.  The servlet API merges
\* the fields of a form into the parameters, and reads a bare name as "".
QueryValues(stack, parameters, name) ==
    LET query == ValuesOf(parameters, "query", name)
        bare  == IF stack = "mvc" THEN "" ELSE "null"
        all   == IF stack = "mvc" THEN query \o ValuesOf(parameters, "form", name)
                 ELSE query
    IN  [i \in DOMAIN all |-> IF all[i] = "bare" THEN bare ELSE all[i]]

\* capturePathParams, captureQueryParams, captureRequestHeaders and
\* captureCookies, for one name.  mapped is that a handler was found, which
\* sets the attribute that holds the path variables.
EvidenceOf(stack, parameters, mapped, key) ==
    LET values == ValuesOf(parameters, key.in, key.name)
    IN  CASE key.in = "query" ->
               ToEvidence(QueryValues(stack, parameters, key.name), FALSE)
          [] key.in = "path" ->
               IF mapped THEN ToEvidence(values, FALSE) ELSE Absent
          [] key.in = "header" ->
               IF values = <<>> \/ key.name \in ReservedHeaders THEN Absent
               ELSE ToEvidence(values, key.name \in SensitiveNames)
          [] key.in = "cookie" ->
               IF values = <<>> THEN Absent
               ELSE ToEvidence(values, key.name \in SensitiveNames)

Key(in, name) == [in |-> in, name |-> name]

KeysOf(parameters) ==
    {Key(IF p.in = "form" THEN "query" ELSE p.in, p.name) : p \in parameters}

\* capture: the four maps of the event as one function.
CaptureRequest(stack, parameters, mapped) ==
    LET all(key) == EvidenceOf(stack, parameters, mapped, key)
    IN  [key \in {k \in KeysOf(parameters) : all(k) # Absent} |-> all(key)]

-----------------------------------------------------------------------------
(* The analyzer                                                            *)

\* lookupParameterEvidence and lookupSecurityEvidence.
Lookup(evidence, in, name) ==
    IF Key(in, name) \in DOMAIN evidence THEN evidence[Key(in, name)] ELSE Absent

\* getCapturedRequestEvidenceKeys, from which readHttpEventsJsonl makes the
\* queryKeys and headerKeys of the coverage report.
CapturedKeys(evidence, in) ==
    {key.name : key \in {k \in DOMAIN evidence :
                            k.in = in /\ evidence[k].state = "captured"}}

=============================================================================
