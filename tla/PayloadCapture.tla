---------------------------- MODULE PayloadCapture ----------------------------
(***************************************************************************)
(* What the HTTP recorders keep of a request's or response's body: at once *)
(* from the cached body (HttpPayloadCapture of the MVC recorder), or chunk *)
(* by chunk (a CaptureSession of the WebFlux recorder).                    *)
(*                                                                         *)
(* Bytes are counted in shares of MAX_CAPTURE_BYTES.  A media type is a    *)
(* record: "application/problem+json" has the base "problem" and the       *)
(* suffix "json"; a text that is no media type has no base.                *)
(***************************************************************************)
EXTENDS Naturals

CONSTANTS
    MaxCapture,   \* MAX_CAPTURE_BYTES, in shares
    Schemas       \* schemas of bodies that a validator can be made of

ASSUME MaxCaptureAssumption == MaxCapture \in Nat

None  == "none"

\* The other values of a form or of a declared schema are no schemas.
ASSUME SchemasAssumption ==
    Schemas \cap {None, "other", "malformed", "unsupported-format", "uncompilable"} = {}

\* What a body's text is: JSON of one of the schemas or of none, or no JSON.
Forms == Schemas \cup {"other", "malformed"}

Reasons == {"policy-filtered", "unsupported", "oversized", "malformed"}

MediaType(type, base, suffix) == [type |-> type, base |-> base, suffix |-> suffix]
NoType == MediaType("", "", "")       \* no Content-Type, or a blank one
Json   == MediaType("application", "json", "")

IsMediaType(m) == m.base # ""

\* NoBody stands for a null JsonNode.
NoBody == [form |-> None, size |-> 0]

Payload(type, body, state, reason) ==
    [type |-> type, body |-> body, state |-> state, reason |-> reason]
NoPayload(type)            == Payload(type, NoBody, None, None)
Captured(type, form, size) ==
    Payload(type, [form |-> form, size |-> size], "captured", None)
Omitted(type, reason)      == Payload(type, NoBody, "omitted", reason)

\* readTree: a text that is no JSON is omitted as malformed.
ReadTree(type, form, size) ==
    IF form = "malformed" THEN Omitted(type, "malformed")
    ELSE Captured(type, form, size)

-----------------------------------------------------------------------------
(* MVC: inspectJsonCompatibility and capture of HttpPayloadCapture         *)

IsJson(m) == m = Json \/ m.suffix = "json"

CaptureMvc(type, form, size) ==
    IF size = 0 THEN NoPayload(type)
    ELSE IF ~IsMediaType(type) \/ ~IsJson(type)
    THEN Omitted(type, "policy-filtered")
    ELSE IF size > MaxCapture THEN Omitted(type, "oversized")
    ELSE ReadTree(type, form, size)

-----------------------------------------------------------------------------
(* WebFlux: CaptureSession of ReactiveHttpPayloadCapture                   *)

IsStreaming(m) ==
    \/ m = MediaType("text", "event-stream", "")
    \/ m.type = "multipart"
    \/ m.base = "octet-stream" /\ m.suffix = ""
    \/ m.base = "stream" /\ m.suffix = "json"

\* None when capturing is allowed, else the reason to omit.
JsonIncompatibility(type) ==
    IF ~IsMediaType(type) THEN "policy-filtered"
    ELSE IF IsStreaming(type) THEN "unsupported"
    ELSE IF IsJson(type) THEN None
    ELSE "policy-filtered"

\* kept counts the bytes in the buffer.
NewSession(type) ==
    [type |-> type, kept |-> 0, sawBytes |-> FALSE, failed |-> FALSE, reason |-> None]

ObserveContentType(session, type) ==
    IF type = NoType THEN session ELSE [session EXCEPT !.type = type]

MarkUnsupported(session) ==
    IF session.reason = None THEN [session EXCEPT !.reason = "unsupported"]
    ELSE session

MarkUnexpectedFailure(session) == [session EXCEPT !.failed = TRUE]

\* Mutant: an oversized chunk is skipped and the capture goes on.
KeepBytes_SkipsOversized(session, n) ==
    IF session.kept + n > MaxCapture THEN session
    ELSE [session EXCEPT !.kept = @ + n]

KeepBytes(session, n) ==
    IF session.kept + n > MaxCapture THEN [session EXCEPT !.reason = "oversized"]
    ELSE [session EXCEPT !.kept = @ + n]

\* append.  Once there is a reason to omit, nothing is kept any more.
AppendBytes(session, n) ==
    LET seen         == [session EXCEPT !.sawBytes = TRUE]
        incompatible == JsonIncompatibility(session.type)
    IN  IF n = 0 THEN session
        ELSE IF session.reason # None THEN seen
        ELSE IF incompatible # None THEN [seen EXCEPT !.reason = incompatible]
        ELSE KeepBytes(seen, n)

\* finish.  form is what the kept bytes are.
FinishSession(session, form) ==
    IF session.reason # None THEN Omitted(session.type, session.reason)
    ELSE IF session.failed \/ ~session.sawBytes THEN NoPayload(session.type)
    ELSE IF JsonIncompatibility(session.type) # None
    THEN Omitted(session.type, JsonIncompatibility(session.type))
    ELSE ReadTree(session.type, form, session.kept)

=============================================================================
