----------------------------- MODULE SpecSource -----------------------------
(***************************************************************************)
(* resolveSpecSource and the cleanup of what it returns: a local path is   *)
(* looked up; a URL is fetched, over at most five redirects, into a file   *)
(* of a new temporary directory that is removed afterwards.  The module    *)
(* has the steps from one await to the next; a report command takes them   *)
(* (source = "new" to "ready" or "failed", then "releasing") and the       *)
(* server sends when it likes.                                             *)
(*                                                                         *)
(* The timeout of a request is a timeout of its socket: it fires when      *)
(* nothing has arrived for ten seconds, and every piece that arrives       *)
(* starts it anew.                                                         *)
(***************************************************************************)
EXTENDS Naturals

VARIABLES
    source,     \* where the resolution is
    hops,       \* the redirects that may still be followed
    temp,       \* whether this run's temporary directory exists
    refusal,    \* the failure of the resolution or the cleanup, by kind
    dripped     \* a piece of the answer has just arrived

sourceVars == <<source, hops, temp, refusal, dripped>>

MaxRedirects == 5

\* What --spec may be: what stat finds under a path, or a URL.
LocalSpecs == {"file", "directory", "missing", "special", "denied", "broken"}
RefusedUrls == {"scheme", "unsafe", "directoryLike"}
RemoteSpecs == {"remote", "undecodable"}

SourceTypeOK ==
    /\ source \in {"new", "fetching", "filing", "removing", "ready", "failed",
                   "releasing", "released"}
    /\ hops \in 0..MaxRedirects
    /\ temp \in BOOLEAN
    /\ refusal \in {"none", "input", "runtime"}
    /\ dripped \in BOOLEAN

InitSource ==
    /\ source = "new"
    /\ hops = MaxRedirects
    /\ temp = FALSE
    /\ refusal = "none"
    /\ dripped = FALSE

\* A new run, with a temporary directory of its own to make.
NewSource ==
    /\ source' = "new"
    /\ hops' = MaxRedirects
    /\ temp' = FALSE
    /\ refusal' = "none"
    /\ dripped' = FALSE

Refuse(kind) == source' = "failed" /\ refusal' = kind

-----------------------------------------------------------------------------
(* resolveLocalSpecSource, and the URLs that are refused unseen            *)

ResolveLocal(spec) ==
    /\ source = "new"
    /\ \/ /\ spec \in {"file", "directory"}
          /\ source' = "ready"
          /\ UNCHANGED refusal
       \/ spec \in {"missing", "special", "denied"} \cup RefusedUrls /\ Refuse("input")
       \/ spec = "broken" /\ Refuse("runtime")
    /\ UNCHANGED <<hops, temp, dripped>>

-----------------------------------------------------------------------------
(* resolveRemoteSpecSource                                                 *)

FailTemp(spec) ==
    /\ source = "new" /\ spec \in RemoteSpecs
    /\ Refuse("runtime")
    /\ UNCHANGED <<hops, temp, dripped>>

\* mkdtemp, then the name of the file in it.  decodeURIComponent throws at a
\* name that it cannot decode, before the try block that would remove the
\* directory.
MakeTemp(spec) ==
    /\ source = "new" /\ spec \in RemoteSpecs
    /\ temp' = TRUE
    /\ IF spec = "undecodable" THEN Refuse("runtime")
       ELSE source' = "fetching" /\ UNCHANGED refusal
    /\ UNCHANGED <<hops, dripped>>

Redirect ==
    /\ source = "fetching"
    /\ IF hops = 0 THEN source' = "removing" /\ UNCHANGED hops
       ELSE hops' = hops - 1 /\ UNCHANGED source
    /\ dripped' = FALSE
    /\ UNCHANGED <<temp, refusal>>

\* A whole answer with a status of 2xx.
Answer ==
    /\ source = "fetching"
    /\ source' = "filing"
    /\ dripped' = FALSE
    /\ UNCHANGED <<hops, temp, refusal>>

\* Another status, no connection, a broken one, no certificate, ...
FailFetch ==
    /\ source = "fetching"
    /\ source' = "removing"
    /\ dripped' = FALSE
    /\ UNCHANGED <<hops, temp, refusal>>

\* A piece of an answer.
Drip ==
    /\ source = "fetching"
    /\ dripped' = TRUE
    /\ UNCHANGED <<source, hops, temp, refusal>>

\* Time passes without one.
Quiet ==
    /\ source = "fetching"
    /\ dripped
    /\ dripped' = FALSE
    /\ UNCHANGED <<source, hops, temp, refusal>>

\* Mutant: a request has no timeout.
Timeout_Never == FALSE /\ UNCHANGED sourceVars

Timeout ==
    /\ source = "fetching"
    /\ ~dripped
    /\ source' = "removing"
    /\ UNCHANGED <<hops, temp, refusal, dripped>>

StoreAnswer ==
    /\ source = "filing"
    /\ \/ source' = "ready"
       \/ source' = "removing"
    /\ UNCHANGED <<hops, temp, refusal, dripped>>

\* rm in the catch block; if it throws, its error takes the place.
RemoveTemp(works) ==
    /\ source = "removing"
    /\ IF works THEN temp' = FALSE /\ Refuse("input")
       ELSE Refuse("runtime") /\ UNCHANGED temp
    /\ UNCHANGED <<hops, dripped>>

\* Mutant: only a run without failures cleans up.
Release_Skipped(works) ==
    /\ source = "releasing"
    /\ source' = "released"
    /\ UNCHANGED <<hops, temp, refusal, dripped>>

\* cleanup(), which has something to do for a fetched specification only.
Release(works) ==
    /\ source = "releasing"
    /\ works \/ temp
    /\ source' = "released"
    /\ temp' = (temp /\ ~works)
    /\ refusal' = IF works THEN refusal ELSE "runtime"
    /\ UNCHANGED <<hops, dripped>>

\* What the command waits for, and what nothing forces.
SourceStep(spec) ==
    \/ ResolveLocal(spec)
    \/ FailTemp(spec)
    \/ MakeTemp(spec)
    \/ StoreAnswer
    \/ \E works \in BOOLEAN : RemoveTemp(works) \/ Release(works)

ServerStep == Redirect \/ Answer \/ FailFetch \/ Drip

=============================================================================
