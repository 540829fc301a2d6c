---------------------------- MODULE TestMetadata ----------------------------
(***************************************************************************)
(* Test attribution: the pair (test run, suite) that a thread carries in   *)
(* TestMetadataContextHolder and a message carries in two headers.         *)
(*                                                                         *)
(* A value is abstracted to what normalisation tells apart: a usable name, *)
(* Null (missing, blank, or a removed thread-local), or, in a header only, *)
(* Unreadable: present, so that it counts as set, but blank or not text,   *)
(* so that it reads as null.                                               *)
(***************************************************************************)
CONSTANTS Runs, Suites, Null, Unreadable

ASSUME NullAssumption == Null \notin Runs \cup Suites
ASSUME UnreadableAssumption == Unreadable \notin Runs \cup Suites \cup {Null}

\* What a thread-local holds; holder.set of an empty pair removes the entry.
Metadata == [run : Runs \cup {Null}, suite : Suites \cup {Null}]
NoMetadata == [run |-> Null, suite |-> Null]

\* What the two headers of a message hold.
Headers == [run   : Runs \cup {Null, Unreadable},
            suite : Suites \cup {Null, Unreadable}]
NoHeaders == NoMetadata

\* readTestRunId and readTestSuite.
Read(h) ==
    [k \in {"run", "suite"} |-> IF h[k] = Unreadable THEN Null ELSE h[k]]

\* applyContextIfAbsent: header by header, only where none is present.
ApplyContextIfAbsent(h, context) ==
    [k \in {"run", "suite"} |-> IF h[k] = Null THEN context[k] ELSE h[k]]

=============================================================================
