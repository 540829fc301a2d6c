---------------------------- MODULE RecordStore ----------------------------
(***************************************************************************)
(* What events.jsonl promises to the analyzer when recording is reliable:  *)
(* a set of whole events that only grows, one event at a time, and in      *)
(* which an event is found as soon as the recorder that wrote it has been  *)
(* told that the write succeeded.  EventLog.tla, the file the recorders    *)
(* really append to, implements it when every event fits one buffer.       *)
(***************************************************************************)
CONSTANT Events

VARIABLES
    stored,   \* the events the analyzer would read
    acked     \* the events whose write(event) has returned normally

vars == <<stored, acked>>

Init ==
    /\ stored = {}
    /\ acked = {}

\* A write that succeeds: the event is found from the step that reports it.
Store(e) ==
    /\ e \notin stored
    /\ stored' = stored \cup {e}
    /\ acked' = acked \cup {e}

Next == \E e \in Events : Store(e)

Spec == Init /\ [][Next]_vars

=============================================================================
