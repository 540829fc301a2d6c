-------------------------- MODULE MessageEvidence --------------------------
(***************************************************************************)
(* What the three message recorders promise of their evidence, whatever    *)
(* the broker, the threads and the hooks they use: every message has one   *)
(* cause, settled when it is handed to the template, which goes back,      *)
(* message by message, to a call; and its events are added one by one,     *)
(* never before that, never changed, and say what the cause was.           *)
(***************************************************************************)
EXTENDS TestMetadata, Sequences

CONSTANTS
    Messages,            \* every message that may be sent
    Callers,             \* the metadata with which calls arrive
    ApplicationHeaders,  \* the headers an application may set by itself
    Complete,            \* whether events say all of the cause, or leave
                         \* some of it out
    Once                 \* whether a message is sent at most once

VARIABLES
    issued,     \* the messages that were handed to the template
    cause,      \* the metadata that each of them should carry
    sends,      \* the metadata of the send events of each message, in order
    receipts    \* and those of its receive events

vars == <<issued, cause, sends, receipts>>

Init ==
    /\ issued = {}
    /\ cause = [m \in Messages |-> NoMetadata]
    /\ sends = [m \in Messages |-> <<>>]
    /\ receipts = [m \in Messages |-> <<>>]

\* A message is sent by a call, or by the listener of an earlier message.
Causes == Callers \cup {cause[n] : n \in issued}

Issue(m) ==
    /\ m \notin issued
    /\ \E h \in ApplicationHeaders, c \in Causes :
          cause' = [cause EXCEPT ![m] = Read(ApplyContextIfAbsent(h, c))]
    /\ issued' = issued \cup {m}
    /\ UNCHANGED <<sends, receipts>>

\* What an event of a message may say.
Says(m, attribution) ==
    \A k \in {"run", "suite"} :
        \/ attribution[k] = cause[m][k]
        \/ ~Complete /\ attribution[k] = Null

RecordSend(m) ==
    /\ m \in issued
    /\ Once => sends[m] = <<>>
    /\ \E a \in Metadata :
          Says(m, a) /\ sends' = [sends EXCEPT ![m] = Append(@, a)]
    /\ UNCHANGED <<issued, cause, receipts>>

RecordReceipt(m) ==
    /\ m \in issued
    /\ \E a \in Metadata :
          Says(m, a) /\ receipts' = [receipts EXCEPT ![m] = Append(@, a)]
    /\ UNCHANGED <<issued, cause, sends>>

Next == \E m \in Messages : Issue(m) \/ RecordSend(m) \/ RecordReceipt(m)

Spec == Init /\ [][Next]_vars

-----------------------------------------------------------------------------

\* What a call gave a message, in part or in full.
ComesFrom(attribution, caller) ==
    \A k \in {"run", "suite"} :
        \/ attribution[k] = caller[k]
        \/ ~Complete /\ attribution[k] = Null

\* No event mixes the run of one test with the suite of another: when the
\* application sets neither by itself, what an event says is what one call
\* arrived with, however long the chain of messages from there.
OneTestPerEvent ==
    ApplicationHeaders \subseteq {NoHeaders} =>
        \A m \in Messages :
            /\ \A i \in DOMAIN sends[m] : \E c \in Callers : ComesFrom(sends[m][i], c)
            /\ \A i \in DOMAIN receipts[m] :
                  \E c \in Callers : ComesFrom(receipts[m][i], c)

=============================================================================
