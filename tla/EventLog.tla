------------------------------ MODULE EventLog ------------------------------
(***************************************************************************)
(* The evidence file events.jsonl and everybody who appends to it.         *)
(*                                                                         *)
(* Every recorder (HTTP filter, Kafka, AMQP and JMS listeners and          *)
(* senders) makes a new EventJsonlWriter for each event, on the thread     *)
(* that served the call, and calls write(event) once.  write opens the     *)
(* file with CREATE and APPEND, pushes the line through a BufferedWriter   *)
(* and closes it.  Nothing serialises the threads of one JVM, nor the JVMs *)
(* of one test run.  The line therefore reaches the file as one O_APPEND   *)
(* write(2) per full buffer, the last one at close: a line that fits the   *)
(* buffer is appended atomically, a longer one (payloads are captured up   *)
(* to 64 KiB each) in pieces that other writers may separate.              *)
(*                                                                         *)
(* The unit of the model is a cell: a fixed share of the encoded line, of  *)
(* which BufferCells fit the buffer.  Cells 1..Size[e] are the JSON object *)
(* of event e and cell Size[e]+1 is its newline.                           *)
(***************************************************************************)
EXTENDS Naturals, Sequences, FiniteSets

CONSTANTS
    Processes,    \* the JVMs that share the file
    Threads,      \* the recording threads of all of them
    ProcessOf,    \* [Threads -> Processes]
    Events,       \* the calls to be recorded
    Size,         \* [Events -> Nat \ {0}], cells of the JSON text
    BufferCells,  \* cells one write(2) carries at most
    NoEvent       \* "no write in progress"

ASSUME ProcessAssumption == ProcessOf \in [Threads -> Processes]
ASSUME SizeAssumption == Size \in [Events -> Nat \ {0}]
ASSUME BufferAssumption == BufferCells \in Nat \ {0}
ASSUME NoEventAssumption == NoEvent \notin Events

VARIABLES
    file,      \* the cells of events.jsonl, in file order
    writing,   \* writing[t]: the event whose write(event) t is inside
    sent,      \* sent[t]: the cells of it already appended
    started,   \* the events a recorder has called write for
    acked      \* the events whose write(event) has returned normally

vars == <<file, writing, sent, started, acked>>

Cell == [event : Events, pos : Nat \ {0}]

LineSize(e) == Size[e] + 1

TypeOK ==
    /\ file \in Seq(Cell)
    /\ writing \in [Threads -> Events \cup {NoEvent}]
    /\ sent \in [Threads -> Nat]
    /\ started \in SUBSET Events
    /\ acked \in SUBSET Events

Init ==
    /\ file = <<>>
    /\ writing = [t \in Threads |-> NoEvent]
    /\ sent = [t \in Threads |-> 0]
    /\ started = {}
    /\ acked = {}

-----------------------------------------------------------------------------
(* What the recorders do                                                   *)

\* Mutant: the file is opened with TRUNCATE_EXISTING instead of APPEND.
BeginWrite_Truncates(t, e) ==
    /\ writing[t] = NoEvent
    /\ e \notin started
    /\ writing' = [writing EXCEPT ![t] = e]
    /\ sent' = [sent EXCEPT ![t] = 0]
    /\ started' = started \cup {e}
    /\ file' = <<>>
    /\ UNCHANGED acked

\* Enter write(event): open the file, encode the event, fill the buffer.
BeginWrite(t, e) ==
    /\ writing[t] = NoEvent
    /\ e \notin started
    /\ writing' = [writing EXCEPT ![t] = e]
    /\ sent' = [sent EXCEPT ![t] = 0]
    /\ started' = started \cup {e}
    /\ UNCHANGED <<file, acked>>

\* Mutant: writer.newLine() is flushed by itself.
ChunkSize_LineApart(t) ==
    LET left == LineSize(writing[t]) - sent[t]
    IN  IF left = 1 THEN 1
        ELSE IF left - 1 < BufferCells THEN left - 1 ELSE BufferCells

\* The cells the next write(2) of t carries: a full buffer, or what is left.
ChunkSize(t) ==
    LET left == LineSize(writing[t]) - sent[t]
    IN  IF left < BufferCells THEN left ELSE BufferCells

Chunk(t) ==
    [k \in 1..ChunkSize(t) |-> [event |-> writing[t], pos |-> sent[t] + k]]

\* Mutant: the writer starts over after a write that succeeded.
FlushBuffer_Retries(t) ==
    LET e    == writing[t]
        done == sent[t] + ChunkSize(t) = LineSize(e)
    IN  /\ e # NoEvent
        /\ file' = file \o Chunk(t)
        /\ sent' = [sent EXCEPT ![t] = IF done THEN 0 ELSE @ + ChunkSize(t)]
        /\ acked' = IF done THEN acked \cup {e} ELSE acked
        /\ UNCHANGED <<writing, started>>

\* One flush of the buffer: an append at the end of the file as it is now.
\* The flush that carries the newline is the one made by close(), and
\* write(event) returns to the recorder.
FlushBuffer(t) ==
    LET e    == writing[t]
        done == sent[t] + ChunkSize(t) = LineSize(e)
    IN  /\ e # NoEvent
        /\ file' = file \o Chunk(t)
        /\ writing' = [writing EXCEPT ![t] = IF done THEN NoEvent ELSE e]
        /\ sent' = [sent EXCEPT ![t] = IF done THEN 0 ELSE @ + ChunkSize(t)]
        /\ acked' = IF done THEN acked \cup {e} ELSE acked
        /\ UNCHANGED started

\* Mutant: the IOException is swallowed inside write.
DropEvent_Acks(t) ==
    /\ writing[t] # NoEvent
    /\ acked' = acked \cup {writing[t]}
    /\ writing' = [writing EXCEPT ![t] = NoEvent]
    /\ sent' = [sent EXCEPT ![t] = 0]
    /\ UNCHANGED <<file, started>>

\* createDirectories, open or a flush throws IOException: the recorder logs
\* a warning and drops the event; what was flushed before stays in the file.
DropEvent(t) ==
    /\ writing[t] # NoEvent
    /\ writing' = [writing EXCEPT ![t] = NoEvent]
    /\ sent' = [sent EXCEPT ![t] = 0]
    /\ UNCHANGED <<file, started, acked>>

\* A JVM dies (and may be started again): its unflushed buffers are lost.
CrashProcess(p) ==
    /\ \E t \in Threads : ProcessOf[t] = p /\ writing[t] # NoEvent
    /\ writing' = [t \in Threads |->
                     IF ProcessOf[t] = p THEN NoEvent ELSE writing[t]]
    /\ sent' = [t \in Threads |-> IF ProcessOf[t] = p THEN 0 ELSE sent[t]]
    /\ UNCHANGED <<file, started, acked>>

Next ==
    \/ \E t \in Threads, e \in Events : BeginWrite(t, e)
    \/ \E t \in Threads : FlushBuffer(t)
    \/ \E t \in Threads : DropEvent(t)
    \/ \E p \in Processes : CrashProcess(p)

Spec == Init /\ [][Next]_vars

-----------------------------------------------------------------------------
(* What the analyzer's line reader makes of the file                       *)

IsNewline(f, i) == f[i].pos = LineSize(f[i].event)

\* Cells a..b of f are one line as readline delivers it: between newlines,
\* or the unterminated rest at the end of the file.
IsLine(f, a, b) ==
    /\ a = 1 \/ IsNewline(f, a - 1)
    /\ b = Len(f) \/ IsNewline(f, b + 1)
    /\ \A i \in a..b : ~IsNewline(f, i)

\* The line parses as the JSON of e: it is that text, whole and nothing else.
Parses(f, a, b, e) ==
    /\ b = a + Size[e] - 1
    /\ \A i \in a..b : f[i].event = e /\ f[i].pos = i - a + 1

\* The events readHttpEventsJsonl / readAsyncEventsJsonl return as items.
ReadItems(f) ==
    {e \in Events : \E a \in 1..Len(f), b \in 1..Len(f) :
                        IsLine(f, a, b) /\ Parses(f, a, b, e)}

\* Mutant: lines that do not parse are passed over.
InvalidLines_Ignored(f) == {}

\* Where the lines start that they are sure to count in invalidLines: lines
\* made of beginnings of events, which leave a brace open, and of events glued
\* together.  A blank line is not one of them.  Nor is, to be on the safe
\* side, a line that has the rest of an event without its beginning: pieces
\* of two events cut at the same place may make up a JSON text, which the
\* readers take for an event or pass over for its kind.
InvalidLines(f) ==
    {a \in 1..Len(f) : \E b \in a..Len(f) :
        /\ IsLine(f, a, b)
        /\ \A e \in Events : ~Parses(f, a, b, e)
        /\ \A i \in a..b : \E j \in a..i :
              f[j].event = f[i].event /\ f[j].pos = 1}

\* The events that have a line of their own, newline included.
WholeLines(f) ==
    {e \in Events : \E a \in 1..Len(f), b \in 1..Len(f) :
                        /\ IsLine(f, a, b)
                        /\ Parses(f, a, b, e)
                        /\ b < Len(f)}

-----------------------------------------------------------------------------
(* Properties                                                              *)

FitsBuffer(e) == LineSize(e) <= BufferCells

AllFit == \A e \in started : FitsBuffer(e)

\* GATE-04, "fail-closed behavior when input evidence is invalid": an event
\* whose write succeeded is either read by the analyzer or its loss shows as
\* an invalid line, on which the report fails.  It must hold whatever the
\* interleaving of flushes, the drops and the crashes, and whenever the
\* analyzer reads the file.
NoSilentLoss == acked \subseteq ReadItems(file) \/ InvalidLines(file) # {}

\* The analyzer counts each recorded call at most once: two lines never parse
\* as the same event, and one that does was written by a recorder.
CountedOnce ==
    \A e \in Events : \A a1, a2 \in 1..Len(file) :
        LET b1 == a1 + Size[e] - 1
            b2 == a2 + Size[e] - 1
        IN  /\ b1 <= Len(file) /\ Parses(file, a1, b1, e)
            /\ b2 <= Len(file) /\ Parses(file, a2, b2, e)
            => a1 = a2 /\ e \in started

\* An event that fits one buffer and has a line of its own keeps it: no
\* later flush, drop or crash can make the analyzer lose it again.
StoredForGood == [][WholeLines(file) \subseteq WholeLines(file')]_vars

\* While only events that fit one buffer have been written, no line is torn
\* and every event whose write succeeded is read.
SmallEventsIntact ==
    AllFit =>
        /\ acked = ReadItems(file)
        /\ InvalidLines(file) = {}

\* "appends one JSON object per line" (docs/plans/2026-02-28-yanote.md:88):
\* when every call of write has returned normally, each line of the file is
\* one JSON object.
OneObjectPerLine == started = acked => InvalidLines(file) = {}

-----------------------------------------------------------------------------
(* The abstract record store: stored is what the analyzer reads.           *)

Store == INSTANCE RecordStore WITH stored <- WholeLines(file)

\* As long as every event written fits the buffer, each step of the recorders
\* is one Store of a whole event or nothing the analyzer can see: the lines
\* EventJsonlWriter.write appends make the file an atomic record store.
StoreSpec == Store!Init /\ [][AllFit' => Store!Next]_(Store!vars)

=============================================================================
