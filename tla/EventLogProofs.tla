--------------------------- MODULE EventLogProofs ---------------------------
(***************************************************************************)
(* Proofs about EventLog for every set of threads, processes and events,   *)
(* every size of event and every buffer: nothing is counted twice, nothing *)
(* is lost without a sign, and what fits the buffer is stored atomically.  *)
(***************************************************************************)
EXTENDS EventLog, WellFoundedInduction, TLAPS

(* A thread inside write(event) has a started event that nobody else       *)
(* writes, is not finished with it, and has appended less than its line.   *)
WriterInv ==
    /\ \A t \in Threads : writing[t] # NoEvent =>
          /\ writing[t] \in started
          /\ writing[t] \notin acked
          /\ sent[t] < LineSize(writing[t])
    /\ \A t, u \in Threads :
          writing[t] # NoEvent /\ writing[t] = writing[u] => t = u
    /\ acked \subseteq started

(* No cell of an event is in the file twice, and a writer's event is in it *)
(* up to the cell the writer has sent, no further.                         *)
CellInv ==
    /\ \A i \in 1..Len(file) :
          /\ file[i].event \in started
          /\ \A t \in Threads :
                writing[t] = file[i].event => file[i].pos <= sent[t]
    /\ \A i, j \in 1..Len(file) : file[i] = file[j] => i = j

\* The line of e is at cells base+1 .. base+LineSize(e) of f, and a newline,
\* or the start of f, is before it.
HasLineAt(f, e, base) ==
    /\ base + LineSize(e) <= Len(f)
    /\ \A k \in 1..LineSize(e) : f[base + k] = [event |-> e, pos |-> k]
    /\ base = 0 \/ IsNewline(f, base)

(* While every event fits the buffer the file is a sequence of the whole   *)
(* lines of the acknowledged events.                                       *)
LinesInv ==
    /\ \A t \in Threads : sent[t] = 0
    /\ \A i \in 1..Len(file) :
          /\ file[i].event \in acked
          /\ file[i].pos <= LineSize(file[i].event)
          /\ i - file[i].pos \in Nat
          /\ HasLineAt(file, file[i].event, i - file[i].pos)
    /\ \A e \in acked : \E base \in 0..Len(file) : HasLineAt(file, e, base)
    /\ Len(file) = 0 \/ IsNewline(file, Len(file))

IInv ==
    /\ TypeOK
    /\ WriterInv
    /\ CellInv
    /\ AllFit => LinesInv

USE DEF LineSize

-----------------------------------------------------------------------------
(* One flush                                                               *)

\* What a flush carries: at least one cell, at most a buffer and at most
\* the rest of the line, and all of that rest if it fits.
LEMMA ChunkFacts ==
    ASSUME TypeOK, WriterInv, NEW t \in Threads, writing[t] # NoEvent
    PROVE  /\ writing[t] \in Events
           /\ ChunkSize(t) \in Nat \ {0}
           /\ sent[t] + ChunkSize(t) <= LineSize(writing[t])
           /\ FitsBuffer(writing[t]) /\ sent[t] = 0
                 => ChunkSize(t) = LineSize(writing[t])
           /\ Chunk(t) \in Seq(Cell)
           /\ Len(Chunk(t)) = ChunkSize(t)
           /\ \A k \in 1..ChunkSize(t) :
                 Chunk(t)[k] = [event |-> writing[t], pos |-> sent[t] + k]
<1>1. /\ writing[t] \in Events
      /\ Size[writing[t]] \in Nat \ {0}
      /\ sent[t] \in Nat
      /\ sent[t] < Size[writing[t]] + 1
      /\ BufferCells \in Nat \ {0}
  BY SizeAssumption, BufferAssumption DEF TypeOK, WriterInv
<1>2. /\ ChunkSize(t) \in Nat \ {0}
      /\ sent[t] + ChunkSize(t) <= LineSize(writing[t])
  BY <1>1 DEF ChunkSize
<1>3. FitsBuffer(writing[t]) /\ sent[t] = 0
         => ChunkSize(t) = LineSize(writing[t])
  BY <1>1 DEF ChunkSize, FitsBuffer
<1>4. \A k \in 1..ChunkSize(t) :
         [event |-> writing[t], pos |-> sent[t] + k] \in Cell
  BY <1>1, <1>2 DEF Cell
<1>5. Chunk(t) \in [1..ChunkSize(t) -> Cell]
  BY <1>4 DEF Chunk
<1>6. Chunk(t) \in Seq(Cell) /\ Len(Chunk(t)) = ChunkSize(t)
  BY <1>2, <1>5
<1>7. \A k \in 1..ChunkSize(t) :
         Chunk(t)[k] = [event |-> writing[t], pos |-> sent[t] + k]
  BY DEF Chunk
<1>8. QED
  BY <1>1, <1>2, <1>3, <1>6, <1>7

\* What a flush does to the file: the cells it had stay, and the chunk is at
\* its end.
LEMMA FlushFacts ==
    ASSUME TypeOK, WriterInv, NEW t \in Threads, FlushBuffer(t)
    PROVE  /\ file' \in Seq(Cell)
           /\ Len(file') = Len(file) + ChunkSize(t)
           /\ \A i \in 1..Len(file) : file'[i] = file[i]
           /\ \A k \in 1..ChunkSize(t) : file'[Len(file) + k] =
                 [event |-> writing[t], pos |-> sent[t] + k]
<1>1. writing[t] # NoEvent /\ file' = file \o Chunk(t)
  BY DEF FlushBuffer
<1>2. file \in Seq(Cell)
  BY DEF TypeOK
<1>3. /\ Chunk(t) \in Seq(Cell)
      /\ Len(Chunk(t)) = ChunkSize(t)
      /\ ChunkSize(t) \in Nat \ {0}
      /\ \A k \in 1..ChunkSize(t) :
            Chunk(t)[k] = [event |-> writing[t], pos |-> sent[t] + k]
  BY <1>1, ChunkFacts
<1>4. /\ file' \in Seq(Cell)
      /\ Len(file') = Len(file) + ChunkSize(t)
      /\ \A i \in 1..Len(file) : file'[i] = file[i]
      /\ \A k \in 1..ChunkSize(t) : file'[Len(file) + k] = Chunk(t)[k]
  BY <1>1, <1>2, <1>3
<1>5. QED
  BY <1>3, <1>4

-----------------------------------------------------------------------------
(* Type correctness and the writers                                        *)

LEMMA InitIInv == Init => IInv
<1>1. Init => TypeOK /\ Len(file) = 0
  BY DEF Init, TypeOK, Cell
<1>2. Init => WriterInv
  BY DEF Init, WriterInv
<1>3. Init => CellInv
  BY <1>1 DEF Init, CellInv
<1>4. Init => LinesInv
  BY <1>1 DEF Init, LinesInv
<1>5. QED
  BY <1>1, <1>2, <1>3, <1>4 DEF IInv

LEMMA TypeStep == TypeOK /\ WriterInv /\ [Next]_vars => TypeOK'
<1> SUFFICES ASSUME TypeOK, WriterInv, [Next]_vars PROVE TypeOK'
  OBVIOUS
<1>1. CASE \E t \in Threads, e \in Events : BeginWrite(t, e)
  BY <1>1 DEF TypeOK, BeginWrite
<1>2. ASSUME NEW t \in Threads, FlushBuffer(t) PROVE TypeOK'
  <2>1. file' \in Seq(Cell)
    BY <1>2, FlushFacts
  <2>2. /\ writing[t] \in Events
        /\ ChunkSize(t) \in Nat
    BY <1>2, ChunkFacts DEF FlushBuffer
  <2>3. /\ writing' \in [Threads -> Events \cup {NoEvent}]
        /\ sent' \in [Threads -> Nat]
    BY <1>2, <2>2 DEF TypeOK, FlushBuffer
  <2>4. started' \in SUBSET Events /\ acked' \in SUBSET Events
    BY <1>2, <2>2 DEF TypeOK, FlushBuffer
  <2>5. QED
    BY <2>1, <2>3, <2>4 DEF TypeOK
<1>3. CASE \E t \in Threads : DropEvent(t)
  BY <1>3 DEF TypeOK, DropEvent
<1>4. CASE \E p \in Processes : CrashProcess(p)
  BY <1>4 DEF TypeOK, CrashProcess
<1>5. CASE UNCHANGED vars
  BY <1>5 DEF TypeOK, vars
<1>6. QED
  BY <1>1, <1>2, <1>3, <1>4, <1>5 DEF Next

LEMMA WriterStep == TypeOK /\ WriterInv /\ [Next]_vars => WriterInv'
<1> SUFFICES ASSUME TypeOK, WriterInv, [Next]_vars PROVE WriterInv'
  OBVIOUS
<1>1. ASSUME NEW t \in Threads, NEW e \in Events, BeginWrite(t, e)
      PROVE  WriterInv'
  <2>1. 0 < LineSize(e)
    BY SizeAssumption
  <2>2. QED
    BY <1>1, <2>1, NoEventAssumption DEF TypeOK, WriterInv, BeginWrite
<1>2. ASSUME NEW t \in Threads, FlushBuffer(t) PROVE WriterInv'
  <2>1. /\ writing[t] \in Events
        /\ Size[writing[t]] \in Nat
        /\ sent[t] \in Nat
        /\ ChunkSize(t) \in Nat
        /\ sent[t] + ChunkSize(t) <= LineSize(writing[t])
    BY <1>2, ChunkFacts, SizeAssumption DEF FlushBuffer, TypeOK
  <2>2. CASE sent[t] + ChunkSize(t) = LineSize(writing[t])
    BY <1>2, <2>1, <2>2 DEF TypeOK, WriterInv, FlushBuffer
  <2>3. CASE sent[t] + ChunkSize(t) # LineSize(writing[t])
    BY <1>2, <2>1, <2>3 DEF TypeOK, WriterInv, FlushBuffer
  <2>4. QED
    BY <2>2, <2>3
<1>3. CASE \E t \in Threads : DropEvent(t)
  BY <1>3 DEF TypeOK, WriterInv, DropEvent
<1>4. CASE \E p \in Processes : CrashProcess(p)
  BY <1>4 DEF TypeOK, WriterInv, CrashProcess
<1>5. CASE UNCHANGED vars
  BY <1>5 DEF WriterInv, vars
<1>6. QED
  BY <1>1, <1>2, <1>3, <1>4, <1>5 DEF Next

LEMMA CellStep == TypeOK /\ WriterInv /\ CellInv /\ [Next]_vars => CellInv'
<1> SUFFICES ASSUME TypeOK, WriterInv, CellInv, [Next]_vars PROVE CellInv'
  OBVIOUS
<1>1. ASSUME NEW t \in Threads, NEW e \in Events, BeginWrite(t, e)
      PROVE  CellInv'
  BY <1>1 DEF TypeOK, CellInv, BeginWrite
<1>2. ASSUME NEW t \in Threads, FlushBuffer(t) PROVE CellInv'
  <2> DEFINE e == writing[t]
             n == ChunkSize(t)
  <2>1. /\ e \in Events /\ e # NoEvent
        /\ e \in started
        /\ Size[e] \in Nat
        /\ sent[t] \in Nat
        /\ n \in Nat \ {0}
        /\ sent[t] + n <= LineSize(e)
    BY <1>2, ChunkFacts, SizeAssumption DEF FlushBuffer, TypeOK, WriterInv
  <2>2. /\ file' \in Seq(Cell)
        /\ Len(file) \in Nat
        /\ Len(file') = Len(file) + n
        /\ \A i \in 1..Len(file) : file'[i] = file[i]
        /\ \A k \in 1..n : file'[Len(file) + k] =
                 [event |-> e, pos |-> sent[t] + k]
    BY <1>2, FlushFacts DEF TypeOK
  <2>3. \A i \in Len(file) + 1 .. Len(file') :
           /\ file'[i].event = e
           /\ file'[i].pos = sent[t] + (i - Len(file))
    <3> SUFFICES ASSUME NEW i \in Len(file) + 1 .. Len(file')
                 PROVE  /\ file'[i].event = e
                        /\ file'[i].pos = sent[t] + (i - Len(file))
      OBVIOUS
    <3> DEFINE k == i - Len(file)
    <3>1. k \in 1..n /\ i = Len(file) + k
      BY <2>1, <2>2
    <3>2. file'[Len(file) + k] = [event |-> e, pos |-> sent[t] + k]
      BY <2>2, <3>1
    <3>3. file'[i] = [event |-> e, pos |-> sent[t] + k]
      BY <3>1, <3>2
    <3>4. QED
      BY <3>3
  <2>4. /\ started' = started
        /\ writing'[t] \in {NoEvent, e}
        /\ \A u \in Threads : u # t =>
              writing'[u] = writing[u] /\ sent'[u] = sent[u]
        /\ writing'[t] = e => sent'[t] = sent[t] + n
    BY <1>2, <2>1 DEF FlushBuffer, TypeOK
  <2>5. \A i \in 1..Len(file') : i \in 1..Len(file)
                                 \/ i \in Len(file) + 1 .. Len(file')
    BY <2>1, <2>2
  <2>6. \A i \in 1..Len(file) : file[i].event = e => file[i].pos <= sent[t]
    BY DEF CellInv
  <2>7. ASSUME NEW i \in 1..Len(file')
        PROVE  /\ file'[i].event \in started'
               /\ \A u \in Threads : writing'[u] = file'[i].event
                                       => file'[i].pos <= sent'[u]
    <3>1. CASE i \in 1..Len(file)
      <4>1. file'[i] = file[i] /\ file[i] \in Cell
        BY <2>2, <3>1 DEF TypeOK
      <4>2. file[i].event \in started /\ file[i].event # NoEvent
        BY <3>1, <4>1, NoEventAssumption DEF CellInv, Cell
      <4>3. writing'[t] = file[i].event => file[i].pos <= sent'[t]
        BY <2>1, <2>4, <2>6, <3>1, <4>1, <4>2 DEF Cell
      <4>4. \A u \in Threads : u # t /\ writing'[u] = file[i].event
                                 => file[i].pos <= sent'[u]
        BY <2>4, <3>1 DEF CellInv
      <4>5. QED
        BY <2>4, <4>1, <4>2, <4>3, <4>4
    <3>2. CASE i \in Len(file) + 1 .. Len(file')
      <4>1. file'[i].event = e /\ file'[i].pos = sent[t] + (i - Len(file))
        BY <2>3, <3>2
      <4>2. i - Len(file) <= n
        BY <2>2, <2>1, <3>2
      <4>3. \A u \in Threads : writing'[u] = e => u = t
        BY <2>1, <2>4 DEF WriterInv
      <4>4. QED
        BY <2>1, <2>2, <2>4, <3>2, <4>1, <4>2, <4>3
    <3>3. QED
      BY <2>5, <3>1, <3>2
  <2>8. ASSUME NEW i \in 1..Len(file'), NEW j \in 1..Len(file'),
               file'[i] = file'[j]
        PROVE  i = j
    <3>1. CASE i \in 1..Len(file) /\ j \in 1..Len(file)
      BY <2>2, <2>8, <3>1 DEF CellInv
    <3>2. CASE i \in Len(file) + 1 .. Len(file')
               /\ j \in Len(file) + 1 .. Len(file')
      <4>1. sent[t] + (i - Len(file)) = sent[t] + (j - Len(file))
        BY <2>1, <2>2, <2>3, <2>8, <3>2
      <4>2. QED
        BY <2>1, <2>2, <3>2, <4>1
    <3>3. ASSUME NEW x \in 1..Len(file), NEW y \in Len(file) + 1 .. Len(file')
          PROVE  file'[x] # file'[y]
      <4>1. file'[x] = file[x] /\ file[x] \in Cell
        BY <2>2 DEF TypeOK
      <4>2. file'[y].event = e /\ file'[y].pos = sent[t] + (y - Len(file))
        BY <2>3
      <4>3. sent[t] + (y - Len(file)) > sent[t]
        BY <2>1, <2>2
      <4>4. file[x].event = e => file[x].pos <= sent[t]
        BY <2>6
      <4>5. file[x].pos \in Nat
        BY <4>1 DEF Cell
      <4>6. ASSUME file'[x] = file'[y] PROVE FALSE
        <5>1. /\ file[x].event = e
              /\ file[x].pos = sent[t] + (y - Len(file))
          BY <4>1, <4>2, <4>6
        <5>2. QED
          BY <2>1, <4>3, <4>4, <4>5, <5>1
      <4>7. QED
        BY <4>6
    <3>4. QED
      BY <2>5, <2>8, <3>1, <3>2, <3>3
  <2>9. QED
    BY <2>7, <2>8 DEF CellInv
<1>3. ASSUME NEW t \in Threads, DropEvent(t) PROVE CellInv'
  BY <1>3, NoEventAssumption DEF TypeOK, CellInv, DropEvent, Cell
<1>4. ASSUME NEW p \in Processes, CrashProcess(p) PROVE CellInv'
  BY <1>4, NoEventAssumption DEF TypeOK, CellInv, CrashProcess, Cell
<1>5. CASE UNCHANGED vars
  BY <1>5 DEF CellInv, vars
<1>6. QED
  BY <1>1, <1>2, <1>3, <1>4, <1>5 DEF Next

-----------------------------------------------------------------------------
(* Whole lines, while every event fits the buffer                          *)

\* A flush of an event that fits, by a thread that has sent nothing of it,
\* appends exactly the line of the event.
LEMMA WholeFlush ==
    ASSUME TypeOK, WriterInv, NEW t \in Threads, FlushBuffer(t),
           FitsBuffer(writing[t]), sent[t] = 0
    PROVE  LET e == writing[t]
           IN  /\ Len(file') = Len(file) + LineSize(e)
               /\ \A k \in 1..LineSize(e) :
                     file'[Len(file) + k] = [event |-> e, pos |-> k]
               /\ acked' = acked \cup {e}
               /\ sent' = [sent EXCEPT ![t] = 0]
<1>1. /\ writing[t] # NoEvent
      /\ writing[t] \in Events
      /\ Size[writing[t]] \in Nat
      /\ ChunkSize(t) = LineSize(writing[t])
  BY ChunkFacts, SizeAssumption DEF FlushBuffer
<1>2. sent[t] + ChunkSize(t) = LineSize(writing[t])
  BY <1>1
<1>3. /\ Len(file') = Len(file) + LineSize(writing[t])
      /\ \A k \in 1..LineSize(writing[t]) :
            file'[Len(file) + k] = [event |-> writing[t], pos |-> 0 + k]
  BY <1>1, FlushFacts
<1>4. \A k \in 1..LineSize(writing[t]) : 0 + k = k
  BY <1>1
<1>5. /\ acked' = acked \cup {writing[t]}
      /\ sent' = [sent EXCEPT ![t] = 0]
  BY <1>2 DEF FlushBuffer
<1>6. QED
  BY <1>3, <1>4, <1>5

\* A line that is in the file stays there when cells are appended to it.
LEMMA LineStays ==
    ASSUME file \in Seq(Cell), file' \in Seq(Cell),
           Len(file) <= Len(file'),
           \A i \in 1..Len(file) : file'[i] = file[i],
           NEW e \in Events, NEW base \in Nat, HasLineAt(file, e, base)
    PROVE  HasLineAt(file', e, base)
<1>1. /\ Size[e] \in Nat
      /\ base + LineSize(e) <= Len(file)
      /\ Len(file) \in Nat /\ Len(file') \in Nat
  BY SizeAssumption DEF HasLineAt
<1>2. \A k \in 1..LineSize(e) : file'[base + k] = [event |-> e, pos |-> k]
  <2>1. \A k \in 1..LineSize(e) : base + k \in 1..Len(file)
    BY <1>1
  <2>2. QED
    BY <2>1 DEF HasLineAt
<1>3. base = 0 \/ IsNewline(file', base)
  <2>1. base = 0 \/ base \in 1..Len(file)
    BY <1>1
  <2>2. QED
    BY <2>1 DEF HasLineAt, IsNewline
<1>4. QED
  BY <1>1, <1>2, <1>3 DEF HasLineAt

LEMMA LinesStep ==
    TypeOK /\ WriterInv /\ (AllFit => LinesInv) /\ [Next]_vars
        => (AllFit' => LinesInv')
<1> SUFFICES ASSUME TypeOK, WriterInv, AllFit => LinesInv, [Next]_vars,
                    AllFit'
             PROVE  LinesInv'
  OBVIOUS
<1>1. started \subseteq started'
  BY DEF Next, BeginWrite, FlushBuffer, DropEvent, CrashProcess, vars
<1>2. AllFit /\ LinesInv
  BY <1>1 DEF AllFit, FitsBuffer
<1>3. ASSUME NEW t \in Threads, NEW e \in Events, BeginWrite(t, e)
      PROVE  LinesInv'
  BY <1>2, <1>3 DEF TypeOK, LinesInv, BeginWrite, HasLineAt, IsNewline
<1>4. ASSUME NEW t \in Threads, FlushBuffer(t) PROVE LinesInv'
  <2> DEFINE e == writing[t]
             m == LineSize(e)
  <2>1. /\ e \in Events
        /\ Size[e] \in Nat \ {0}
        /\ m \in Nat /\ m > 0
    BY <1>4, ChunkFacts, SizeAssumption DEF FlushBuffer
  <2>2. FitsBuffer(e) /\ sent[t] = 0
    BY <1>2, <1>4 DEF AllFit, LinesInv, WriterInv, FlushBuffer
  <2>3. /\ Len(file') = Len(file) + m
        /\ \A k \in 1..m : file'[Len(file) + k] = [event |-> e, pos |-> k]
        /\ acked' = acked \cup {e}
        /\ sent' = [sent EXCEPT ![t] = 0]
    BY <1>4, <2>2, WholeFlush
  <2>4. /\ file \in Seq(Cell) /\ file' \in Seq(Cell)
        /\ Len(file) \in Nat /\ Len(file) <= Len(file')
        /\ \A i \in 1..Len(file) : file'[i] = file[i]
    BY <1>4, <2>1, <2>3, FlushFacts DEF TypeOK
  <2>5. \A u \in Threads : sent'[u] = 0
    BY <1>2, <2>3 DEF LinesInv, TypeOK
  <2>6. HasLineAt(file', e, Len(file))
    <3>1. Len(file) = 0 \/ IsNewline(file', Len(file))
      BY <1>2, <2>4 DEF LinesInv, IsNewline
    <3>2. QED
      BY <2>3, <2>4, <3>1 DEF HasLineAt
  <2>7. ASSUME NEW i \in 1..Len(file')
        PROVE  /\ file'[i].event \in acked'
               /\ file'[i].pos <= LineSize(file'[i].event)
               /\ i - file'[i].pos \in Nat
               /\ HasLineAt(file', file'[i].event, i - file'[i].pos)
    <3>1. CASE i \in 1..Len(file)
      <4> DEFINE f == file[i].event
                 b == i - file[i].pos
      <4>1. /\ f \in acked /\ f \in Events
            /\ file[i].pos <= LineSize(f)
            /\ b \in Nat
            /\ HasLineAt(file, f, b)
        BY <1>2, <3>1 DEF LinesInv, TypeOK
      <4>2. file'[i] = file[i]
        BY <2>4, <3>1
      <4> HIDE DEF f, b
      <4>3. HasLineAt(file', f, b)
        BY <2>4, <4>1, LineStays
      <4>4. QED
        BY <2>3, <4>1, <4>2, <4>3 DEF f, b
    <3>2. CASE i \notin 1..Len(file)
      <4> DEFINE k == i - Len(file)
      <4>1. k \in 1..m /\ i = Len(file) + k
        BY <2>3, <2>4, <2>1, <3>2
      <4>2. file'[i] = [event |-> e, pos |-> k]
        BY <2>3, <4>1
      <4>3. i - file'[i].pos = Len(file)
        <5>1. file'[i].pos = k
          BY <4>2
        <5>2. i - k = Len(file)
          BY <2>4
        <5>3. QED
          BY <5>1, <5>2
      <4>4. QED
        BY <2>3, <2>4, <2>6, <4>1, <4>2, <4>3
    <3>3. QED
      BY <3>1, <3>2
  <2>8. ASSUME NEW f \in acked'
        PROVE  \E base \in 0..Len(file') : HasLineAt(file', f, base)
    <3>1. CASE f = e
      BY <2>4, <2>6, <3>1
    <3>2. CASE f \in acked
      <4>1. PICK base \in 0..Len(file) : HasLineAt(file, f, base)
        BY <1>2, <3>2 DEF LinesInv
      <4>2. f \in Events
        BY <3>2 DEF TypeOK
      <4>3. HasLineAt(file', f, base)
        BY <2>4, <4>1, <4>2, LineStays
      <4>4. QED
        BY <2>4, <4>3
    <3>3. QED
      BY <2>3, <3>1, <3>2
  <2>9. IsNewline(file', Len(file'))
    <3>1. file'[Len(file) + m] = [event |-> e, pos |-> m]
      BY <2>1, <2>3
    <3>2. QED
      BY <2>3, <3>1 DEF IsNewline
  <2>10. QED
    BY <2>5, <2>7, <2>8, <2>9 DEF LinesInv
<1>5. ASSUME NEW t \in Threads, DropEvent(t) PROVE LinesInv'
  BY <1>2, <1>5 DEF TypeOK, LinesInv, DropEvent, HasLineAt, IsNewline
<1>6. ASSUME NEW p \in Processes, CrashProcess(p) PROVE LinesInv'
  BY <1>2, <1>6 DEF TypeOK, LinesInv, CrashProcess, HasLineAt, IsNewline
<1>7. CASE UNCHANGED vars
  BY <1>2, <1>7 DEF LinesInv, vars, HasLineAt, IsNewline
<1>8. QED
  BY <1>3, <1>4, <1>5, <1>6, <1>7 DEF Next

-----------------------------------------------------------------------------
(* What the reader finds in a file of whole lines                          *)

\* A line of an event is what the reader takes for this event.
LEMMA LineIsRead ==
    ASSUME TypeOK, NEW e \in Events, NEW base \in Nat, HasLineAt(file, e, base)
    PROVE  /\ base + 1 \in 1..Len(file)
           /\ base + Size[e] \in 1..Len(file)
           /\ base + Size[e] < Len(file)
           /\ IsLine(file, base + 1, base + Size[e])
           /\ Parses(file, base + 1, base + Size[e], e)
           /\ e \in ReadItems(file) /\ e \in WholeLines(file)
<1>0. Len(file) \in Nat /\ Size[e] \in Nat \ {0}
  BY SizeAssumption DEF TypeOK
<1>1. base + Size[e] + 1 <= Len(file)
  BY <1>0 DEF HasLineAt
<1>2. \A k \in 1..LineSize(e) : file[base + k] = [event |-> e, pos |-> k]
  BY DEF HasLineAt
<1>3. ASSUME NEW i \in (base + 1)..(base + Size[e])
      PROVE  file[i].event = e /\ file[i].pos = i - (base + 1) + 1
  <2> DEFINE k == i - base
  <2>1. k \in 1..LineSize(e) /\ i = base + k /\ k = i - (base + 1) + 1
    BY <1>0
  <2> HIDE DEF k
  <2>2. file[i] = [event |-> e, pos |-> k]
    BY <1>2, <2>1
  <2>3. QED
    BY <2>1, <2>2
<1>4. Parses(file, base + 1, base + Size[e], e)
  BY <1>0, <1>3 DEF Parses
<1>5. \A i \in (base + 1)..(base + Size[e]) : ~IsNewline(file, i)
  BY <1>0, <1>3 DEF IsNewline
<1>6. IsNewline(file, base + Size[e] + 1)
  <2>1. file[base + LineSize(e)] = [event |-> e, pos |-> LineSize(e)]
    BY <1>0, <1>2
  <2>2. base + LineSize(e) = base + Size[e] + 1
    BY <1>0
  <2>3. QED
    BY <2>1, <2>2 DEF IsNewline
<1>7. base + 1 = 1 \/ IsNewline(file, base + 1 - 1)
  <2>1. base + 1 - 1 = base
    OBVIOUS
  <2>2. QED
    BY <2>1 DEF HasLineAt
<1>8. IsLine(file, base + 1, base + Size[e])
  BY <1>5, <1>6, <1>7 DEF IsLine
<1>9. QED
  BY <1>0, <1>1, <1>4, <1>8 DEF ReadItems, WholeLines

\* Whole lines are exactly what the reader reads: every acknowledged event
\* on a terminated line of its own, nothing else, and no invalid line.
LEMMA WholeLinesAreRead ==
    ASSUME TypeOK, LinesInv
    PROVE  /\ acked = ReadItems(file)
           /\ acked = WholeLines(file)
           /\ InvalidLines(file) = {}
<1>0. /\ Len(file) \in Nat
      /\ \A i \in 1..Len(file) :
            file[i].event \in Events /\ file[i].pos \in Nat \ {0}
      /\ \A e \in Events : Size[e] \in Nat \ {0}
      /\ acked \subseteq Events
  <2>1. file \in Seq(Cell)
    BY DEF TypeOK
  <2>2. \A i \in 1..Len(file) : file[i] \in Cell
    BY <2>1
  <2>3. QED
    BY <2>1, <2>2, SizeAssumption DEF TypeOK, Cell
<1>1. ASSUME NEW e \in Events, NEW base \in Nat, HasLineAt(file, e, base)
      PROVE  /\ IsLine(file, base + 1, base + Size[e])
             /\ Parses(file, base + 1, base + Size[e], e)
             /\ e \in ReadItems(file) /\ e \in WholeLines(file)
  BY <1>1, LineIsRead
<1>2. ASSUME NEW e \in acked
      PROVE  e \in ReadItems(file) /\ e \in WholeLines(file)
  <2>1. PICK base \in 0..Len(file) : HasLineAt(file, e, base)
    BY DEF LinesInv
  <2>2. e \in Events /\ base \in Nat
    BY <1>0
  <2>3. QED
    BY <1>1, <2>1, <2>2
<1>3. ASSUME NEW e \in ReadItems(file) PROVE e \in acked
  <2>1. PICK a \in 1..Len(file), b \in 1..Len(file) : Parses(file, a, b, e)
    BY DEF ReadItems
  <2>2. a \in a..b /\ e \in Events
    BY <1>0, <2>1 DEF ReadItems, Parses
  <2>3. file[a].event = e
    BY <2>1, <2>2 DEF Parses
  <2>4. QED
    BY <2>3 DEF LinesInv
<1>4. WholeLines(file) \subseteq ReadItems(file)
  BY DEF WholeLines, ReadItems
<1>5. ASSUME NEW a \in 1..Len(file), NEW b \in a..Len(file),
             IsLine(file, a, b)
      PROVE  \E e \in Events : Parses(file, a, b, e)
  <2> DEFINE e == file[a].event
             base == a - file[a].pos
  <2>1. /\ e \in Events
        /\ Size[e] \in Nat \ {0}
        /\ file[a].pos \in Nat \ {0}
        /\ file[a].pos <= LineSize(e)
        /\ base \in Nat
        /\ HasLineAt(file, e, base)
    BY <1>0 DEF LinesInv
  <2>2. \A k \in 1..LineSize(e) : file[base + k] = [event |-> e, pos |-> k]
    BY <2>1 DEF HasLineAt
  <2>3. file[a].pos = 1
    <3>1. CASE a = 1
      BY <2>1, <3>1
    <3>2. ASSUME a # 1, file[a].pos # 1 PROVE FALSE
      <4> DEFINE q == file[a].pos - 1
      <4>1. q \in 1..LineSize(e) /\ base + q = a - 1 /\ q # LineSize(e)
        BY <2>1, <3>2
      <4>2. IsNewline(file, a - 1)
        BY <1>5, <3>2 DEF IsLine
      <4> HIDE DEF q
      <4>3. file[a - 1] = [event |-> e, pos |-> q]
        BY <2>2, <4>1
      <4>4. QED
        BY <4>1, <4>2, <4>3 DEF IsNewline
    <3>3. QED
      BY <3>1, <3>2
  <2>4. a = base + 1 /\ base + LineSize(e) <= Len(file)
    BY <2>1, <2>3 DEF HasLineAt
  <2> HIDE DEF e, base
  <2>5. \A k \in 1..LineSize(e) :
           IsNewline(file, base + k) <=> k = LineSize(e)
    <3> SUFFICES ASSUME NEW k \in 1..LineSize(e)
                 PROVE  IsNewline(file, base + k) <=> k = LineSize(e)
      OBVIOUS
    <3>1. file[base + k] = [event |-> e, pos |-> k]
      BY <2>2
    <3>2. file[base + k].event = e /\ file[base + k].pos = k
      BY <3>1
    <3>3. QED
      BY <3>2 DEF IsNewline
  <2>6. IsNewline(file, base + LineSize(e)) /\ base + LineSize(e) > b
    <3>1. IsNewline(file, base + LineSize(e))
      BY <2>1, <2>5
    <3>2. base + LineSize(e) \notin a..b
      BY <1>5, <3>1 DEF IsLine
    <3>3. QED
      BY <2>1, <2>4, <3>1, <3>2
  <2>7. IsNewline(file, b + 1)
    BY <1>0, <1>5, <2>4, <2>6, <2>1 DEF IsLine
  <2>8. b + 1 = base + LineSize(e)
    <3> DEFINE q == b + 1 - base
    <3>1. q \in 1..LineSize(e) /\ base + q = b + 1
      BY <2>1, <2>4, <2>6
    <3> HIDE DEF q
    <3>2. q = LineSize(e)
      BY <2>5, <2>7, <3>1
    <3>3. QED
      BY <3>1, <3>2
  <2>9. b = base + Size[e]
    <3>1. b \in Nat
      BY <1>0
    <3>2. Size[e] \in Nat /\ base \in Nat
      BY <2>1
    <3>3. b + 1 = base + (Size[e] + 1)
      BY <2>8
    <3>4. QED
      BY <3>1, <3>2, <3>3
  <2>10. QED
    BY <1>1, <2>1, <2>4, <2>9
<1>6. InvalidLines(file) = {}
  BY <1>5 DEF InvalidLines
<1>7. QED
  BY <1>2, <1>3, <1>4, <1>6

-----------------------------------------------------------------------------
(* Events of any size: what is torn shows                                  *)

\* The cell p of e is among the first b cells of f.
Before(f, e, p, b) == \E j \in 1..b : f[j].event = e /\ f[j].pos = p

(* The cells of an event reach the file in order: those before a cell of   *)
(* it, those its writer has sent, and of an acknowledged event all of them.*)
OrderInv ==
    /\ \A i \in 1..Len(file) :
          /\ file[i].pos <= LineSize(file[i].event)
          /\ \A p \in 1..(file[i].pos - 1) : Before(file, file[i].event, p, i - 1)
    /\ \A t \in Threads : writing[t] # NoEvent =>
          \A p \in 1..sent[t] : Before(file, writing[t], p, Len(file))
    /\ \A e \in acked : Before(file, e, LineSize(e), Len(file))

LEMMA OrderStep == TypeOK /\ WriterInv /\ OrderInv /\ [Next]_vars => OrderInv'
<1> SUFFICES ASSUME TypeOK, WriterInv, OrderInv, [Next]_vars PROVE OrderInv'
  OBVIOUS
<1>1. ASSUME NEW t \in Threads, NEW e \in Events, BeginWrite(t, e)
      PROVE  OrderInv'
  <2>1. \A p \in 1..0 : FALSE
    OBVIOUS
  <2>2. ASSUME NEW u \in Threads, writing'[u] # NoEvent
        PROVE  \A p \in 1..sent'[u] : Before(file, writing'[u], p, Len(file))
    <3>1. CASE u = t
      BY <1>1, <2>1, <3>1 DEF BeginWrite, TypeOK
    <3>2. CASE u # t
      BY <1>1, <2>2, <3>2 DEF BeginWrite, TypeOK, OrderInv
    <3>3. QED
      BY <3>1, <3>2
  <2>3. file' = file /\ acked' = acked
    BY <1>1 DEF BeginWrite
  <2>4. QED
    BY <2>2, <2>3 DEF OrderInv, Before
<1>2. ASSUME NEW t \in Threads, FlushBuffer(t) PROVE OrderInv'
  <2> DEFINE e == writing[t]
             n == ChunkSize(t)
             b == Len(file)
             s == sent[t]
  <2>1. /\ e \in Events /\ e # NoEvent
        /\ Size[e] \in Nat /\ s \in Nat /\ n \in Nat \ {0}
        /\ s + n <= LineSize(e)
    BY <1>2, ChunkFacts, SizeAssumption DEF FlushBuffer, TypeOK
  <2>2. /\ b \in Nat /\ Len(file') = b + n
        /\ \A i \in 1..b : file'[i] = file[i]
        /\ \A k \in 1..n : /\ file'[b + k].event = e
                           /\ file'[b + k].pos = s + k
    <3>1. /\ b \in Nat /\ Len(file') = b + n
          /\ \A i \in 1..b : file'[i] = file[i]
          /\ \A k \in 1..n : file'[b + k] = [event |-> e, pos |-> s + k]
      BY <1>2, FlushFacts DEF TypeOK
    <3> HIDE DEF e, n, b, s
    <3>2. ASSUME NEW k \in 1..n
          PROVE  file'[b + k].event = e /\ file'[b + k].pos = s + k
      <4>1. file'[b + k] = [event |-> e, pos |-> s + k]
        BY <3>1
      <4>2. QED
        BY <4>1
    <3>3. QED
      BY <3>1, <3>2
  <2> HIDE DEF n, b, s
  <2>3. ASSUME NEW f, NEW p, NEW c \in 0..b, NEW d \in 0..(b + n), c <= d,
               Before(file, f, p, c)
        PROVE  Before(file', f, p, d)
    <3>1. PICK j \in 1..c : file[j].event = f /\ file[j].pos = p
      BY <2>3 DEF Before
    <3>2. j \in 1..b /\ j \in 1..d
      BY <2>1, <2>2, <2>3
    <3>3. QED
      BY <2>2, <3>1, <3>2 DEF Before
  <2>4. ASSUME NEW k \in 0..n, NEW p \in 1..(s + k)
        PROVE  Before(file', e, p, b + k)
    <3>1. CASE p <= s
      <4>1. Before(file, e, p, b)
        BY <2>1, <2>4, <3>1 DEF OrderInv, b, s
      <4>2. b \in 0..b /\ b + k \in 0..(b + n) /\ b <= b + k
        BY <2>1, <2>2
      <4>3. QED
        BY <2>3, <4>1, <4>2
    <3>2. CASE p > s
      <4> DEFINE q == p - s
      <4>1. q \in 1..k /\ q \in 1..n /\ p = s + q /\ b + q \in 1..(b + k)
        BY <2>1, <2>2, <3>2
      <4> HIDE DEF q
      <4>2. QED
        BY <2>2, <4>1 DEF Before
    <3>3. QED
      BY <2>1, <3>1, <3>2
  <2>5. ASSUME NEW i \in 1..Len(file')
        PROVE  /\ file'[i].pos <= LineSize(file'[i].event)
               /\ \A p \in 1..(file'[i].pos - 1) : Before(file', file'[i].event, p, i - 1)
    <3>1. CASE i \in 1..b
      <4>1. file'[i] = file[i] /\ i - 1 \in 0..b /\ i - 1 \in 0..(b + n) /\ i - 1 <= i - 1
        BY <2>1, <2>2, <3>1
      <4>2. /\ file[i].pos <= LineSize(file[i].event)
            /\ \A p \in 1..(file[i].pos - 1) : Before(file, file[i].event, p, i - 1)
        BY <3>1 DEF OrderInv, b
      <4>3. QED
        BY <2>3, <4>1, <4>2
    <3>2. CASE i \notin 1..b
      <4> DEFINE k == i - b
      <4>1. k \in 1..n /\ i = b + k /\ k - 1 \in 0..n /\ s + k - 1 = s + (k - 1)
            /\ i - 1 = b + (k - 1) /\ s + k <= LineSize(e)
        BY <2>1, <2>2, <3>2
      <4> HIDE DEF k
      <4>2. file'[i].event = e /\ file'[i].pos = s + k
        BY <2>2, <4>1
      <4>3. \A p \in 1..(s + (k - 1)) : Before(file', e, p, b + (k - 1))
        BY <2>4, <4>1
      <4>4. file'[i].pos - 1 = s + (k - 1) /\ file'[i].pos <= LineSize(e)
        BY <2>1, <4>1, <4>2
      <4>5. QED
        BY <4>1, <4>2, <4>3, <4>4
    <3>3. QED
      BY <3>1, <3>2
  <2>6. ASSUME NEW u \in Threads, writing'[u] # NoEvent
        PROVE  \A p \in 1..sent'[u] : Before(file', writing'[u], p, Len(file'))
    <3>1. CASE u = t
      <4>1. writing'[t] = e /\ sent'[t] = s + n
        BY <1>2, <2>6, <3>1 DEF FlushBuffer, TypeOK, n, s
      <4>2. n \in 0..n
        BY <2>1
      <4>3. \A p \in 1..(s + n) : Before(file', e, p, b + n)
        BY <2>4, <4>2
      <4>4. QED
        BY <2>2, <3>1, <4>1, <4>3
    <3>2. CASE u # t
      <4>1. writing'[u] = writing[u] /\ sent'[u] = sent[u]
        BY <1>2, <3>2 DEF FlushBuffer, TypeOK
      <4>2. b \in 0..b /\ b + n \in 0..(b + n) /\ b <= b + n
        BY <2>1, <2>2
      <4>3. \A p \in 1..sent[u] : Before(file, writing[u], p, b)
        BY <2>6, <4>1 DEF OrderInv, b
      <4>4. QED
        BY <2>2, <2>3, <4>1, <4>2, <4>3
    <3>3. QED
      BY <3>1, <3>2
  <2>7. ASSUME NEW f \in acked'
        PROVE  Before(file', f, LineSize(f), Len(file'))
    <3>1. CASE f \in acked
      <4>1. Before(file, f, LineSize(f), b)
        BY <3>1 DEF OrderInv, b
      <4>2. b \in 0..b /\ b + n \in 0..(b + n) /\ b <= b + n
        BY <2>1, <2>2
      <4>3. QED
        BY <2>2, <2>3, <4>1, <4>2
    <3>2. CASE f \notin acked
      <4>1. f = e /\ LineSize(e) = s + n
        BY <1>2, <2>7, <3>2 DEF FlushBuffer, n, s
      <4>2. n \in 0..n /\ s + n \in 1..(s + n)
        BY <2>1
      <4>3. QED
        BY <2>2, <2>4, <4>1, <4>2
    <3>3. QED
      BY <3>1, <3>2
  <2>8. QED
    BY <2>5, <2>6, <2>7 DEF OrderInv
<1>3. ASSUME NEW t \in Threads, DropEvent(t) PROVE OrderInv'
  <2>1. ASSUME NEW u \in Threads, writing'[u] # NoEvent
        PROVE  writing'[u] = writing[u] /\ sent'[u] = sent[u]
    BY <1>3, <2>1 DEF TypeOK, DropEvent
  <2>2. file' = file /\ acked' = acked
    BY <1>3 DEF DropEvent
  <2>3. QED
    BY <2>1, <2>2 DEF OrderInv, Before
<1>4. ASSUME NEW p \in Processes, CrashProcess(p) PROVE OrderInv'
  <2>1. ASSUME NEW u \in Threads, writing'[u] # NoEvent
        PROVE  writing'[u] = writing[u] /\ sent'[u] = sent[u]
    BY <1>4, <2>1 DEF TypeOK, CrashProcess
  <2>2. file' = file /\ acked' = acked
    BY <1>4 DEF CrashProcess
  <2>3. QED
    BY <2>1, <2>2 DEF OrderInv, Before
<1>5. CASE UNCHANGED vars
  BY <1>5 DEF OrderInv, vars, Before
<1>6. QED
  BY <1>1, <1>2, <1>3, <1>4, <1>5 DEF Next

\* Of any numbers one is the least.
LEMMA LeastNumber ==
    ASSUME NEW numbers \in SUBSET Nat, numbers # {}
    PROVE  \E m \in numbers : \A n \in numbers : m <= n
<1> DEFINE less == {p \in Nat \X Nat : p[1] < p[2]}
<1>1. IsWellFoundedOn(less, Nat)
  BY NatLessThanWellFounded, Zenon DEF OpToRel
<1>2. PICK m \in numbers : \A n \in numbers : <<n, m>> \notin less
  BY <1>1, WFMin, Zenon
<1>3. \A n \in numbers : ~(n < m)
  BY <1>2
<1>4. \A n \in numbers : m <= n
  BY <1>3
<1>5. QED
  BY <1>4

\* The line that a newline ends is the line of the newline's event.
EndsItsLine(i) ==
    /\ i - LineSize(file[i].event) \in Nat
    /\ HasLineAt(file, file[i].event, i - LineSize(file[i].event))

\* Where the newlines before place i end their lines, a cell before the last
\* of these newlines is of an event whose last cell is also before it.
LEMMA CellsOfWholeLines ==
    ASSUME TypeOK, CellInv, OrderInv,
           NEW a \in 1..Len(file), IsNewline(file, a),
           \A k \in 1..a : IsNewline(file, k) => EndsItsLine(k),
           NEW j \in 1..a, NEW i \in 1..Len(file), file[i].event = file[j].event
    PROVE  i <= a
<1>1. /\ Len(file) \in Nat
      /\ \A k \in 1..Len(file) : /\ file[k] \in Cell /\ file[k].event \in Events
                                 /\ file[k].pos \in Nat \ {0}
                                 /\ file[k].pos <= LineSize(file[k].event)
      /\ \A e \in Events : Size[e] \in Nat \ {0}
  <2>1. Len(file) \in Nat /\ \A k \in 1..Len(file) : file[k] \in Cell
    BY DEF TypeOK
  <2>2. QED
    BY <2>1, SizeAssumption DEF OrderInv, Cell
<1> DEFINE Ends == {k \in j..a : IsNewline(file, k)}
<1>2. PICK n \in Ends : \A k \in Ends : n <= k
  <2>1. Ends \in SUBSET Nat /\ a \in Ends
    BY <1>1
  <2>2. QED
    BY <2>1, LeastNumber
<1> DEFINE e == file[n].event
           size == LineSize(e)
           base == n - size
<1>3. /\ n \in 1..a /\ n \in 1..Len(file) /\ j <= n /\ e \in Events
      /\ size \in Nat \ {0} /\ base \in Nat /\ HasLineAt(file, e, base)
  <2>1. n \in 1..a /\ n \in 1..Len(file) /\ j <= n /\ IsNewline(file, n)
    BY <1>1, <1>2
  <2>2. EndsItsLine(n)
    BY <2>1
  <2>3. e \in Events /\ size \in Nat \ {0}
    BY <1>1, <2>1
  <2>4. QED
    BY <2>1, <2>2, <2>3 DEF EndsItsLine
<1>4. base < j
  <2>1. CASE base = 0
    BY <2>1, <1>1
  <2>2. CASE base # 0
    <3>1. IsNewline(file, base)
      BY <1>3, <2>2 DEF HasLineAt
    <3>2. base < n
      BY <1>3
    <3>3. base \notin Ends
      BY <1>2, <1>3, <3>2
    <3>4. base \in 1..a
      BY <1>1, <1>3, <2>2, <3>2
    <3>5. QED
      BY <1>1, <1>3, <3>1, <3>3, <3>4
  <2>3. QED
    BY <2>1, <2>2
<1>5. \A k \in 1..size : file[base + k] = [event |-> e, pos |-> k]
  BY <1>3 DEF HasLineAt
<1>6. file[j].event = e
  <2> DEFINE k == j - base
  <2>1. k \in 1..size /\ base + k = j
    <3>1. \A x, y, z, w \in Nat : w = y - z /\ w < x /\ x <= y =>
             x - w \in 1..z /\ w + (x - w) = x
      OBVIOUS
    <3>2. j \in Nat /\ n \in Nat /\ size \in Nat
      BY <1>1, <1>3
    <3> HIDE DEF e, size
    <3>3. QED
      BY <1>3, <1>4, <3>1, <3>2
  <2> HIDE DEF k, base, e, size
  <2>2. file[j] = [event |-> e, pos |-> k]
    BY <1>5, <2>1
  <2>3. QED
    BY <2>2
<1>7. i = base + file[i].pos
  <2> DEFINE k == file[i].pos
  <2>1. file[i] \in Cell /\ file[i].event = e /\ k \in 1..size
    BY <1>1, <1>6
  <2>2. base + k \in 1..Len(file)
    <3>1. \A x, y, z, w, l \in Nat : w = y - z /\ x \in 1..z /\ y <= l => w + x \in 1..l
      OBVIOUS
    <3>2. n \in Nat /\ n <= Len(file) /\ k \in Nat /\ k \in 1..size
      BY <1>1, <1>3, <2>1
    <3>3. size \in Nat /\ base \in Nat /\ Len(file) \in Nat /\ base = n - size
      BY <1>1, <1>3
    <3> HIDE DEF e, size, base, k
    <3>4. QED
      BY <3>1, <3>2, <3>3
  <2>3. file[i] = [event |-> e, pos |-> k]
    BY <2>1 DEF Cell
  <2>4. file[base + k] = file[i]
    BY <1>5, <2>1, <2>3
  <2>5. QED
    BY <2>2, <2>4 DEF CellInv
<1>8. file[i].pos <= size
  BY <1>1, <1>6
<1>9. file[i].pos \in Nat
  BY <1>1
<1>10. base + file[i].pos <= n
  BY <1>3, <1>8, <1>9
<1>11. QED
  BY <1>3, <1>7, <1>10, <1>1

-----------------------------------------------------------------------------
(* The theorems                                                            *)

LEMMA IInvStep == IInv /\ [Next]_vars => IInv'
  BY TypeStep, WriterStep, CellStep, LinesStep DEF IInv

\* The inductive invariant holds in every reachable state.
LEMMA Invariance == Spec => []IInv
<1>1. Init => IInv
  BY InitIInv
<1>2. IInv /\ [Next]_vars => IInv'
  BY IInvStep
<1>3. QED
  BY <1>1, <1>2, PTL DEF Spec

\* Every variable stays in its type: in particular a flush never appends
\* anything but cells of the event its thread is writing.
THEOREM TypeCorrect == Spec => []TypeOK
<1>1. IInv => TypeOK
  BY DEF IInv
<1>2. QED
  BY <1>1, Invariance, PTL

\* EventJsonlWriter.write: as long as every line fits the writer's buffer,
\* concurrent recorders, IOExceptions and killed JVMs tear no line, and the
\* events the analyzer reads are exactly those whose write succeeded.
THEOREM SmallEventsStayIntact == Spec => []SmallEventsIntact
<1>1. IInv => SmallEventsIntact
  BY WholeLinesAreRead DEF IInv, AllFit, SmallEventsIntact
<1>2. QED
  BY <1>1, Invariance, PTL

\* Whatever the sizes, the analyzer reads one recorded call at most once and
\* reads no call that was not recorded.
THEOREM NothingCountedTwice == Spec => []CountedOnce
<1>1. IInv => CountedOnce
  <2> SUFFICES ASSUME IInv, NEW e \in Events,
                      NEW a1 \in 1..Len(file), NEW a2 \in 1..Len(file),
                      Parses(file, a1, a1 + Size[e] - 1, e),
                      Parses(file, a2, a2 + Size[e] - 1, e)
               PROVE  a1 = a2 /\ e \in started
    BY DEF CountedOnce
  <2>1. Size[e] \in Nat \ {0} /\ Len(file) \in Nat
    BY SizeAssumption DEF IInv, TypeOK
  <2>2. /\ a1 \in a1..(a1 + Size[e] - 1)
        /\ a2 \in a2..(a2 + Size[e] - 1)
        /\ a1 - a1 + 1 = 1 /\ a2 - a2 + 1 = 1
    BY <2>1
  <2>3. /\ file[a1].event = e /\ file[a1].pos = 1
        /\ file[a2].event = e /\ file[a2].pos = 1
    BY <2>2 DEF Parses
  <2>4. file[a1] \in Cell /\ file[a2] \in Cell
    BY DEF IInv, TypeOK
  <2>5. file[a1] = file[a2]
    BY <2>3, <2>4 DEF Cell
  <2>6. QED
    BY <2>3, <2>5 DEF IInv, CellInv
<1>2. QED
  BY <1>1, Invariance, PTL

\* Whatever the sizes, a line that was once whole in the file is never torn
\* by a later append, drop or crash.
THEOREM LinesStoredForGood == Spec => StoredForGood
<1>1. IInv /\ [Next]_vars => [WholeLines(file) \subseteq WholeLines(file')]_vars
  <2> SUFFICES ASSUME IInv, Next
               PROVE  WholeLines(file) \subseteq WholeLines(file')
    OBVIOUS
  <2>1. CASE file' = file
    BY <2>1
  <2>2. ASSUME NEW t \in Threads, FlushBuffer(t)
        PROVE  WholeLines(file) \subseteq WholeLines(file')
    <3>1. /\ Len(file) \in Nat
          /\ Len(file') = Len(file) + ChunkSize(t)
          /\ ChunkSize(t) \in Nat
          /\ \A i \in 1..Len(file) : file'[i] = file[i]
      <4>1. TypeOK /\ WriterInv /\ writing[t] # NoEvent
        BY <2>2 DEF IInv, FlushBuffer
      <4>2. ChunkSize(t) \in Nat
        BY <4>1, ChunkFacts
      <4>3. Len(file) \in Nat
        BY <4>1 DEF TypeOK
      <4>4. QED
        BY <2>2, <4>1, <4>2, <4>3, FlushFacts
    <3>2. ASSUME NEW e \in Events,
                 NEW a \in 1..Len(file), NEW b \in 1..Len(file),
                 IsLine(file, a, b), Parses(file, a, b, e), b < Len(file)
          PROVE  /\ a \in 1..Len(file') /\ b \in 1..Len(file')
                 /\ IsLine(file', a, b) /\ Parses(file', a, b, e)
                 /\ b < Len(file')
      <4>1. /\ a \in 1..Len(file') /\ b \in 1..Len(file')
            /\ b < Len(file') /\ b # Len(file)
        BY <3>1, <3>2
      <4>2. \A i \in a..b : i \in 1..Len(file)
        BY <3>1
      <4>3. Parses(file', a, b, e)
        BY <3>1, <3>2, <4>2 DEF Parses
      <4>4. \A i \in a..b : ~IsNewline(file', i)
        BY <3>1, <3>2, <4>2 DEF IsLine, IsNewline
      <4>5. a = 1 \/ IsNewline(file', a - 1)
        <5>1. a = 1 \/ a - 1 \in 1..Len(file)
          BY <3>1
        <5>2. QED
          BY <3>1, <3>2, <5>1 DEF IsLine, IsNewline
      <4>6. IsNewline(file', b + 1)
        <5>1. b + 1 \in 1..Len(file)
          BY <3>1, <3>2
        <5>2. QED
          BY <3>1, <3>2, <4>1, <5>1 DEF IsLine, IsNewline
      <4>7. QED
        BY <4>1, <4>3, <4>4, <4>5, <4>6 DEF IsLine
    <3>3. QED
      BY <3>2 DEF WholeLines
  <2>3. CASE \E t \in Threads, e \in Events : BeginWrite(t, e)
    BY <2>1, <2>3 DEF BeginWrite
  <2>4. CASE \E t \in Threads : DropEvent(t)
    BY <2>1, <2>4 DEF DropEvent
  <2>5. CASE \E p \in Processes : CrashProcess(p)
    BY <2>1, <2>5 DEF CrashProcess
  <2>6. QED
    BY <2>2, <2>3, <2>4, <2>5 DEF Next
<1>2. QED
  BY <1>1, Invariance, PTL DEF Spec, StoredForGood

\* As long as every event written fits the buffer, the shared file is an
\* atomic record store: each step of the recorders is one Store of a whole
\* event, or nothing the analyzer can see.
THEOREM ImplementsRecordStore == Spec => StoreSpec
<1>1. Init => Store!Init
  <2>1. \A i \in 1..Len(<<>>) : FALSE
    OBVIOUS
  <2>2. QED
    BY <2>1 DEF Init, Store!Init, WholeLines
<1>2. IInv /\ AllFit => WholeLines(file) = acked
  BY WholeLinesAreRead DEF IInv, TypeOK
<1>3. (IInv /\ AllFit => WholeLines(file) = acked)'
  BY <1>2, PTL
<1>4. IInv /\ IInv' /\ [Next]_vars => [AllFit' => Store!Next]_(Store!vars)
  <2> SUFFICES ASSUME IInv, IInv', [Next]_vars
               PROVE  [AllFit' => Store!Next]_(Store!vars)
    OBVIOUS
  <2>1. ASSUME NEW t \in Threads, FlushBuffer(t), AllFit' PROVE Store!Next
    <3> DEFINE e == writing[t]
    <3>1. AllFit
      BY <2>1 DEF FlushBuffer, AllFit, FitsBuffer
    <3>2. WholeLines(file) = acked /\ WholeLines(file') = acked'
      BY <1>2, <1>3, <2>1, <3>1
    <3>3. /\ e \in Events
          /\ e \notin acked
          /\ FitsBuffer(e) /\ sent[t] = 0
      BY <2>1, <3>1, ChunkFacts
         DEF FlushBuffer, IInv, WriterInv, LinesInv, AllFit, TypeOK
    <3>4. acked' = acked \cup {e}
      BY <2>1, <3>3, WholeFlush DEF IInv
    <3>5. Store!Store(e)
      BY <3>2, <3>3, <3>4 DEF Store!Store
    <3>6. QED
      BY <3>3, <3>5 DEF Store!Next
  <2>2. ASSUME acked' = acked, file' = file PROVE UNCHANGED Store!vars
    BY <2>2 DEF Store!vars, WholeLines
  <2>3. CASE \E t \in Threads, e \in Events : BeginWrite(t, e)
    BY <2>2, <2>3 DEF BeginWrite
  <2>4. CASE \E t \in Threads : DropEvent(t)
    BY <2>2, <2>4 DEF DropEvent
  <2>5. CASE \E p \in Processes : CrashProcess(p)
    BY <2>2, <2>5 DEF CrashProcess
  <2>6. CASE UNCHANGED vars
    BY <2>2, <2>6 DEF vars
  <2>7. QED
    BY <2>1, <2>3, <2>4, <2>5, <2>6 DEF Next
<1>5. QED
  BY <1>1, <1>4, Invariance, PTL DEF Spec, StoreSpec

-----------------------------------------------------------------------------
(* Losses show                                                             *)

\* In a file without an invalid line every newline ends the line of its
\* event: by the least newline that does not.
LEMMA NewlinesEndLines ==
    ASSUME TypeOK, CellInv, OrderInv, InvalidLines(file) = {},
           NEW i \in 1..Len(file), IsNewline(file, i)
    PROVE  EndsItsLine(i)
<1>1. /\ Len(file) \in Nat
      /\ \A k \in 1..Len(file) : /\ file[k] \in Cell /\ file[k].event \in Events
                                 /\ file[k].pos \in Nat \ {0}
      /\ \A e \in Events : Size[e] \in Nat \ {0}
  <2>1. Len(file) \in Nat /\ \A k \in 1..Len(file) : file[k] \in Cell
    BY DEF TypeOK
  <2>2. QED
    BY <2>1, SizeAssumption DEF Cell
<1> DEFINE Wrong == {k \in 1..Len(file) : IsNewline(file, k) /\ ~EndsItsLine(k)}
<1>2. SUFFICES ASSUME Wrong # {} PROVE FALSE
  OBVIOUS
<1>3. PICK n \in Wrong : \A k \in Wrong : n <= k
  <2>1. Wrong \in SUBSET Nat
    BY <1>1
  <2>2. QED
    BY <1>2, <2>1, LeastNumber
<1>4. /\ n \in 1..Len(file) /\ n \in Nat \ {0} /\ IsNewline(file, n) /\ ~EndsItsLine(n)
      /\ \A k \in 1..(n - 1) : IsNewline(file, k) => EndsItsLine(k)
  <2>1. n \in 1..Len(file) /\ n \in Nat \ {0} /\ IsNewline(file, n) /\ ~EndsItsLine(n)
    BY <1>1, <1>3
  <2>2. ASSUME NEW k \in 1..(n - 1), IsNewline(file, k) PROVE EndsItsLine(k)
    <3>1. k \in 1..Len(file) /\ ~(n <= k)
      BY <1>1, <2>1
    <3>2. QED
      BY <1>3, <2>2, <3>1
  <2>3. QED
    BY <2>1, <2>2
<1> DEFINE e == file[n].event
<1>5. e \in Events /\ file[n].pos = LineSize(e) /\ Size[e] \in Nat \ {0}
  BY <1>1, <1>4 DEF IsNewline
\* The line before n starts at a.
<1> DEFINE Starts == {x \in 1..n : \A k \in x..(n - 1) : ~IsNewline(file, k)}
<1>6. PICK a \in Starts : \A x \in Starts : a <= x
  <2>1. n \in Starts
    BY <1>4
  <2>2. Starts \in SUBSET Nat
    BY <1>4
  <2>3. QED
    BY <2>1, <2>2, LeastNumber
<1>7. /\ a \in 1..n /\ a \in Nat \ {0} /\ \A k \in a..(n - 1) : ~IsNewline(file, k)
      /\ a = 1 \/ IsNewline(file, a - 1)
  <2>1. a \in 1..n /\ a \in Nat \ {0} /\ \A k \in a..(n - 1) : ~IsNewline(file, k)
    BY <1>4, <1>6
  <2>2. ASSUME a # 1 PROVE IsNewline(file, a - 1)
    <3>1. a - 1 \in 1..n /\ ~(a <= a - 1)
      BY <1>4, <2>1, <2>2
    <3>2. a - 1 \notin Starts
      BY <1>6, <3>1
    <3>3. PICK k \in (a - 1)..(n - 1) : IsNewline(file, k)
      BY <3>1, <3>2
    <3>4. k = a - 1 \/ k \in a..(n - 1)
      BY <1>4, <2>1
    <3>5. QED
      BY <2>1, <3>3, <3>4
  <2>3. QED
    BY <2>1, <2>2
\* What is at a or after it began there.
<1>8. ASSUME NEW i1 \in a..n, NEW j \in 1..Len(file), file[j].event = file[i1].event
      PROVE  a <= j
  <2> SUFFICES ASSUME j < a PROVE FALSE
    BY <1>1, <1>7
  <2>1. /\ i1 \in 1..Len(file) /\ a - 1 \in 1..Len(file) /\ j \in 1..(a - 1)
        /\ ~(i1 <= a - 1)
    BY <1>1, <1>4, <1>7
  <2>2. IsNewline(file, a - 1)
    BY <1>7, <2>1
  <2>3. \A k \in 1..(a - 1) : IsNewline(file, k) => EndsItsLine(k)
    BY <1>4, <1>7
  <2>4. i1 <= a - 1
    BY <1>8, <2>1, <2>2, <2>3, CellsOfWholeLines
  <2>5. QED
    BY <2>1, <2>4
<1>9. ASSUME NEW i1 \in a..n, NEW p \in 1..file[i1].pos
      PROVE  \E j \in a..i1 : file[j].event = file[i1].event /\ file[j].pos = p
  <2>1. i1 \in 1..Len(file) /\ i1 \in Nat
    BY <1>1, <1>4, <1>7
  <2>2. CASE p = file[i1].pos
    BY <1>7, <2>1, <2>2
  <2>3. CASE p # file[i1].pos
    <3>1. file[i1].pos \in Nat
      BY <1>1, <2>1
    <3>2. p \in 1..(file[i1].pos - 1)
      BY <2>3, <3>1
    <3>3. PICK j \in 1..(i1 - 1) : file[j].event = file[i1].event /\ file[j].pos = p
      BY <2>1, <3>2 DEF OrderInv, Before
    <3>4. j \in 1..Len(file)
      BY <1>1, <2>1
    <3>5. a <= j
      BY <1>8, <3>3, <3>4
    <3>6. j \in a..i1
      BY <1>7, <2>1, <3>5
    <3>7. QED
      BY <3>3, <3>6
  <2>4. QED
    BY <2>2, <2>3
\* The newline has its event's text before it: the line is not blank.
<1>10. PICK first \in a..n : file[first].event = e /\ file[first].pos = 1
  <2>1. n \in a..n /\ 1 \in 1..file[n].pos
    BY <1>4, <1>5, <1>7
  <2>2. QED
    BY <1>9, <2>1
<1>11. first \in a..(n - 1) /\ a <= n - 1
  <2>1. first # n
    BY <1>5, <1>10
  <2>2. QED
    BY <1>4, <1>7, <1>10, <2>1
<1>12. PICK g \in Events : Parses(file, a, n - 1, g)
  <2>1. a \in 1..Len(file) /\ n - 1 \in a..Len(file)
    BY <1>1, <1>4, <1>7, <1>11
  <2>2. IsLine(file, a, n - 1)
    <3>1. n - 1 + 1 = n
      BY <1>4
    <3>2. QED
      BY <1>4, <1>7, <3>1 DEF IsLine
  <2>3. \A i1 \in a..(n - 1) : \E j \in a..i1 :
            file[j].event = file[i1].event /\ file[j].pos = 1
    <3> SUFFICES ASSUME NEW i1 \in a..(n - 1)
                 PROVE  \E j \in a..i1 : file[j].event = file[i1].event /\ file[j].pos = 1
      OBVIOUS
    <3>1. i1 \in a..n /\ i1 \in 1..Len(file)
      BY <1>1, <1>4, <1>7
    <3>2. 1 \in 1..file[i1].pos
      BY <1>1, <3>1
    <3>3. QED
      BY <1>9, <3>1, <3>2
  <2>4. a \notin InvalidLines(file)
    OBVIOUS
  <2>5. QED
    BY <2>1, <2>2, <2>3, <2>4 DEF InvalidLines
<1>13. g = e /\ n - 1 = a + Size[e] - 1
  BY <1>10, <1>11, <1>12 DEF Parses
<1> DEFINE base == a - 1
<1>14. base \in Nat /\ n = base + LineSize(e) /\ n - LineSize(e) = base
  BY <1>4, <1>5, <1>7, <1>13
<1> HIDE DEF e
<1>15. ASSUME NEW k \in 1..LineSize(e)
       PROVE  file[base + k] = [event |-> e, pos |-> k]
  <2> DEFINE size == LineSize(e)
  <2>0. /\ size \in Nat /\ k \in 1..size /\ n = base + size
        /\ a = base + 1 /\ base \in Nat /\ n \in 1..Len(file) /\ Len(file) \in Nat
    <3>1. size \in Nat /\ k \in 1..size
      BY <1>5
    <3>2. n = base + size /\ base \in Nat
      BY <1>14
    <3>3. a = base + 1
      BY <1>7
    <3>4. n \in 1..Len(file) /\ Len(file) \in Nat
      BY <1>1, <1>4
    <3> HIDE DEF base, size
    <3>5. QED
      BY <3>1, <3>2, <3>3, <3>4
  <2> HIDE DEF base, size
  <2>1. base + k \in 1..Len(file) /\ base + k \in a..n
    BY <2>0
  <2>2. file[base + k].event = e /\ file[base + k].pos = k
    <3>1. CASE k = LineSize(e)
      BY <1>5, <1>14, <3>1 DEF e
    <3>2. CASE k # LineSize(e)
      <4>1. base + k \in a..(n - 1) /\ base + k - a + 1 = k
        BY <2>0, <3>2 DEF size
      <4>2. QED
        BY <1>12, <1>13, <2>0, <4>1 DEF Parses
    <3>3. QED
      BY <3>1, <3>2
  <2>3. file[base + k] \in Cell
    BY <1>1, <2>1
  <2>4. QED
    BY <2>2, <2>3 DEF Cell
<1>16. HasLineAt(file, e, base)
  <2>1. base + LineSize(e) <= Len(file)
    BY <1>1, <1>4, <1>14
  <2>2. base = 0 \/ IsNewline(file, base)
    BY <1>7
  <2>3. QED
    BY <1>15, <2>1, <2>2 DEF HasLineAt
<1>17. EndsItsLine(n)
  BY <1>14, <1>16 DEF EndsItsLine, e
<1>18. QED
  BY <1>4, <1>17

\* GATE-04, whatever the sizes of events, the interleaving of flushes, the
\* drops and the crashes: an event whose write succeeded is read, or the
\* reader finds an invalid line, on which the report fails.
THEOREM LossesShow == Spec => []NoSilentLoss
<1>1. Init => OrderInv
  <2>1. \A i \in 1..Len(<<>>) : FALSE
    OBVIOUS
  <2>2. QED
    BY <2>1 DEF Init, OrderInv
<1>2. IInv /\ OrderInv /\ [Next]_vars => OrderInv'
  BY OrderStep DEF IInv
<1>3. IInv /\ OrderInv => NoSilentLoss
  <2> SUFFICES ASSUME IInv, OrderInv, InvalidLines(file) = {}, NEW e \in acked
               PROVE  e \in ReadItems(file)
    BY DEF NoSilentLoss
  <2>1. PICK i \in 1..Len(file) : file[i].event = e /\ file[i].pos = LineSize(e)
    BY DEF OrderInv, Before
  <2>2. IsNewline(file, i)
    BY <2>1 DEF IsNewline
  <2>3. EndsItsLine(i)
    BY <2>2, NewlinesEndLines DEF IInv
  <2>4. e \in Events /\ i - LineSize(e) \in Nat /\ HasLineAt(file, e, i - LineSize(e))
    BY <2>1, <2>3 DEF EndsItsLine, IInv, TypeOK
  <2>5. QED
    BY <2>4, LineIsRead DEF IInv
<1>4. QED
  BY <1>1, <1>2, <1>3, Invariance, PTL DEF Spec

=============================================================================
