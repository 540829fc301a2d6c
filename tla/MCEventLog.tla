----------------------------- MODULE MCEventLog -----------------------------
(* Small instances of EventLog.  Three cells fit the buffer, and the sizes *)
(* lie around that limit: eFits and eEdge go out in one flush, eEdge just  *)
(* so, eLong fills the buffer so that its newline is flushed alone, and    *)
(* the text of eLong2 is split in three.                                   *)
EXTENDS EventLog, TLC

CONSTANTS t1, t2, t3, p1, p2, eFits, eEdge, eLong, eLong2

MCProcessOf == (t1 :> p1) @@ (t2 :> p1) @@ (t3 :> p2)

MCSize ==
    (eFits :> 1) @@ (eEdge :> 2) @@ (eLong :> 3) @@ (eLong2 :> 7)

MixedSize == [e \in Events |-> MCSize[e]]

\* Two threads of one JVM are alike.
ThreadSymmetry == Permutations({t1, t2})

=============================================================================
