--------------------------- MODULE MCAmqpRecorder ---------------------------
(* Small instances of AmqpRecorder: two tests with metadata of their own,  *)
(* and messages without headers, with an explicit suite, or with a run     *)
(* header that does not read.                                              *)
EXTENDS AmqpRecorder, TLC

CONSTANTS runA, runB, suiteA, suiteB, suiteX

MCRuns == {runA, runB}
MCSuites == {suiteA, suiteB, suiteX}

TwoTests == {[run |-> runA, suite |-> suiteA], [run |-> runB, suite |-> suiteB]}

MCHeaders == {NoHeaders, [run |-> Unreadable, suite |-> suiteX]}

PlainHeaders == {NoHeaders}

MessageSymmetry == Permutations(Messages)

=============================================================================
