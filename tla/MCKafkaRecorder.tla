-------------------------- MODULE MCKafkaRecorder --------------------------
(* Small instances of KafkaRecorder: two tests, one of which has no suite, *)
(* and records without headers or with an explicit suite and a run header  *)
(* that does not read.                                                     *)
EXTENDS KafkaRecorder

CONSTANTS runA, runB, suiteA, suiteX

MCRuns == {runA, runB}
MCSuites == {suiteA, suiteX}

TwoTests == {[run |-> runA, suite |-> suiteA], [run |-> runB, suite |-> Null]}

MCHeaders == {NoHeaders, [run |-> Unreadable, suite |-> suiteX]}

=============================================================================
