--------------------------- MODULE MCJmsRecorder ---------------------------
(* Small instances of JmsRecorder: callers of two tests and an application *)
(* that sets a header of its own.                                          *)
EXTENDS JmsRecorder, TLC

CONSTANTS runA, runB, suiteA, suiteX

MCRuns == {runA, runB}
MCSuites == {suiteA, suiteX}
TwoTests == {[run |-> runA, suite |-> suiteA], [run |-> runB, suite |-> Null]}
MCHeaders == {NoHeaders, [run |-> Unreadable, suite |-> suiteX]}
OneCaller == {[run |-> runA, suite |-> suiteA]}
NoHeadersSet == {NoHeaders}

\* Calls that name their destination, or send an object to the default one.
NamedCalls == {<<"Name", "Text">>, <<"Object", "PostProcessor">>}

\* A text for the default destination, with a post-processor.
DefaultTextPostProcessed == {<<"Text", "PostProcessor">>}

MessageSymmetry == Permutations(Messages)

=============================================================================
