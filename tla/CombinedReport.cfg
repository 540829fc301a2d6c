\* Any number of runs; removals may fail.
SPECIFICATION FairSpec
INVARIANTS
    ArtifactsMatchExit
PROPERTIES
    EveryRunEnds
