-------------------------- MODULE MCReportCommand --------------------------
(* Small instances of ReportCommand: specifications of one or two          *)
(* operations, every set of observed ones, at most one defect of the       *)
(* evidence, and policies that differ in profile, thresholds, critical     *)
(* operations and exclusions.                                              *)
EXTENDS ReportCommand

CONSTANTS get, post

MCOperations == {get, post}

NoFile == [profile |-> Unset, minCoverage |-> Unset, minAggregate |-> Unset,
           aggregateEnabled |-> Unset, failOnRegression |-> Unset,
           critical |-> {}, rules |-> {}]

NoOptions == [profile |-> Unset, minCoverage |-> Unset,
              minAggregate |-> Unset, failOnRegression |-> FALSE,
              critical |-> {}, rules |-> {}]

Drops(o, override) == [matches |-> {o}, override |-> override]

Configurations ==
    { \* the defaults of ci
      [file |-> NoFile, cli |-> NoOptions],
      \* local, where only what an option asks for is enforced
      [file |-> [NoFile EXCEPT !.profile = "local", !.minCoverage = 50],
       cli |-> [NoOptions EXCEPT !.failOnRegression = TRUE]],
      \* a critical operation that one rule cannot drop
      [file |-> [NoFile EXCEPT !.failOnRegression = FALSE],
       cli |-> [NoOptions EXCEPT !.minCoverage = 50, !.critical = {get},
                                 !.rules = {Drops(get, FALSE)}]],
      \* ... and that another one does
      [file |-> [NoFile EXCEPT !.critical = {get}, !.minCoverage = 50,
                               !.rules = {Drops(get, TRUE)}],
       cli |-> NoOptions] }

NoDefect == [invalidLines |-> FALSE, ambiguous |-> FALSE,
             conformanceFails |-> FALSE]

Defects ==
    { NoDefect,
      [NoDefect EXCEPT !.invalidLines = TRUE],
      [NoDefect EXCEPT !.ambiguous = TRUE],
      [NoDefect EXCEPT !.conformanceFails = TRUE] }

Input(c, d, operations, observed, compare, update, aggregate) ==
    [file |-> c.file, cli |-> c.cli, operations |-> operations,
     observed |-> observed, compare |-> compare, update |-> update,
     aggregate |-> aggregate, invalidLines |-> d.invalidLines,
     ambiguous |-> d.ambiguous, conformanceFails |-> d.conformanceFails]

\* What a run may do with the baseline file.
BaselineUses == {<<TRUE, TRUE>>, <<TRUE, FALSE>>, <<FALSE, TRUE>>}

\* Runs without a defect, on the whole specification or on one that has lost
\* an operation, and defective ones in which all else is well.
MCInputs ==
    { Input(c, NoDefect, MCOperations, observed, use[1], use[2], Unset) :
        c \in Configurations, observed \in SUBSET MCOperations,
        use \in BaselineUses }
    \cup
    { Input([file |-> NoFile, cli |-> NoOptions], NoDefect, {get}, observed,
            TRUE, TRUE, Unset) : observed \in SUBSET {get} }
    \cup
    { Input([file |-> NoFile, cli |-> NoOptions], d, MCOperations,
            MCOperations, TRUE, TRUE, Unset) : d \in Defects }
    \cup
    \* the aggregate gate, enabled by the file or by an option
    { Input([file |-> [NoFile EXCEPT !.aggregateEnabled = enabled],
             cli |-> [NoOptions EXCEPT !.minAggregate = minimum]],
            NoDefect, {get}, {get}, FALSE, TRUE, aggregate) :
        enabled \in {TRUE, Unset}, minimum \in {60, Unset},
        aggregate \in {70, Unset} }

=============================================================================
