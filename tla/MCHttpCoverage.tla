---------------------------- MODULE MCHttpCoverage ----------------------------
(***************************************************************************)
(* Three small specifications: a template with a literal beside it and a   *)
(* second method; templates that overlap, and one declared twice; a route  *)
(* written with a capital.  And specifications that are refused.           *)
(***************************************************************************)
EXTENDS HttpSummary

MCParameters == {"{id}", "{kind}", "{param}"}

MCCaseFold ==
    [s \in {"users", "me", "reports", "2024", "%ff"} \cup MCParameters |-> s]
        @@ ("Users" :> "users")

Path(segments) == [segments |-> segments, slash |-> FALSE]

Code(n)  == [type |-> "code", value |-> n]
StatusRange(n) == [type |-> "range", value |-> n]
Default  == [type |-> "default", value |-> 0]

Parameter(in, name, required) == [in |-> in, name |-> name, required |-> required]

\* The node of an operation.  6XX is no range, and the parameter without a
\* name is none.
Node(statuses, parameters) ==
    [object |-> TRUE, security |-> Undefined,
     statuses |-> statuses \cup {StatusRange(6)},
     parameters |-> <<Parameter("query", Undefined, TRUE)>> \o parameters]

Get == Node({Code(200), StatusRange(4), Default}, <<>>)

\* The operation takes the query parameter of its item for required.
GetById == Node({Code(200), StatusRange(4), Default},
                <<Parameter("query", "q", TRUE), Parameter("header", "x-id", FALSE)>>)

Item(segments, parameters, nodes) ==
    [object |-> TRUE, rooted |-> TRUE, route |-> Path(segments),
     parameters |-> parameters, operations |-> nodes]

ById == <<Parameter("path", "id", FALSE), Parameter("query", "q", FALSE),
          Parameter("cookie", "sid", TRUE)>>

Document(items) ==
    [paths |-> TRUE,
     schemes |-> [s \in {"key", "bare"} |->
                     IF s = "key" THEN "usable" ELSE "incomplete"],
     security |-> {}, items |-> items]

Requires(scheme, scopes) == {{[scheme |-> scheme, scopes |-> scopes]}}

Users ==
    Document(<<Item(<<"users", "{id}">>, ById,
                    "GET" :> [GetById EXCEPT !.security = Requires("key", TRUE)] @@
                    "POST" :> Node({}, <<Parameter("query", "q", TRUE)>>)),
               Item(<<"users", "me">>, <<>>, "GET" :> Get)>>)

\* The last item declares the operation of the first one again, otherwise:
\* neither its status nor its security counts.
Reports ==
    Document(<<Item(<<"reports", "{id}">>, ById, "GET" :> GetById),
               Item(<<"{kind}", "2024">>, ById, "GET" :> GetById),
               Item(<<"{kind}", "{id}">>, ById, "GET" :> GetById),
               Item(<<"reports", "{kind}">>, <<>>,
                    "GET" :> [Node({Code(201)}, <<>>) EXCEPT
                                 !.security = Requires("none", TRUE)])>>)

Capital == Document(<<Item(<<"Users", "{id}">>, ById, "GET" :> GetById)>>)

\* Documents that are refused, each for one reason.
Refused ==
    LET Of(item) == Document(<<item>>)
        me == Item(<<"users", "me">>, <<>>, "GET" :> Get)
        Secured(security) ==
            Of([me EXCEPT !.operations["GET"].security = security])
    IN  { [Of(me) EXCEPT !.paths = FALSE],
          [Of(me) EXCEPT !.schemes["key"] = "malformed"],
          [Of(me) EXCEPT !.security = Malformed],
          Of([me EXCEPT !.object = FALSE]),
          Of([me EXCEPT !.rooted = FALSE]),
          Of([me EXCEPT !.operations = @ @@ "PUT" :> [object |-> FALSE]]),
          Secured({Malformed}), Secured(Requires("none", TRUE)),
          Secured(Requires("bare", TRUE)), Secured(Requires("key", FALSE)) }

MCDocuments == {Users, Reports, Capital} \cup Refused

\* What the conformance passes find: nothing wrong, unless said otherwise.
Fine == [request |-> None, response |-> "VALID", parameter |-> "captured-valid",
         security |-> "satisfied"]

Event(m, route, status, suite) ==
    [method |-> m, route |-> route, status |-> status, suite |-> suite,
     queryKeys |-> IF status = 200 THEN {"q"} ELSE {}, headerKeys |-> {},
     found |-> Fine]

PlainEvents ==
    {Event("GET", Path(<<"users", "{id}">>), 200, "s1"),
     [Event("POST", Path(<<"users", "{id}">>), 500, "s1")
         EXCEPT !.found.request = "RECORDER_OMITTED"],
     [Event("GET", Path(<<"users", "me">>), 404, "s1")
         EXCEPT !.found.response = "NO_DECLARED_CONTENT"],
     Event("GET", Path(<<"reports", "{id}">>), 200, "s2"),
     Event("GET", Path(<<"reports", "2024">>), 404, "s1"),
     Event("GET", Path(<<"reports", "{param}">>), 500, "s2"),
     Event("GET", Path(<<"{kind}", "2024">>), 200, "s1")}

\* Calls that conform to their contract no more.
FaultyEvents ==
    {[Event("GET", Path(<<"users", "{id}">>), 200, "s2")
         EXCEPT !.found.response = "INVALID_BODY", !.found.security = "missing"],
     [Event("GET", Path(<<"reports", "{id}">>), 200, "s2")
         EXCEPT !.found.parameter = "captured-invalid"]}

MCEvents ==
    PlainEvents \cup FaultyEvents \cup
    {Event("GET", Path(<<"Users", "me">>), 200, "s1"),
     Event("GET", [Path(<<"users", "me">>) EXCEPT !.slash = TRUE], 404, "s2"),
     Event("GET", Path(<<"users", "%ff">>), 200, "s1")}

MCPayloadCode(target, o, event) == event.found[target]

\* Every operation under a template but POST declares the query parameter q.
MCParameterTruths(o, event) ==
    [p \in {q \in event.queryKeys : IsTemplate(o.route)} |-> event.found.parameter]

\* GET /users/{param} is the operation with a security requirement.
MCSecurityTruth(o, event) ==
    IF o = CanonicalOperation([method |-> "GET", route |-> Path(<<"users", "{id}">>)])
    THEN event.found.security ELSE None

\* What ResolvePolicy makes of the profile ci, and of local with a critical
\* operation.
MCPolicies ==
    LET nothing == [profile |-> Undefined, minCoverage |-> Undefined,
                    minAggregate |-> Undefined, aggregateEnabled |-> Undefined,
                    failOnRegression |-> Undefined, critical |-> {}, rules |-> {}]
        local == [nothing EXCEPT
                     !.profile = "local",
                     !.critical = {[method |-> "GET", route |-> Path(<<"users", "me">>)]}]
    IN  {Gates!ResolvePolicy(nothing, [nothing EXCEPT !.failOnRegression = FALSE]),
         Gates!ResolvePolicy(local, [nothing EXCEPT !.failOnRegression = FALSE])}

=============================================================================
