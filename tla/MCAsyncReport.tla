--------------------------- MODULE MCAsyncReport ---------------------------
(* Small instances of AsyncReport: documents of one or two operations and  *)
(* up to two messages, every small set of events from a pool that hits and *)
(* misses each rule, and every kind of source.                             *)
EXTENDS AsyncReport, TLC

CONSTANTS orders, refunds, type, corr, x, y, good, bad

MCHeaderRank == [h \in {type, corr} |-> IF h = corr THEN 0 ELSE 1]
MCSchemaIds == {"schema", "headerSchema", "anonymous"}
MCOperations ==
    [kind : SupportedProtocols, action : Actions, channel : {orders, refunds}]

-----------------------------------------------------------------------------
(* Documents                                                               *)

NoBindings == [location |-> "absent", encoding |-> "absent", lookup |-> "absent"]

Schema(id) == [id |-> id, compiles |-> TRUE, admits |-> {good}]

\* A header schema that requires a correlation id and fixes the type.
Fixed(id, value) ==
    [id |-> id, compiles |-> TRUE, required |-> {corr},
     admits |-> (type :> {value})]

Plain(name) ==
    [name |-> name, contentType |-> "json", payload |-> None,
     headers |-> None, correlation |-> None]

Message(contract) == [contract |-> contract, bindings |-> NoBindings]

\* A node with these messages, of which some may have the same contract.
Node(action, channel, messages) ==
    [object |-> TRUE, action |-> action, address |-> channel, ref |-> None,
     messages |-> messages, reply |-> None,
     channelBindings |-> [topic |-> "absent"]]

Document(protocol, nodes) ==
    [object |-> TRUE, version |-> "3", servers |-> {protocol},
     channels |-> TRUE, operations |-> TRUE,
     addresses |-> [c \in Channels |-> IF c = refunds THEN orders ELSE None],
     nodes |-> nodes]

Created(value) ==
    [Plain("created") EXCEPT !.payload = Schema("schema"),
                             !.headers = Fixed("headerSchema", value)]

\* Two messages of one name, told apart by a header, and a correlation id.
TwoMessages ==
    Document("kafka",
        << Node("send", orders,
                <<Message([Created(x) EXCEPT !.correlation = corr]),
                  Message(Created(y))>>) >>)

\* Two messages of different names, and an operation without messages whose
\* reply is declared.  The second node of send orders is passed over.
NamedMessages ==
    Document("kafka",
        << Node("send", orders, <<Message(Created(x)),
                                  Message([Plain("deleted") EXCEPT
                                              !.payload = Schema("anonymous"),
                                              !.correlation = corr])>>),
           [Node("receive", None, None) EXCEPT
               !.ref = refunds, !.reply = [location |-> corr, channel |-> x]],
           Node("send", orders, <<Message(Plain("other"))>>) >>)

\* One message of another protocol, where proofs are not asked for.
RabbitMessage ==
    [Document("amqp",
        << Node("receive", orders,
                <<Message([Plain("created") EXCEPT !.payload = Schema("schema"),
                                                   !.correlation = "nested"])>>) >>)
     EXCEPT !.version = "2"]

\* Messages that nothing tells apart, so that the operation has no contract.
Ambiguous ==
    Document("kafka",
        << Node("send", orders, <<Message(Plain("created")),
                                  Message(Created(x))>>) >>)

\* Schemas that cannot be used.
Unusable(contract) ==
    Document("kafka", << Node("send", orders, <<Message(contract)>>) >>)

NoOperations == Document("jms", <<>>)

Invalid ==
    { [NoOperations EXCEPT !.object = FALSE],
      [NoOperations EXCEPT !.version = None],
      [NoOperations EXCEPT !.version = "4"],
      [NoOperations EXCEPT !.servers = {"jms", "malformed"}],
      [NoOperations EXCEPT !.servers = {"jms", "kafka"}],
      [NoOperations EXCEPT !.operations = FALSE] }
    \cup
    { Document("kafka", <<[Node("send", orders, <<Message(Plain("created"))>>)
                             EXCEPT !.address = a, !.ref = None, !.messages = m,
                                    !.channelBindings = [topic |-> t], !.reply = r]>>) :
        <<a, m, t, r>> \in
          { <<None, None, "absent", None>>,
            <<orders, <<>>, "absent", None>>,
            <<orders, <<Message(Plain(None))>>, "absent", None>>,
            <<orders, None, "blank", None>>,
            <<orders, None, "absent", [location |-> "malformed", channel |-> None]>>,
            <<orders, <<Message([Plain("created") EXCEPT !.correlation = "malformed"])>>,
              "absent", None>>,
            <<orders, <<[contract |-> Plain("created"),
                         bindings |-> [NoBindings EXCEPT !.location = "payload"]]>>,
              "absent", None>> } }

-----------------------------------------------------------------------------
(* Evidence                                                                *)

Event(kind, action, message, payload, t, c) ==
    [form |-> "event",
     event |-> [kind |-> kind, action |-> action, channel |-> orders,
                message |-> message, payload |-> payload,
                headers |-> (type :> t @@ corr :> c)]]

Sent(message, payload, t, c) == Event("kafka", "send", message, payload, t, c)

Line(form) == [form |-> form, event |-> None]

TwoMessagesPool ==
    { Sent("created", good, x, x), Sent(None, good, y, x),
      Sent("created", good, "unavailable", x), Sent(None, good, x, "unavailable"),
      Sent("created", bad, y, x), Sent("created", good, y, "empty") }

Replied == Event("kafka", "receive", None, None, "absent", x)

NamedMessagesPool ==
    { Sent("created", good, x, x), Sent("deleted", bad, "absent", x),
      Sent("deleted", bad, "absent", "unavailable"),
      Sent("other", good, x, x), Sent("created", None, x, x),
      Replied, Event("kafka", "receive", None, None, "absent", y) }

RabbitPool ==
    { Event("amqp", "receive", None, good, "absent", "absent"),
      Event("amqp", "receive", "deleted", good, "absent", "absent"),
      Event("amqp", "send", None, good, "absent", "absent"), Line("malformed") }

OthersPool == { Sent("created", good, x, x) }

UnusableContracts ==
    { [Plain("created") EXCEPT !.payload = Schema("schema"), !.contentType = "other"],
      [Plain("created") EXCEPT !.payload = [Schema("schema") EXCEPT !.compiles = FALSE]],
      [Plain("created") EXCEPT
          !.headers = [Fixed("headerSchema", x) EXCEPT !.compiles = FALSE]],
      [Plain("created") EXCEPT !.correlation = "nested"] }

UpTo(n, pool) == {s \in SUBSET pool : Cardinality(s) <= n}

-----------------------------------------------------------------------------
(* Policies and inputs                                                     *)

NoFile == [profile |-> Unset, minCoverage |-> Unset, minAggregate |-> Unset,
           aggregateEnabled |-> Unset, failOnRegression |-> Unset,
           critical |-> {}, rules |-> {}]

NoOptions == [profile |-> Unset, minCoverage |-> Unset,
              minAggregate |-> Unset, failOnRegression |-> FALSE,
              critical |-> {}, rules |-> {}]

SendOrders == [kind |-> "kafka", action |-> "send", channel |-> orders]

\* The defaults of ci; local; and local with a critical operation and a
\* threshold that is enforced because an option sets it.
Defaults == [file |-> NoFile, cli |-> NoOptions]
Local == [file |-> [NoFile EXCEPT !.profile = "local"], cli |-> NoOptions]
Critical ==
    [file |-> [NoFile EXCEPT !.profile = "local", !.critical = {SendOrders}],
     cli |-> NoOptions]
Half ==
    [file |-> [NoFile EXCEPT !.profile = "local"],
     cli |-> [NoOptions EXCEPT !.minCoverage = 50]]

Input(c, spec, doc, lines) ==
    [file |-> c.file, cli |-> c.cli, spec |-> spec, doc |-> doc, lines |-> lines]

OneGood == { Event("amqp", "receive", None, good, "absent", "absent") }

MCInputs ==
    { Input(Defaults, "file", TwoMessages, lines) :
        lines \in UpTo(2, TwoMessagesPool) }
    \cup
    { Input(c, "file", NamedMessages, lines) :
        c \in {Defaults, Critical, Half}, lines \in UpTo(1, NamedMessagesPool) }
    \cup
    { Input(Defaults, "file", NamedMessages, lines \cup {Replied}) :
        lines \in UpTo(2, NamedMessagesPool) }
    \cup
    { Input(c, "file", RabbitMessage, lines) :
        c \in {Defaults, Local}, lines \in UpTo(2, RabbitPool) }
    \cup
    { Input(Defaults, "directory", doc, lines) :
        doc \in {Ambiguous, NoOperations} \cup {Unusable(c) : c \in UnusableContracts},
        lines \in SUBSET OthersPool }
    \cup
    { Input(Defaults, "file", doc, {}) : doc \in Invalid }
    \cup
    { Input(Defaults, "file", RabbitMessage, OneGood \cup {Line(form)}) :
        form \in {"null", "foreign"} }
    \cup
    { Input(Defaults, spec, RabbitMessage, OneGood) :
        spec \in LocalSpecs \cup RefusedUrls \cup RemoteSpecs }

=============================================================================
