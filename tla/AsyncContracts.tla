--------------------------- MODULE AsyncContracts ---------------------------
(***************************************************************************)
(* What buildAsyncApiSemantics makes of an AsyncAPI document: one contract *)
(* for each operation that can be normalised, and diagnostics for the      *)
(* others.                                                                 *)
(*                                                                         *)
(* A document has the nodes of its operations in a sequence, in the order  *)
(* in which they are walked: the publish and subscribe of every channel    *)
(* (version 2) or the operations object (version 3).  A message is a       *)
(* record [contract, bindings].  Texts that the code trims are trimmed     *)
(* here, and a blank one is None.                                          *)
(***************************************************************************)
EXTENDS Naturals, Sequences

CONSTANTS
    Channels,     \* channel addresses and names
    Headers,      \* message header keys
    HeaderRank,   \* their order under localeCompare
    Values,       \* header values
    None          \* what is undefined or unusable

ASSUME HeaderRankAssumption ==
    /\ HeaderRank \in [Headers -> Nat]
    /\ \A g, h \in Headers : HeaderRank[g] = HeaderRank[h] => g = h

ASSUME NoneAssumption == None \notin Channels \cup Headers \cup Values

SupportedProtocols == {"amqp", "kafka", "jms"}
Actions == {"send", "receive"}

-----------------------------------------------------------------------------
(* Messages                                                                *)

\* The value that const, or an enum of one text, fixes for a header.
HeaderHint(contract, header) ==
    IF /\ contract.headers # None
       /\ header \in DOMAIN contract.headers.admits
       /\ \E v \in Values : contract.headers.admits[header] = {v}
    THEN CHOOSE v \in Values : contract.headers.admits[header] = {v}
    ELSE None

SchemaId(schema) == IF schema = None THEN None ELSE schema.id

\* Mutant: a message is known by its name alone.
Identity_NameOnly(contract) == contract.name

\* formatKafkaMessageIdentity.
Identity(contract) ==
    [name |-> contract.name,
     selectors |-> [h \in Headers |-> HeaderHint(contract, h)],
     payload |-> SchemaId(contract.payload),
     headers |-> SchemaId(contract.headers)]

\* isUniqueRule
NamesDiffer(contracts) ==
    \A c, d \in contracts : c.name = d.name => c = d

Discriminates(header, contracts) ==
    /\ \A c \in contracts : HeaderHint(c, header) # None
    /\ \A c, d \in contracts :
          HeaderHint(c, header) = HeaderHint(d, header) => c = d

\* collectDiscriminatingHeaderRules
DiscriminatingHeaders(contracts) ==
    {h \in Headers : Discriminates(h, contracts)}

\* dedupeMessageContracts: messages that differ in their bindings only are
\* one contract.
Contracts(messages) ==
    {messages[i].contract : i \in DOMAIN messages}

\* messageSelection.mode of an operation, or why it has none.  An operation
\* without messages has None; messages that are no array, <<>>.
SelectionMode(messages) ==
    IF messages = None THEN "none"
    ELSE LET contracts == Contracts(messages)
         IN  IF contracts = {} \/ \E c \in contracts : c.name = None
             THEN "invalid"
             ELSE IF \A c, d \in contracts : c = d THEN "single"
             ELSE IF NamesDiffer(contracts) \/ DiscriminatingHeaders(contracts) # {}
             THEN "runtime"
             ELSE "ambiguous"

-----------------------------------------------------------------------------
(* Kafka bindings: a field is "absent", "blank" or a text                  *)

InvalidTopic(bindings) == bindings.topic = "blank"

\* schemaIdLocation 'payload' and schemaIdPayloadEncoding need each other.
InvalidMessageBindings(bindings) ==
    \/ bindings.location = "blank"
    \/ bindings.location = "payload" /\ bindings.encoding # "text"
    \/ bindings.encoding # "absent" /\ bindings.location # "payload"
    \/ bindings.encoding = "blank"
    \/ bindings.lookup = "blank"

\* The messages whose bindings are looked at, whatever the protocol is.
BoundMessages(messages) ==
    CASE SelectionMode(messages) = "single"  -> {1}
      [] SelectionMode(messages) = "runtime" -> DOMAIN messages
      [] OTHER -> {}

-----------------------------------------------------------------------------
(* Operations                                                              *)

\* resolveV3ChannelDescriptor.  A reference to a channel without an address
\* stands for the name of the channel.
ResolveChannel(doc, node) ==
    IF node.address # None THEN node.address
    ELSE IF node.ref # None /\ doc.addresses[node.ref] # None
    THEN doc.addresses[node.ref]
    ELSE node.ref

\* The node has an action and a channel.
Located(doc, node) ==
    /\ node.object
    /\ node.action \in Actions
    /\ ResolveChannel(doc, node) # None

Normalised(doc, node) ==
    Located(doc, node) /\ SelectionMode(node.messages) \in {"none", "single", "runtime"}

AmbiguousNode(doc, node) ==
    Located(doc, node) /\ SelectionMode(node.messages) = "ambiguous"

\* resolveSupportedProtocol; a malformed server is no protocol.
Protocol(doc) ==
    LET protocols == doc.servers \ {"malformed"}
    IN  IF \E p \in SupportedProtocols : protocols = {p}
        THEN CHOOSE p \in SupportedProtocols : protocols = {p} ELSE None

\* The sections that the version needs.
Complete(doc) ==
    CASE doc.version = "2" -> doc.channels
      [] doc.version = "3" -> doc.channels /\ doc.operations
      [] OTHER -> FALSE

Walked(doc) == Protocol(doc) # None /\ Complete(doc)

OperationOf(doc, node) ==
    [kind |-> Protocol(doc), action |-> node.action,
     channel |-> ResolveChannel(doc, node)]

\* The positions of the nodes that are normalised to an operation.
Positions(doc, operation) ==
    {i \in DOMAIN doc.nodes :
        Normalised(doc, doc.nodes[i]) /\ OperationOf(doc, doc.nodes[i]) = operation}

DeclaredOperations(doc) ==
    IF Walked(doc)
    THEN {OperationOf(doc, doc.nodes[i]) :
             i \in {j \in DOMAIN doc.nodes : Normalised(doc, doc.nodes[j])}}
    ELSE {}

\* The operations with an "ambiguous" diagnostic.
AmbiguousOperations(doc) ==
    IF Walked(doc)
    THEN {OperationOf(doc, doc.nodes[i]) :
             i \in {j \in DOMAIN doc.nodes : AmbiguousNode(doc, doc.nodes[j])}}
    ELSE {}

\* appendAsyncContract: the first node of an operation counts, the others
\* disappear without a diagnostic.
ContractOf(doc, operation) ==
    LET positions == Positions(doc, operation)
        node == doc.nodes[CHOOSE i \in positions : \A j \in positions : i <= j]
    IN  [messages |-> IF node.messages = None THEN {} ELSE Contracts(node.messages),
         reply |-> node.reply]

-----------------------------------------------------------------------------
(* Diagnostics that refuse the document                                    *)

InvalidNode(doc, node) ==
    \/ ~Located(doc, node)
    \/ SelectionMode(node.messages) = "invalid"
    \/ node.messages # None /\ \E c \in Contracts(node.messages) :
          c.name # None /\ c.correlation = "malformed"
    \/ \E i \in BoundMessages(node.messages) :
          InvalidMessageBindings(node.messages[i].bindings)
    \/ /\ Normalised(doc, node)
       /\ \/ node.reply # None /\ node.reply.location = "malformed"
          \/ Protocol(doc) = "kafka" /\ InvalidTopic(node.channelBindings)

HasInvalid(doc) ==
    \/ ~doc.object
    \/ doc.version = None
    \/ "malformed" \in doc.servers
    \/ ~Walked(doc)
    \/ \E i \in DOMAIN doc.nodes : InvalidNode(doc, doc.nodes[i])

=============================================================================
