---------------------------- MODULE OpenApiModel ----------------------------
(***************************************************************************)
(* What loadOpenApiCoverageModel makes of an OpenAPI document: the         *)
(* operations it declares and the contract of each, or a refusal.          *)
(*                                                                         *)
(* A document has its path items in a sequence, in their order.  An item   *)
(* is [object, rooted, route, parameters, operations]: whether it is an    *)
(* object and its route begins with a slash, the parameters of all its     *)
(* operations, and a node for each method.  A node is [object, security,   *)
(* statuses, parameters].  A parameter entry is [in, name, required], a    *)
(* key of the responses a token [type, value].  A requirement is a set of  *)
(* entries [scheme, scopes], where scopes says that they are texts.        *)
(***************************************************************************)
EXTENDS HttpMatching, Naturals

CONSTANTS
    Undefined,   \* what is not there
    Malformed    \* what is there and has the wrong shape

-----------------------------------------------------------------------------
(* Operations                                                              *)

KeyOf(doc, i, method) ==
    [method |-> method, route |-> NormalizeTemplatedRoute(doc.items[i].route)]

\* The items with a node for this operation.  A key is looked up under the
\* normalised route, so that routes which differ in the names of their
\* parameters declare one operation.
Declaring(doc, operation) ==
    {i \in DOMAIN doc.items :
        /\ doc.items[i].object /\ doc.items[i].rooted
        /\ operation.method \in DOMAIN doc.items[i].operations
        /\ doc.items[i].operations[operation.method].object
        /\ operation = KeyOf(doc, i, operation.method)}

\* The operations of buildHttpSemantics.
HttpOperations(doc) ==
    UNION {{KeyOf(doc, i, m) :
               m \in {x \in DOMAIN doc.items[i].operations :
                         doc.items[i].operations[x].object}} :
              i \in {j \in DOMAIN doc.items :
                        doc.items[j].object /\ doc.items[j].rooted}}

\* Both walks over the document, for the semantics and for the contracts,
\* keep the first item and pass over the others without a diagnostic.
DeclaringItem(doc, operation) ==
    doc.items[CHOOSE i \in Declaring(doc, operation) :
                 \A j \in Declaring(doc, operation) : i <= j]

NodeOf(doc, operation) ==
    DeclaringItem(doc, operation).operations[operation.method]

\* OpenApiOperations.extractSemantics of the Java core, over the same nodes.
JavaOperations(doc) ==
    UNION {{KeyOf(doc, i, m) :
               m \in {x \in DOMAIN doc.items[i].operations :
                         doc.items[i].operations[x].object}} :
              i \in {j \in DOMAIN doc.items : doc.items[j].object}}

-----------------------------------------------------------------------------
(* Diagnostics, each of which refuses the document                         *)

\* A scheme is "usable", "incomplete" (it has no type, or is an API key
\* without a name or a place) or "malformed" (no object).
InvalidRequirement(doc, requirement) ==
    \/ requirement = Malformed
    \/ \E entry \in requirement :
          \/ entry.scheme \notin DOMAIN doc.schemes
          \/ doc.schemes[entry.scheme] # "usable"
          \/ ~entry.scopes

\* resolveDeclaredSecurity.  An empty array is no mistake: it asks for nothing.
InvalidSecurity(doc, security) ==
    /\ security # Undefined
    /\ \/ security = Malformed
       \/ \E requirement \in security : InvalidRequirement(doc, requirement)

InvalidItem(item) ==
    \/ ~item.object
    \/ ~item.rooted
    \/ \E m \in DOMAIN item.operations : ~item.operations[m].object

\* Of the nodes of one operation only the first has its security looked at.
HasInvalid(doc) ==
    \/ ~doc.paths
    \/ \E s \in DOMAIN doc.schemes : doc.schemes[s] = "malformed"
    \/ InvalidSecurity(doc, doc.security)
    \/ \E i \in DOMAIN doc.items : InvalidItem(doc.items[i])
    \/ \E o \in HttpOperations(doc) : InvalidSecurity(doc, NodeOf(doc, o).security)

-----------------------------------------------------------------------------
(* Contracts                                                               *)

\* normalizeDeclaredStatusToken: three digits, a range from 1XX to 5XX or
\* default, in any case.
IsStatusToken(token) ==
    \/ token.type \in {"code", "default"}
    \/ token.type = "range" /\ token.value \in 1..5

ParameterLocations == {"path", "query", "header", "cookie"}

\* extractRequestParameters passes over entries without a place or a name.
IsParameter(entry) == entry.in \in ParameterLocations /\ entry.name # Undefined

SameParameter(p, q) == p.in = q.in /\ p.name = q.name

\* mergeRequestParameters: those of the item, then those of the operation;
\* of two with one place and name the later counts.  A path parameter is
\* required whatever it says.
MergeParameters(ofItem, ofOperation) ==
    LET all == ofItem \o ofOperation
        kept == {i \in DOMAIN all :
                    /\ IsParameter(all[i])
                    /\ \A j \in DOMAIN all :
                          j > i => ~(IsParameter(all[j]) /\ SameParameter(all[i], all[j]))}
    IN  {[in |-> all[i].in, name |-> all[i].name,
          required |-> all[i].in = "path" \/ all[i].required] : i \in kept}

\* What the coverage needs of the operation's contract: its statuses and its
\* parameters, those in cookies left out.
ContractOf(doc, operation) ==
    LET node == NodeOf(doc, operation)
    IN  [statuses |-> {t \in node.statuses : IsStatusToken(t)},
         parameters |->
            {p \in MergeParameters(DeclaringItem(doc, operation).parameters,
                                   node.parameters) : p.in # "cookie"}]

=============================================================================
