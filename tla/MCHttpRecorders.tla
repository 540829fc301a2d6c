--------------------------- MODULE MCHttpRecorders ---------------------------
(* Small instances of HttpRecorders: two schemas, declared types that are  *)
(* exact or have wildcards, statuses declared as codes, ranges and default *)
(* and bodies below, at and above the limit, in one chunk or more; or      *)
(* parameters of every place, and keys asked for together or one by one.   *)
EXTENDS HttpRecorders

Text_   == MediaType("text", "plain", "")
Problem == MediaType("application", "problem", "json")
AnyJson == MediaType("application", "*", "json")
AnyType == MediaType("*", "*", "")
Stream  == MediaType("application", "stream", "json")

Content(media, schema) == [media |-> media, schema |-> schema]
Of(type, value)        == [type |-> type, value |-> value]

\* A problem's own type beside the wildcard it falls under.
Problems == {Content(Problem, "problem"), Content(AnyJson, "account")}

\* Security: not declared, or the alternatives.
Undeclared       == [declared |-> FALSE, requirements |-> {}]
Secured(options) == [declared |-> TRUE, requirements |-> options]
ApiKey(in, key)  == [type |-> "apiKey", in |-> in, key |-> key]
Bearer           == [type |-> "http", in |-> "none", key |-> "none"]

PayloadContract(request, responses) ==
    [request |-> request, responses |-> responses, parameters |-> {},
     root |-> Undeclared, security |-> Undeclared]

ParameterContract(declared, root, security) ==
    [request    |-> [declared |-> FALSE, required |-> FALSE, content |-> {}],
     responses  |-> {[status |-> Of("default", 0), content |-> {}]},
     parameters |-> declared, root |-> root, security |-> security]

PayloadContracts ==
    { PayloadContract(
        [declared |-> TRUE, required |-> TRUE, content |-> {Content(Json, "account")}],
        {[status |-> Of("code", 200),
          content |-> {Content(Json, "account"), Content(Text_, None),
                       Content(AnyType, "problem")}],
         [status |-> Of("range", 4), content |-> Problems],
         [status |-> Of("default", 0), content |-> {}]}),
      PayloadContract(
        [declared |-> TRUE, required |-> FALSE, content |-> Problems],
        {[status |-> Of("code", 404), content |-> {Content(Json, "uncompilable")}],
         [status |-> Of("range", 4), content |-> {}],
         [status |-> Of("default", 0), content |-> {Content(Json, "problem")}]}),
      PayloadContract(
        [declared |-> FALSE, required |-> FALSE, content |-> {}], {}) }

Declared(in, name, type, admitted) ==
    [in |-> in, name |-> name, style |-> SupportedStyle[in], explode |-> TRUE,
     content |-> FALSE, type |-> type, admitted |-> admitted, required |-> TRUE]

DeclaredParameters ==
    { Declared("path", "id", "scalar", {"7"}),
      Declared("query", "q", "scalar", {"7", ""}),
      Declared("query", "tags", "array", {"7", "8"}),
      [Declared("query", "key", "array", {"k"}) EXCEPT !.explode = FALSE],
      Declared("header", "x-trace", "scalar", {"7"}),
      Declared("header", "x-test-suite", "scalar", {"7"}),
      Declared("cookie", "session", "scalar", {"7"}) }

BothKeys == {ApiKey("header", "x-key"), ApiKey("query", "key")}

ParameterContracts ==
    { ParameterContract(DeclaredParameters, Secured({BothKeys, {Bearer}}), Undeclared),
      ParameterContract({}, Secured({{Bearer}}),
          Secured({{ApiKey("query", "key")}, {ApiKey("header", "x-api-key")}})),
      ParameterContract({}, Secured({BothKeys}), Secured({{}, {ApiKey("query", "key")}})),
      ParameterContract({}, Secured({BothKeys}), Secured({})) }

MCContracts == PayloadContracts \cup ParameterContracts

Body(type, form, chunks) == [type |-> type, form |-> form, chunks |-> chunks]

MCBodies ==
    { Nothing,
      Body(Json, "account", <<1, 1>>),
      Body(Json, "problem", <<2>>),
      Body(Json, "other", <<1>>),
      Body(Json, "malformed", <<1>>),
      Body(Json, "account", <<2, 1>>),
      Body(Problem, "problem", <<1, 1>>),
      Body(Problem, "account", <<1>>),
      Body(Stream, "account", <<1>>),
      Body(Text_, "malformed", <<1>>) }

Form == MediaType("application", "x-www-form-urlencoded", "")

Sending(in, name, values) == [in |-> in, name |-> name, values |-> values]

ParameterRequests ==
    { {Sending("path", "id", <<"7">>), Sending("query", "q", <<"7">>),
       Sending("header", "x-key", <<"k">>), Sending("header", "x-trace", <<"7">>)},
      {Sending("path", "id", <<"x">>), Sending("query", "q", <<"bare">>),
       Sending("query", "key", <<"k">>), Sending("header", "x-trace", <<"7", "7">>)},
      {Sending("query", "q", <<"7", "8">>), Sending("query", "tags", <<"7", "8">>),
       Sending("header", "x-key", <<"k">>), Sending("query", "key", <<"k">>)},
      {Sending("query", "tags", <<"7", "x">>), Sending("header", "x-api-key", <<"k">>),
       Sending("header", "x-test-suite", <<"s">>), Sending("cookie", "session", <<"7">>)},
      {Sending("query", "q", <<"long">>), Sending("query", "key", <<"k", "control">>),
       Sending("header", "x-key", <<"k">>)} }

MCRequests ==
    {[body |-> b, parameters |-> {}] : b \in MCBodies}
    \cup {[body |-> Nothing, parameters |-> p] : p \in ParameterRequests}
    \cup {[body |-> Body(Form, "malformed", <<1>>),
           parameters |-> {Sending("query", "q", <<"7">>), Sending("form", name, <<"9">>)}]
              : name \in {"q", "comment"}}

=============================================================================
