---------------------------- MODULE RequestForm ----------------------------
(***************************************************************************)
(* The body of a compatible request, as the gateway parses it              *)
(* (internal/gateway/handlers.go): the models it names, the parameters it  *)
(* sets and what it asks of providers.  A body is [models, endpoint,       *)
(* stream, parameters, provider]: the first of the models is the requested *)
(* one, and provider is a record of just the fields that are given.  A     *)
(* value of a wrong type is one that is not supported.                     *)
(***************************************************************************)
EXTENDS Integers, Sequences, SequencesExt, Ordered

Blank == ""

\* parseStringList: what is not blank, once and in the order of first occurrence.
StringList(list) ==
  LET given == ToSet(list) \ {Blank}
  IN  InOrder(given, {p \in given \X given :
                        \E i \in DOMAIN list : list[i] = p[1] /\ \A j \in 1 .. i : list[j] # p[2]})

\* The requested model, then its fallbacks.
Aliases(body) == StringList(body.models)

Given(fields, name, default) == IF name \in DOMAIN fields THEN fields[name] ELSE default

NoLimits == [prompt |-> 0]

\* A price limit of 0 limits nothing.
MaxPrice(fields, name) == Given(Given(fields, "max_price", NoLimits), name, 0)

Unlimited == {"model", "models", "messages", "prompt", "suffix", "input", "instructions", "system", "provider", "route"}

\* requestedParameterNames: what every model understands is not a parameter.
Parameters(body) == body.parameters \ Unlimited

Fields == {"order", "only", "ignore", "allow_fallbacks", "require_parameters", "sort", "max_price", "data_collection", "zdr"}

\* parseCompatibleRequest: what the gateway cannot honour it refuses.
Acceptable(body) ==
  LET p == body.provider
  IN  /\ body.models[1] # Blank
      /\ DOMAIN p \subseteq Fields
      /\ Given(p, "sort", "") \in {"", "price", "priority", "latency", "throughput"}
      /\ DOMAIN Given(p, "max_price", NoLimits) \subseteq {"prompt", "completion"}
      /\ Given(p, "data_collection", "") \in {"", "allow"}
      /\ ~Given(p, "zdr", FALSE)

Preferences(body) ==
  LET p == body.provider
  IN  [only |-> ToSet(StringList(Given(p, "only", <<>>))),
       ignore |-> ToSet(StringList(Given(p, "ignore", <<>>))),
       order |-> StringList(Given(p, "order", <<>>)),
       fallbacks |-> Given(p, "allow_fallbacks", TRUE),
       require |-> IF Given(p, "require_parameters", FALSE) THEN Parameters(body) ELSE {},
       maxPrompt |-> MaxPrice(p, "prompt"),
       maxCompletion |-> MaxPrice(p, "completion"),
       sort |-> Given(p, "sort", "")]

\* What the body's JSON values are: lists have a length, price limits are numbers.
IsList(list) == Len(list) \in Nat /\ DOMAIN list = 1 .. Len(list)
WellTyped(body) ==
  /\ IsList(body.models) /\ body.models # <<>>
  /\ IsList(Given(body.provider, "order", <<>>))
  /\ MaxPrice(body.provider, "prompt") \in Int /\ MaxPrice(body.provider, "completion") \in Int

\* What the handler goes on with.
Parsed(body) == [models |-> Aliases(body), prefs |-> Preferences(body)]
============================================================================
