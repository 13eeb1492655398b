------------------------------ MODULE MCGateway ------------------------------
(* Instances of Gateway for TLC. *)
EXTENDS Gateway

CONSTANTS r1, r2,     \* requests
          k1, k2,     \* API keys
          m1, m2, m3, \* models
          p1, p2      \* providers

OneRequest == {r1}
TwoRequests == {r1, r2}
MCKeys == {k1, k2}
MCModels == {m1, m2, m3}

\* k2 may not use m1.
MCAllowed == k1 :> MCModels @@ k2 :> {m2, m3}

Route(provider, served, prompt, completion, priority, weight, protocols) ==
  [provider |-> provider, served |-> served, prompt |-> prompt, completion |-> completion,
   priority |-> priority, weight |-> weight, protocols |-> protocols]

Both == {"openai", "anthropic"}

\* m1 and m3 share a provider; the second catalogue swaps prices, priorities and protocols.
Catalog1 == m1 :> Route(p1, {"openai"}, 1, 1, 2, 1, {"openai"}) @@ m2 :> Route(p2, Both, 1, 2, 1, 2, {})
              @@ m3 :> Route(p1, {"openai"}, 2, 3, 3, 2, Both)
Catalog2 == m1 :> Route(p1, Both, 3, 3, 3, 1, Both) @@ m2 :> Route(p2, Both, 2, 2, 2, 1, Both)
              @@ m3 :> Route(p1, Both, 1, 0, 1, 3, {"openai"})
OneCatalog == {Catalog1}
TwoCatalogs == {Catalog1, Catalog2}

NoPrefs == [sort |-> ""]

Body(models, endpoint, stream, provider) ==
  [models |-> models, endpoint |-> endpoint, stream |-> stream,
   parameters |-> {"model", "messages", "top_k"}, provider |-> provider]

Ask(key, body, use, clear, ttl) ==
  [key |-> key, body |-> body, use |-> use, clear |-> clear, ttl |-> ttl]

\* Provider preferences on three models of two providers: each kind of filter,
\* and orders that agree or disagree with each key to sort by.
RoutingAsks ==
  LET Preferring(p) == Ask(k1, Body(<<m1, m2, m1, m3>>, "chat", FALSE, p), FALSE, FALSE, 0)
  IN  {Preferring([order |-> order, sort |-> sort]) :
         order \in {<<>>, <<p2, p1>>}, sort \in {"price", "priority", "throughput"}}
      \cup {Preferring(p) : p \in {[order |-> <<p2, Blank>>, allow_fallbacks |-> FALSE, zdr |-> FALSE],
                                   [only |-> <<p1>>, ignore |-> <<p1>>],
                                   [only |-> <<p1, p1>>, require_parameters |-> TRUE],
                                   [ignore |-> <<p2>>, max_price |-> [prompt |-> 1, completion |-> 2], sort |-> "price"],
                                   [sort |-> "newest"], [data_collection |-> "deny"], [only |-> <<p2>>, zdr |-> TRUE]}}

\* Streams and whole answers, with and without the responses endpoint; and a
\* key that may not use one of its fallbacks.
FailoverAsks ==
  {Ask(k1, Body(models, endpoint, stream, NoPrefs), FALSE, FALSE, 0) :
     models \in {<<m1, m2>>, <<m2, m1, m3>>},
     endpoint \in {"chat", "responses", "count_tokens"}, stream \in BOOLEAN}
  \cup {Ask(k2, Body(models, "chat", FALSE, NoPrefs), FALSE, FALSE, 0) :
          models \in {<<m2, m1, m3>>, <<m2, m3>>, <<Blank, m2>>}}
  \cup RoutingAsks

PlainAsk == {Ask(k1, Body(<<m1, m2>>, "chat", FALSE, NoPrefs), FALSE, FALSE, 0)}

\* Two keys that send the same request, with the cache used, or cleared before.
CacheAsks ==
  LET Use(k, clear) == Ask(k, Body(<<m2>>, "chat", FALSE, NoPrefs), TRUE, clear, 0)
  IN  {Use(k1, FALSE), Use(k2, FALSE), Use(k1, TRUE)}

AllAsks == FailoverAsks \cup CacheAsks

\* Either one request that fails over while the world changes.
Asked(asks) == \A r \in Requests : pc[r] # "new" => req[r].ask \in asks
Failing ==
  /\ now = 0 /\ Asked(FailoverAsks) /\ pc[r2] = "new"
  /\ \/ \E a \in FailoverAsks : Authenticate(r1, a)
     \/ Handle(r1) \/ Leave(r1)
     \/ \E c \in Catalogs : Edit(c)
     \/ \E m \in Models : Disable(m)

\* Or two that meet in the cache while time goes on; an answer is a success or an error.
Meeting ==
  /\ catalog = Catalog1 /\ disabled = {} /\ Asked(CacheAsks)
  /\ \/ \E r \in Requests :
          \/ \E a \in CacheAsks : Authenticate(r, a)
          \/ Handle(r) /\ req'[r].answer \in {None, "ok", "rejected"}
     \/ Tick

MCNext == Failing \/ Meeting

MCSpec == Init /\ [][MCNext]_vars /\ \A r \in Requests : WF_vars(Handle(r))

LastUnbuilt == {m3}
FirstUnbuilt == {m1}
=============================================================================
