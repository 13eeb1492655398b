------------------------------- MODULE Catalogue -------------------------------
(***************************************************************************)
(* The console's catalogue of models (internal/console/handlers.go,        *)
(* openrouter.go, models_support.go): administrators edit providers and    *)
(* model routes, import the models of a provider with their prices, and    *)
(* try a model.  Every request reads rows and writes rows one at a time;   *)
(* an import writes a rule and then a route for each model, and stops at   *)
(* the first error with what it has written.  A price rule is named by its *)
(* provider and model and never removed.                                   *)
(***************************************************************************)
EXTENDS Naturals, FiniteSets, ConsoleBase

CONSTANTS
  Providers,
  Models,     \* public names, and the models of providers
  MaxRequests \* bound: requests of a behaviour

VARIABLES
  master,   \* the providers that have a master key
  routes,   \* [Models -> route or None]
  rules,    \* the price rules: <<provider, model>>
  op,       \* [Admins -> request]
  billed,   \* the last try recorded: what was called, and the rule it was priced by
  requests  \* requests begun

cvars == <<master, routes, rules, op, billed, requests>>

Unasked == [pc |-> "idle", name |-> None, provider |-> None, upstream |-> None, enabled |-> TRUE, left |-> {}, seen |-> None]

\* price: the rule of the route.
Route(provider, upstream, price, enabled) ==
  [provider |-> provider, upstream |-> upstream, price |-> price, enabled |-> enabled]

CInit ==
  /\ master = {}
  /\ routes = [m \in Models |-> None]
  /\ rules = {}
  /\ op = [a \in Admins |-> Unasked]
  /\ billed = None
  /\ requests = 0

Begin(a, next) ==
  /\ op[a].pc = "idle" /\ requests < MaxRequests
  /\ requests' = requests + 1
  /\ op' = [op EXCEPT ![a] = next]

Go(a, pc) == op' = [op EXCEPT ![a].pc = pc]
End(a) == op' = [op EXCEPT ![a] = Unasked]

\* An error of the store or of the provider ends a request between any two steps.
Fail(a) ==
  /\ op[a].pc # "idle"
  /\ End(a)
  /\ UNCHANGED <<master, routes, rules, billed, requests>>

\* ------------------------------- a route -------------------------------
\* createModel reads the route it is going to replace.
EditGet(a) ==
  /\ \E name, upstream \in Models, provider \in Providers, enabled \in BOOLEAN :
       Begin(a, [Unasked EXCEPT !.pc = "edit", !.name = name, !.provider = provider, !.upstream = upstream,
                             !.enabled = enabled, !.seen = routes[name]])
  /\ UNCHANGED <<master, routes, rules, billed>>

\* Mutant: the price stays with the name.
PriceOfName(existing, provider, upstream) == IF existing = None THEN None ELSE existing.price

\* The price stays when the route still leads to the same model.
PriceKept(existing, provider, upstream) ==
  IF existing # None /\ existing.provider = provider /\ existing.upstream = upstream THEN existing.price ELSE None

EditPut(a) ==
  /\ op[a].pc = "edit"
  /\ routes' = [routes EXCEPT ![op[a].name] =
                  Route(op[a].provider, op[a].upstream, PriceKept(op[a].seen, op[a].provider, op[a].upstream), op[a].enabled)]
  /\ End(a)
  /\ UNCHANGED <<master, rules, billed, requests>>

\* ------------------------------ a provider -----------------------------
\* createProvider: a key is given, or the one there is stays.
CreateProvider(a) ==
  /\ Begin(a, Unasked)
  /\ \E p \in Providers, given \in BOOLEAN : master' = IF given THEN master \cup {p} ELSE master
  /\ UNCHANGED <<routes, rules, billed>>

\* upsertCompatibleProviderAndSync: the forms of known providers, which need a key, import at once.
SaveAndSync(a) ==
  /\ \E p \in Providers :
       /\ Begin(a, [Unasked EXCEPT !.pc = "fetch", !.provider = p])
       /\ master' = master \cup {p}
  /\ UNCHANGED <<routes, rules, billed>>

\* syncProviderModels: only of a provider with a key.
SyncGet(a) ==
  /\ \E p \in master : Begin(a, [Unasked EXCEPT !.pc = "fetch", !.provider = p])
  /\ UNCHANGED <<master, routes, rules, billed>>

\* The models of the provider.
Fetch(a) ==
  /\ op[a].pc = "fetch"
  /\ \E left \in SUBSET Models : op' = [op EXCEPT ![a] = [@ EXCEPT !.pc = "next", !.left = left]]
  /\ UNCHANGED <<master, routes, rules, billed, requests>>

\* The next model: one whose name leads to another provider is skipped.
Lookup(a) ==
  /\ op[a].pc = "next"
  /\ \E m \in op[a].left :
       LET left == op[a].left \ {m}
           conflict == routes[m] # None /\ routes[m].provider # op[a].provider
       IN op' = [op EXCEPT ![a] = [@ EXCEPT !.left = left, !.name = m, !.seen = routes[m],
                                            !.pc = IF conflict THEN "next" ELSE "price"]]
  /\ UNCHANGED <<master, routes, rules, billed, requests>>

Finish(a) ==
  /\ op[a].pc = "next" /\ op[a].left = {}
  /\ End(a)
  /\ UNCHANGED <<master, routes, rules, billed, requests>>

\* mergeImportedRoute: what the provider says, with the settings of the route there was; a
\* model without a price keeps the one it had.
Merged(existing, provider, model, price) ==
  IF existing = None THEN Route(provider, model, price, TRUE)
  ELSE Route(provider, model, IF price # None THEN price ELSE existing.price, existing.enabled)

PutRule(a) ==
  /\ op[a].pc = "price"
  /\ rules' = rules \cup {<<op[a].provider, op[a].name>>}
  /\ Go(a, "priced")
  /\ UNCHANGED <<master, routes, billed, requests>>

\* A priced model after its rule, or a model that has no price.
PutRoute(a) ==
  /\ op[a].pc \in {"price", "priced"}
  /\ LET price == IF op[a].pc = "priced" THEN <<op[a].provider, op[a].name>> ELSE None IN
       routes' = [routes EXCEPT ![op[a].name] = Merged(op[a].seen, op[a].provider, op[a].name, price)]
  /\ Go(a, "next")
  /\ UNCHANGED <<master, rules, billed, requests>>

\* ------------------------------ trying one -----------------------------
\* testModel: the route, its provider and its rule are read one after the other.
TestGet(a) ==
  /\ \E m \in Models :
       /\ routes[m] # None /\ routes[m].enabled
       /\ Begin(a, [Unasked EXCEPT !.pc = "rule", !.name = m, !.seen = routes[m]])
  /\ UNCHANGED <<master, routes, rules, billed>>

\* A rule that is not found prices nothing.
TestRule(a) ==
  /\ op[a].pc = "rule" /\ op[a].seen.provider \in master
  /\ op' = [op EXCEPT ![a] = [@ EXCEPT !.pc = "try", !.upstream = IF op[a].seen.price \in rules THEN op[a].seen.price ELSE None]]
  /\ UNCHANGED <<master, routes, rules, billed, requests>>

\* The usage is recorded whether or not the model answers.
TestRun(a) ==
  /\ op[a].pc = "try"
  /\ billed' = [provider |-> op[a].seen.provider, upstream |-> op[a].seen.upstream,
                listed |-> op[a].seen.price, price |-> op[a].upstream]
  /\ End(a)
  /\ UNCHANGED <<master, routes, rules, requests>>

CNext ==
  \E a \in Admins :
    \/ Fail(a)
    \/ EditGet(a) \/ EditPut(a)
    \/ CreateProvider(a) \/ SaveAndSync(a) \/ SyncGet(a) \/ Fetch(a) \/ Lookup(a) \/ Finish(a) \/ PutRule(a) \/ PutRoute(a)
    \/ TestGet(a) \/ TestRule(a) \/ TestRun(a)

CSpec == CInit /\ [][CNext]_cvars

\* However edits and imports overlap and wherever they fail, a route has the price of the
\* model it leads to, and its rule is there: what is tried is priced as what was called.
PricedAsItself ==
  /\ \A m \in Models :
       LET r == routes[m] IN
       r = None \/ r.price = None \/ (r.price = <<r.provider, r.upstream>> /\ r.price \in rules)
  /\ billed # None =>
       billed.price = billed.listed /\ (billed.price # None => billed.price = <<billed.provider, billed.upstream>>)
================================================================================
