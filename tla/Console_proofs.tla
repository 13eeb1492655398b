----------------------------- MODULE Console_proofs -----------------------------
(***************************************************************************)
(* What holds of six parts of the console for all values of their          *)
(* constants.  The parts share no state and no lemma: each has its own     *)
(* inductive invariant, named after the prefix of its specification        *)
(* (KInv, CInv, WInv, TInv, RInv, AInv).                                   *)
(***************************************************************************)
EXTENDS KeyAdmin, Catalogue, WorkerInit, ChatTurn, AgentAccount, CloudAgentRun, SequenceTheorems, TLAPS

-----------------------------------------------------------------------------
(***************************************************************************)
(* KeyAdmin: who may use the gateway.                                      *)
(*                                                                         *)
(* Access to the gateway is granted by nobody's overwriting of another's   *)
(* edit, for every number of administrators, keys and edits.  The argument *)
(* is about CreateAPIKey, through which every write goes: it takes the key *)
(* away from every other secret, whoever wrote them and when.              *)
(***************************************************************************)

Key == [id : Nat, active : BOOLEAN, limit : {0, 1}]

\* A key has one secret.
OneSecret == \A s, t \in DOMAIN keys : keys[s].id = keys[t].id => s = t

\* What is stored, and what an administrator holds, is a key.
KInv ==
  /\ keys \in [DOMAIN keys -> Key]
  /\ secrets \in Nat
  /\ DOMAIN change = Admins
  /\ \A a \in Admins : change[a].kind \in {"rotate", "update", "disable"} => change[a].key \in Key
  /\ OneSecret

\* MemoryStore.CreateAPIKey stores the key under the given secret alone, and
\* leaves the other keys as they are.
LEMMA CreateAPIKeyStores ==
  ASSUME keys \in [DOMAIN keys -> Key], OneSecret, NEW secret, NEW key \in Key,
         keys' = CreateAPIKey(secret, key)
  PROVE  /\ keys' \in [DOMAIN keys' -> Key]
         /\ OneSecret'
         /\ secret \in DOMAIN keys' /\ keys'[secret] = key
         /\ \A s \in DOMAIN keys' : s # secret => s \in DOMAIN keys /\ keys'[s] = keys[s]
<1>. DEFINE kept == {s \in DOMAIN keys : keys[s].id # key.id}
<1>1. keys' = [s \in kept \cup {secret} |-> IF s = secret THEN key ELSE keys[s]]
  BY DEF CreateAPIKey
<1>2. DOMAIN keys' = kept \cup {secret}
  BY <1>1
<1>3. keys'[secret] = key
  BY <1>1
<1>4. \A s \in DOMAIN keys' : s # secret => s \in kept /\ keys'[s] = keys[s]
  BY <1>1, <1>2
<1>5. keys' \in [DOMAIN keys' -> Key]
  BY <1>1, <1>2
<1>6. OneSecret'
  <2>. SUFFICES ASSUME NEW s \in DOMAIN keys', NEW t \in DOMAIN keys', keys'[s].id = keys'[t].id
                PROVE  s = t
    BY DEF OneSecret
  <2>1. CASE s # secret /\ t # secret
    BY <1>4, <2>1 DEF OneSecret
  <2>2. CASE s = secret \/ t = secret
    BY <1>3, <1>4, <2>2
  <2>. QED BY <2>1, <2>2
<1>. QED BY <1>2, <1>3, <1>4, <1>5, <1>6

\* The inductive invariant holds before the first key.
LEMMA InitKInv == KInit => KInv
BY DEF KInit, KInv, OneSecret, NoOp, Key

\* A request that begins, fails or ends leaves the keys alone.
LEMMA StepRead ==
  ASSUME KInv, NEW a \in Admins,
         Unstored(a) \/ (\E kind \in {"rotate", "update", "disable"} : Read(a, kind))
  PROVE  KInv' /\ AccessStep
<1>1. keys' = keys /\ secrets' = secrets
  BY DEF Unstored, Read
<1>2. DOMAIN change' = Admins /\ \A b \in Admins : change'[b].kind \in {"rotate", "update", "disable"} => change'[b].key \in Key
  <2>1. CASE Unstored(a)
    BY <2>1 DEF Unstored, Done, NoOp, KInv
  <2>2. ASSUME NEW kind, NEW s \in DOMAIN keys,
               change' = [change EXCEPT ![a] = [kind |-> kind, secret |-> s, key |-> keys[s]]]
        PROVE  DOMAIN change' = Admins /\ \A b \in Admins : change'[b].kind \in {"rotate", "update", "disable"} => change'[b].key \in Key
    BY <2>2 DEF KInv
  <2>. QED BY <2>1, <2>2 DEF Read
<1>. QED BY <1>1, <1>2 DEF KInv, AccessStep, Accepted, OneSecret

\* The secret of a new key is new.
LEMMA StepCreate ==
  ASSUME KInv, Create
  PROVE  KInv' /\ AccessStep
<1>. DEFINE key == [id |-> secrets + 1, active |-> TRUE, limit |-> 0]
<1>1. key \in Key /\ keys' = CreateAPIKey(secrets + 1, key) /\ secrets' = secrets + 1 /\ change' = change
  BY DEF Create, Key, KInv
<1>. HIDE DEF key
<1>2. /\ keys' \in [DOMAIN keys' -> Key] /\ OneSecret'
      /\ \A s \in DOMAIN keys' : s # secrets + 1 => s \in DOMAIN keys /\ keys'[s] = keys[s]
  BY <1>1, CreateAPIKeyStores DEF KInv
<1>3. KInv'
  BY <1>1, <1>2 DEF KInv
<1>4. AccessStep
  BY <1>1, <1>2 DEF KInv, AccessStep, Accepted, OneSecret
<1>. QED BY <1>3, <1>4

\* The secret of a rotation is new.
LEMMA StepRotate ==
  ASSUME KInv, NEW a \in Admins, Rotate(a)
  PROVE  KInv' /\ AccessStep
<1>1. /\ change[a].key \in Key /\ keys' = CreateAPIKey(secrets + 1, change[a].key) /\ secrets' = secrets + 1
      /\ change' = [change EXCEPT ![a] = NoOp]
  BY DEF Rotate, Done, KInv
<1>2. /\ keys' \in [DOMAIN keys' -> Key] /\ OneSecret'
      /\ \A s \in DOMAIN keys' : s # secrets + 1 => s \in DOMAIN keys /\ keys'[s] = keys[s]
  BY <1>1, CreateAPIKeyStores DEF KInv
<1>3. KInv'
  BY <1>1, <1>2 DEF KInv, NoOp
<1>4. AccessStep
  BY <1>1, <1>2 DEF KInv, AccessStep, Accepted, OneSecret
<1>. QED BY <1>3, <1>4

\* An edit stores the key under the secret it had when it was read: the gateway
\* accepts it after that only if the key was active then.
LEMMA StepWrite ==
  ASSUME KInv, NEW a \in Admins, Update(a) \/ Disable(a)
  PROVE  KInv' /\ AccessStep
<1>1. /\ change[a].key \in Key /\ secrets' = secrets /\ change' = [change EXCEPT ![a] = NoOp]
  BY DEF Update, Disable, Done, KInv
<1>2. PICK key \in Key : keys' = CreateAPIKey(change[a].secret, key) /\ (key.active => change[a].key.active)
  <2>1. CASE Update(a)
    <3>1. PICK limit \in {0, 1} : keys' = CreateAPIKey(change[a].secret, [change[a].key EXCEPT !.limit = limit])
      BY <2>1 DEF Update
    <3>2. /\ [change[a].key EXCEPT !.limit = limit] \in Key
          /\ [change[a].key EXCEPT !.limit = limit].active = change[a].key.active
      BY <1>1 DEF Key
    <3>. QED BY <3>1, <3>2
  <2>2. CASE Disable(a)
    <3>1. /\ [change[a].key EXCEPT !.active = FALSE] \in Key
          /\ ~[change[a].key EXCEPT !.active = FALSE].active
      BY <1>1 DEF Key
    <3>. QED BY <2>2, <3>1 DEF Disable
  <2>. QED BY <2>1, <2>2
<1>3. /\ keys' \in [DOMAIN keys' -> Key] /\ OneSecret'
      /\ change[a].secret \in DOMAIN keys' /\ keys'[change[a].secret] = key
      /\ \A s \in DOMAIN keys' : s # change[a].secret => s \in DOMAIN keys /\ keys'[s] = keys[s]
  BY <1>2, CreateAPIKeyStores DEF KInv
<1>4. KInv'
  BY <1>1, <1>3 DEF KInv, NoOp
<1>5. AccessStep
  BY <1>2, <1>3 DEF KInv, AccessStep, Accepted, OneSecret
<1>. QED BY <1>4, <1>5

\* Every step keeps the inductive invariant and grants access as it should.
LEMMA StepKInv == KInv /\ [KNext]_kvars => KInv' /\ [AccessStep]_kvars
<1>. SUFFICES ASSUME KInv, [KNext]_kvars PROVE KInv' /\ [AccessStep]_kvars
  OBVIOUS
<1>1. CASE Create
  BY <1>1, StepCreate
<1>2. ASSUME NEW a \in Admins,
             \/ \E kind \in {"rotate", "update", "disable"} : Read(a, kind)
             \/ Unstored(a) \/ Rotate(a) \/ Update(a) \/ Disable(a)
      PROVE  KInv' /\ AccessStep
  BY <1>2, StepRead, StepRotate, StepWrite
<1>3. CASE UNCHANGED kvars
  BY <1>3 DEF KInv, OneSecret, kvars
<1>. QED BY <1>1, <1>2, <1>3 DEF KNext

\* However administrators create, rotate, edit and disable keys at once, a key
\* has one secret, and no secret that is not accepted comes to be so but a new
\* one, or one a request had read while its key was active.
THEOREM AccessGranted == KSpec => AccessIsGranted
BY InitKInv, StepKInv, PTL DEF KSpec, AccessIsGranted

-----------------------------------------------------------------------------
(***************************************************************************)
(* Catalogue: what a call costs.                                           *)
(*                                                                         *)
(* A route has the price of the model it leads to, for every number of     *)
(* administrators, providers and models.  PricedAsItself is not inductive: *)
(* an import that finds no price keeps the one the route had, although it  *)
(* redirects the route to the model of its name.  What saves it is that    *)
(* only imports give prices, so that a priced route always leads to the    *)
(* model of its name; the rest is that a request holds such a route too.   *)
(***************************************************************************)

\* A priced route leads to the model of its name, and its rule is stored.
Sound(name, r) ==
  r = None \/ r.price = None \/ (r.price = <<r.provider, name>> /\ r.upstream = name /\ r.price \in rules)

\* What a request holds, by where it is.
Holds(o) ==
  /\ DOMAIN o = DOMAIN Unasked /\ o.left \subseteq Models
  /\ o.pc \in {"edit", "price", "priced", "rule", "try"} => Sound(o.name, o.seen)
  /\ o.pc \in {"price", "priced"} => o.seen = None \/ o.seen.provider = o.provider
  /\ o.pc = "priced" => <<o.provider, o.name>> \in rules
  /\ o.pc \in {"rule", "try"} => o.seen # None
  /\ o.pc = "try" => o.upstream = o.seen.price

CInv ==
  /\ DOMAIN op = Admins /\ DOMAIN routes = Models
  /\ \A m \in Models : Sound(m, routes[m])
  /\ \A a \in Admins : Holds(op[a])
  /\ billed # None =>
       billed.price = billed.listed /\ (billed.price # None => billed.price = <<billed.provider, billed.upstream>>)

\* The inductive invariant holds in an empty catalogue.
LEMMA InitCInv == CInit => CInv
BY DEF CInit, CInv, Sound, Holds, Unasked

\* A step that only begins or ends a request, or moves one on, keeps the invariant.
LEMMA StepRequest ==
  ASSUME CInv, NEW a \in Admins, NEW o, Holds(o), op' = [op EXCEPT ![a] = o],
         UNCHANGED <<routes, rules, billed>>
  PROVE  CInv'
<1>1. \A name, r : Sound(name, r)' <=> Sound(name, r)
  BY DEF Sound
<1>2. \A p : Holds(p) => Holds(p)'
  BY <1>1 DEF Holds, Unasked
<1>. QED BY <1>1, <1>2 DEF CInv

\* Idle requests, and those that fetch or go through a list, hold nothing.
LEMMA FreeHolds ==
  ASSUME NEW o, DOMAIN o = DOMAIN Unasked, o.left \subseteq Models, o.pc \in {"idle", "fetch", "next"}
  PROVE  Holds(o)
BY DEF Holds

\* The requests that read a route hold what was stored.
LEMMA StepGet ==
  ASSUME CInv, NEW a \in Admins, EditGet(a) \/ TestGet(a)
  PROVE  CInv'
<1>1. CASE EditGet(a)
  <2>1. PICK name \in Models, upstream \in Models, provider \in Providers, enabled \in BOOLEAN :
          Begin(a, [Unasked EXCEPT !.pc = "edit", !.name = name, !.provider = provider, !.upstream = upstream,
                                !.enabled = enabled, !.seen = routes[name]])
    BY <1>1 DEF EditGet
  <2>. DEFINE o == [Unasked EXCEPT !.pc = "edit", !.name = name, !.provider = provider, !.upstream = upstream,
                                !.enabled = enabled, !.seen = routes[name]]
  <2>2. DOMAIN o = DOMAIN Unasked /\ o.left = {} /\ o.pc = "edit" /\ o.name = name /\ o.seen = routes[name]
    BY DEF Unasked
  <2>3. op' = [op EXCEPT ![a] = o] /\ UNCHANGED <<routes, rules, billed>>
    BY <1>1, <2>1 DEF Begin, EditGet
  <2>. HIDE DEF o
  <2>4. Holds(o)
    BY <2>2 DEF CInv, Holds
  <2>. QED BY <2>3, <2>4, StepRequest
<1>2. CASE TestGet(a)
  <2>1. PICK m \in Models : routes[m] # None /\ Begin(a, [Unasked EXCEPT !.pc = "rule", !.name = m, !.seen = routes[m]])
    BY <1>2 DEF TestGet
  <2>. DEFINE o == [Unasked EXCEPT !.pc = "rule", !.name = m, !.seen = routes[m]]
  <2>2. DOMAIN o = DOMAIN Unasked /\ o.left = {} /\ o.pc = "rule" /\ o.name = m /\ o.seen = routes[m]
    BY DEF Unasked
  <2>3. op' = [op EXCEPT ![a] = o] /\ UNCHANGED <<routes, rules, billed>>
    BY <1>2, <2>1 DEF Begin, TestGet
  <2>. HIDE DEF o
  <2>4. Holds(o)
    BY <2>1, <2>2 DEF CInv, Holds
  <2>. QED BY <2>3, <2>4, StepRequest
<1>. QED BY <1>1, <1>2

\* The requests that begin or end an import, or go through its list.
LEMMA StepList ==
  ASSUME CInv, NEW a \in Admins,
         Fail(a) \/ CreateProvider(a) \/ SaveAndSync(a) \/ SyncGet(a) \/ Fetch(a) \/ Finish(a)
  PROVE  CInv'
<1>1. PICK o : op' = [op EXCEPT ![a] = o] /\ DOMAIN o = DOMAIN Unasked /\ o.left \subseteq Models
                  /\ o.pc \in {"idle", "fetch", "next"}
  <2>1. Unasked.left = {} /\ Unasked.pc = "idle"
    BY DEF Unasked
  <2>2. CASE Fail(a) \/ Finish(a)
    BY <2>1, <2>2 DEF Fail, Finish, End
  <2>3. CASE CreateProvider(a)
    BY <2>1, <2>3 DEF CreateProvider, Begin
  <2>4. CASE SaveAndSync(a) \/ SyncGet(a)
    <3>1. PICK p : Begin(a, [Unasked EXCEPT !.pc = "fetch", !.provider = p])
      BY <2>4 DEF SaveAndSync, SyncGet
    <3>2. [Unasked EXCEPT !.pc = "fetch", !.provider = p].pc = "fetch"
          /\ DOMAIN [Unasked EXCEPT !.pc = "fetch", !.provider = p] = DOMAIN Unasked
          /\ [Unasked EXCEPT !.pc = "fetch", !.provider = p].left = {}
      BY DEF Unasked
    <3>. QED BY <3>1, <3>2 DEF Begin
  <2>5. CASE Fetch(a)
    <3>1. PICK left \in SUBSET Models : op' = [op EXCEPT ![a] = [@ EXCEPT !.pc = "next", !.left = left]]
      BY <2>5 DEF Fetch
    <3>2. DOMAIN op[a] = DOMAIN Unasked
      BY DEF CInv, Holds
    <3>3. [op[a] EXCEPT !.pc = "next", !.left = left].pc = "next"
          /\ DOMAIN [op[a] EXCEPT !.pc = "next", !.left = left] = DOMAIN Unasked
          /\ [op[a] EXCEPT !.pc = "next", !.left = left].left = left
      BY <3>2 DEF Unasked
    <3>. QED BY <3>1, <3>3
  <2>. QED BY <2>2, <2>3, <2>4, <2>5
<1>2. UNCHANGED <<routes, rules, billed>>
  BY DEF Fail, CreateProvider, SaveAndSync, SyncGet, Fetch, Finish
<1>. QED BY <1>1, <1>2, FreeHolds, StepRequest

\* A model is imported only over a route of its provider, or where there is none.
LEMMA StepLookup ==
  ASSUME CInv, NEW a \in Admins, Lookup(a)
  PROVE  CInv'
<1>1. PICK m \in op[a].left :
        op' = [op EXCEPT ![a] = [@ EXCEPT !.left = op[a].left \ {m}, !.name = m, !.seen = routes[m],
                  !.pc = IF routes[m] # None /\ routes[m].provider # op[a].provider THEN "next" ELSE "price"]]
  BY DEF Lookup
<1>. DEFINE o == [op[a] EXCEPT !.left = op[a].left \ {m}, !.name = m, !.seen = routes[m],
                    !.pc = IF routes[m] # None /\ routes[m].provider # op[a].provider THEN "next" ELSE "price"]
<1>2. /\ DOMAIN o = DOMAIN Unasked /\ o.left \subseteq Models /\ o.name = m /\ o.seen = routes[m] /\ o.provider = op[a].provider
      /\ o.pc = IF routes[m] # None /\ routes[m].provider # op[a].provider THEN "next" ELSE "price"
  BY DEF CInv, Holds, Unasked
<1>3. op' = [op EXCEPT ![a] = o]
  BY <1>1
<1>. HIDE DEF o
<1>4. m \in Models
  BY DEF CInv, Holds
<1>5. Holds(o)
  BY <1>2, <1>4 DEF CInv, Holds
<1>. QED BY <1>3, <1>5, StepRequest DEF Lookup

\* What the test of a model has found prices it as its route says.
LEMMA StepTestRule ==
  ASSUME CInv, NEW a \in Admins, TestRule(a)
  PROVE  CInv'
<1>. DEFINE price == IF op[a].seen.price \in rules THEN op[a].seen.price ELSE None
            o     == [op[a] EXCEPT !.pc = "try", !.upstream = price]
<1>1. /\ DOMAIN o = DOMAIN Unasked /\ o.left = op[a].left /\ o.name = op[a].name /\ o.seen = op[a].seen
      /\ o.pc = "try" /\ o.upstream = price
  BY DEF CInv, Holds, Unasked
<1>2. op' = [op EXCEPT ![a] = o]
  BY DEF TestRule
<1>. HIDE DEF o
<1>3. op[a].seen # None /\ Sound(op[a].name, op[a].seen)
  BY DEF TestRule, CInv, Holds
<1>4. price = op[a].seen.price
  BY <1>3 DEF Sound
<1>5. Holds(o)
  BY <1>1, <1>3, <1>4 DEF CInv, Holds
<1>. QED BY <1>2, <1>5, StepRequest DEF TestRule

\* A route is stored by what a request holds.
LEMMA StepPut ==
  ASSUME CInv, NEW a \in Admins, NEW o, Holds(o), op' = [op EXCEPT ![a] = o],
         NEW name, NEW r, Sound(name, r), routes' = [routes EXCEPT ![name] = r], UNCHANGED <<rules, billed>>
  PROVE  CInv'
<1>1. \A n, q : Sound(n, q)' <=> Sound(n, q)
  BY DEF Sound
<1>2. \A p : Holds(p) => Holds(p)'
  BY <1>1 DEF Holds, Unasked
<1>. QED BY <1>1, <1>2 DEF CInv

\* An edit keeps the price only of a route that leads where it did.
LEMMA StepEditPut ==
  ASSUME CInv, NEW a \in Admins, EditPut(a)
  PROVE  CInv'
<1>. DEFINE r == Route(op[a].provider, op[a].upstream, PriceKept(op[a].seen, op[a].provider, op[a].upstream), op[a].enabled)
<1>1. Sound(op[a].name, op[a].seen)
  BY DEF EditPut, CInv, Holds
<1>2. Sound(op[a].name, r)
  BY <1>1 DEF Sound, Route, PriceKept
<1>3. Holds(Unasked)
  BY FreeHolds DEF Unasked
<1>. QED BY <1>2, <1>3, StepPut DEF EditPut, End

\* The rule of a model is stored before its route.
LEMMA StepPutRule ==
  ASSUME CInv, NEW a \in Admins, PutRule(a)
  PROVE  CInv'
<1>. DEFINE o == [op[a] EXCEPT !.pc = "priced"]
<1>1. /\ rules' = rules \cup {<<op[a].provider, op[a].name>>} /\ op' = [op EXCEPT ![a] = o]
      /\ routes' = routes /\ billed' = billed
  BY DEF PutRule, Go
<1>2. \A n, q : Sound(n, q) => Sound(n, q)'
  BY <1>1 DEF Sound
<1>3. \A p : Holds(p) => Holds(p)'
  BY <1>1, <1>2 DEF Holds
<1>4. PICK p, n, q : p = o /\ n = op[a].name /\ q = op[a].seen
  OBVIOUS
<1>5. /\ DOMAIN p = DOMAIN Unasked /\ p.left = op[a].left /\ p.name = n /\ p.seen = q
      /\ p.provider = op[a].provider /\ p.pc = "priced"
  BY <1>4 DEF CInv, Holds, Unasked
<1>6. Sound(n, q)'
  BY <1>2, <1>4 DEF PutRule, CInv, Holds
<1>7. op[a].left \subseteq Models /\ (q = None \/ q.provider = op[a].provider)
  BY <1>4 DEF PutRule, CInv, Holds
<1>8. <<p.provider, p.name>> \in rules'
  BY <1>1, <1>4, <1>5
<1>9. Holds(p)'
  BY <1>5, <1>6, <1>7, <1>8 DEF Holds
<1>10. op' = [op EXCEPT ![a] = p]
  BY <1>1, <1>4
<1>. HIDE DEF o
<1>. QED BY <1>1, <1>2, <1>3, <1>9, <1>10 DEF CInv

\* An import gives a route the price of the model it leads to, or keeps one of
\* the same provider, which can only be the price of that model.
LEMMA StepPutRoute ==
  ASSUME CInv, NEW a \in Admins, PutRoute(a)
  PROVE  CInv'
<1>. DEFINE price == IF op[a].pc = "priced" THEN <<op[a].provider, op[a].name>> ELSE None
            r     == Merged(op[a].seen, op[a].provider, op[a].name, price)
            o     == [op[a] EXCEPT !.pc = "next"]
<1>1. /\ Sound(op[a].name, op[a].seen) /\ (op[a].seen = None \/ op[a].seen.provider = op[a].provider)
      /\ op[a].pc = "priced" => <<op[a].provider, op[a].name>> \in rules
  BY DEF PutRoute, CInv, Holds
<1>2. Sound(op[a].name, r)
  BY <1>1 DEF Sound, Merged, Route
<1>3. Holds(o)
  <2>1. DOMAIN o = DOMAIN Unasked /\ o.left = op[a].left /\ o.pc = "next" /\ op[a].left \subseteq Models
    BY DEF CInv, Holds, Unasked
  <2>. QED BY <2>1, FreeHolds
<1>. HIDE DEF o, r
<1>4. op' = [op EXCEPT ![a] = o] /\ routes' = [routes EXCEPT ![op[a].name] = r] /\ UNCHANGED <<rules, billed>>
  BY DEF PutRoute, Go, o, r
<1>. QED BY <1>2, <1>3, <1>4, StepPut

\* A try is recorded with the price of what was called.
LEMMA StepTestRun ==
  ASSUME CInv, NEW a \in Admins, TestRun(a)
  PROVE  CInv'
<1>1. Sound(op[a].name, op[a].seen) /\ op[a].seen # None /\ op[a].upstream = op[a].seen.price
  BY DEF TestRun, CInv, Holds
<1>2. billed' = [provider |-> op[a].seen.provider, upstream |-> op[a].seen.upstream,
                 listed |-> op[a].seen.price, price |-> op[a].upstream]
  BY DEF TestRun
<1>3. billed'.price = billed'.listed
      /\ (billed'.price # None => billed'.price = <<billed'.provider, billed'.upstream>>)
  BY <1>1, <1>2 DEF Sound
<1>4. op' = [op EXCEPT ![a] = Unasked] /\ UNCHANGED <<routes, rules>>
  BY DEF TestRun, End
<1>5. Holds(Unasked)
  BY FreeHolds DEF Unasked
<1>6. \A n, q : Sound(n, q)' <=> Sound(n, q)
  BY <1>4 DEF Sound
<1>7. \A p : Holds(p) => Holds(p)'
  BY <1>4, <1>6 DEF Holds
<1>. QED BY <1>3, <1>4, <1>5, <1>6, <1>7 DEF CInv

\* Every step keeps the inductive invariant.
LEMMA StepCInv == CInv /\ [CNext]_cvars => CInv'
<1>. SUFFICES ASSUME CInv, [CNext]_cvars PROVE CInv'
  OBVIOUS
<1>1. ASSUME NEW a \in Admins,
             \/ Fail(a) \/ EditGet(a) \/ EditPut(a)
             \/ CreateProvider(a) \/ SaveAndSync(a) \/ SyncGet(a) \/ Fetch(a) \/ Lookup(a) \/ Finish(a) \/ PutRule(a) \/ PutRoute(a)
             \/ TestGet(a) \/ TestRule(a) \/ TestRun(a)
      PROVE  CInv'
  BY <1>1, StepGet, StepEditPut, StepList, StepLookup, StepPutRule, StepPutRoute, StepTestRule, StepTestRun
<1>2. CASE UNCHANGED cvars
  BY <1>2 DEF CInv, Holds, Sound, cvars
<1>. QED BY <1>1, <1>2 DEF CNext

\* However edits and imports (createModel, syncProviderModels) overlap and
\* wherever they fail, a priced route has the stored rule of the model it leads
\* to, and what testModel records is priced as what it called.
THEOREM PricedAsCalled == CSpec => []PricedAsItself
<1>1. CInv => PricedAsItself
  BY DEF CInv, Sound, PricedAsItself
<1>. QED BY <1>1, InitCInv, StepCInv, PTL DEF CSpec

-----------------------------------------------------------------------------
(***************************************************************************)
(* WorkerInit: which machine is ready.                                     *)
(*                                                                         *)
(* A worker that is called ready was found so, for every number of         *)
(* requests and machines and wherever stores fail.  The rows that requests *)
(* carry around are stale, and whole rows are written back: the argument   *)
(* is that a row never says more than was found out about the host it      *)
(* names, wherever it is kept.                                             *)
(***************************************************************************)

Columns == {"host", "status", "probe", "job"}

\* A row says of its host only what was found out.
Earned(w, hosts) ==
  /\ DOMAIN w = Columns
  /\ w.status = "ready" \/ w.probe = "ready" => w.host \in hosts

Probing == {"probe", "probed"}
Initialising == {"disks", "queue", "plan", "start", "logstart", "mark", "execute", "output", "verify",
                 "loghealth", "logend", "endjob", "endworker"}

\* What a request carries, by where it is.
Carries(p, hosts) ==
  /\ DOMAIN p = DOMAIN Idle
  /\ p.pc \in {"idle", "savedisks", "end"} \cup Probing \cup Initialising
  /\ p.pc \in Probing \cup Initialising => Earned(p.row, hosts)
  /\ p.pc \in Initialising \/ (p.pc = "probed" /\ p.ok) => p.row.host \in hosts

WInv ==
  /\ DOMAIN proc = Requests
  /\ Earned(row, reached)
  /\ \A r \in Requests : Carries(proc[r], reached)

\* The inductive invariant holds when the worker has been entered.
LEMMA InitWInv == WInit => WInv
BY DEF WInit, WInv, Earned, Carries, Columns, NormalizeWorkerServer, Idle, Probing, Initialising

\* A request moves on and a row is written, while more may have been found out.
LEMMA WorkMoves ==
  ASSUME WInv, NEW r \in Requests, reached \subseteq reached', Earned(row', reached'),
         \E p : proc' = [proc EXCEPT ![r] = p] /\ Carries(p, reached')
  PROVE  WInv'
<1>1. \A w : Earned(w, reached) => Earned(w, reached')
  BY DEF Earned
<1>2. \A p : Carries(p, reached) => Carries(p, reached')
  BY <1>1 DEF Carries
<1>. QED BY <1>2 DEF WInv

\* A request that writes no row moves on with the row it has.
LEMMA WorkMovesOn ==
  ASSUME WInv, NEW r \in Requests, NEW pc, Goes(r, pc), UNCHANGED <<row, reached>>,
         \/ pc = "end"
         \/ pc \in Initialising /\ proc[r].pc \in Initialising
  PROVE  WInv'
<1>. DEFINE p == [proc[r] EXCEPT !.pc = pc]
<1>1. DOMAIN p = DOMAIN Idle /\ p.pc = pc /\ p.row = proc[r].row /\ p.ok = proc[r].ok
  BY DEF WInv, Carries, Idle
<1>2. Carries(p, reached')
  BY <1>1 DEF WInv, Carries, Probing, Initialising
<1>3. proc' = [proc EXCEPT ![r] = p] /\ Earned(row', reached')
  BY DEF Goes, WInv
<1>. HIDE DEF p
<1>. QED BY <1>2, <1>3, WorkMoves

\* An edit forgets what was found out.
LEMMA StepSave ==
  ASSUME WInv, NEW r \in Requests, SaveWorker(r)
  PROVE  WInv'
<1>1. PICK h \in Hosts : PutWorker(NormalizeWorkerServer(h))
                         /\ proc' = [proc EXCEPT ![r] = [Idle EXCEPT !.pc = "savedisks", !.kind = "save", !.disks = h]]
  BY DEF SaveWorker
<1>2. Earned(row', reached') /\ reached' = reached
  BY <1>1 DEF SaveWorker, PutWorker, NormalizeWorkerServer, Earned, Columns
<1>3. Carries([Idle EXCEPT !.pc = "savedisks", !.kind = "save", !.disks = h], reached')
  BY DEF Carries, Idle, Probing, Initialising
<1>. QED BY <1>1, <1>2, <1>3, WorkMoves

\* A request takes the row as it is; an initialisation only one that a probe accepted.
LEMMA StepCome ==
  ASSUME WInv, NEW r \in Requests, Come(r)
  PROVE  WInv'
<1>1. PICK kind \in {"probe", "init"} :
        proc' = [proc EXCEPT ![r] = [Idle EXCEPT !.kind = kind, !.row = row,
                                       !.pc = IF kind = "probe" THEN "probe"
                                              ELSE IF row.probe = "ready" THEN "disks" ELSE "end"]]
  BY DEF Come
<1>. DEFINE p == [Idle EXCEPT !.kind = kind, !.row = row,
                    !.pc = IF kind = "probe" THEN "probe" ELSE IF row.probe = "ready" THEN "disks" ELSE "end"]
<1>2. /\ DOMAIN p = DOMAIN Idle /\ p.row = row
      /\ p.pc = IF kind = "probe" THEN "probe" ELSE IF row.probe = "ready" THEN "disks" ELSE "end"
  BY DEF Idle
<1>3. proc' = [proc EXCEPT ![r] = p] /\ row' = row /\ reached' = reached
  BY <1>1 DEF Come, tables
<1>. HIDE DEF p
<1>4. Carries(p, reached')
  BY <1>2, <1>3 DEF WInv, Earned, Carries, Probing, Initialising
<1>. QED BY <1>3, <1>4, WorkMoves DEF WInv

\* A probe says of the host it reached what it found, and nothing of another.
LEMMA StepProbe ==
  ASSUME WInv, NEW r \in Requests, Probe(r) \/ ProbePut(r)
  PROVE  WInv'
<1>1. CASE Probe(r)
  <2>1. PICK ok \in BOOLEAN :
          /\ proc' = [proc EXCEPT ![r] = [@ EXCEPT !.pc = "probed", !.ok = ok]]
          /\ reached' = IF ok THEN reached \cup {proc[r].row.host} ELSE reached
    BY <1>1 DEF Probe
  <2>. DEFINE p == [proc[r] EXCEPT !.pc = "probed", !.ok = ok]
  <2>2. DOMAIN p = DOMAIN Idle /\ p.pc = "probed" /\ p.ok = ok /\ p.row = proc[r].row
    BY DEF WInv, Carries, Idle
  <2>3. proc' = [proc EXCEPT ![r] = p] /\ row' = row /\ reached \subseteq reached'
    BY <1>1, <2>1 DEF Probe, tables
  <2>. HIDE DEF p
  <2>4. Earned(proc[r].row, reached) /\ Earned(row, reached)
    BY <1>1 DEF Probe, WInv, Carries, Probing
  <2>5. Carries(p, reached') /\ Earned(row', reached')
    BY <2>1, <2>2, <2>3, <2>4 DEF Earned, Carries, Probing, Initialising
  <2>. QED BY <2>3, <2>5, WorkMoves
<1>2. CASE ProbePut(r)
  <2>. DEFINE p == [proc[r] EXCEPT !.pc = "end"]
              status == IF proc[r].ok THEN "ready" ELSE "failed"
              w == [proc[r].row EXCEPT !.status = status, !.probe = status]
  <2>1. proc' = [proc EXCEPT ![r] = p] /\ row' = w /\ reached' = reached
    BY <1>2 DEF ProbePut, Goes, PutWorker, Probed
  <2>2. /\ Earned(proc[r].row, reached)
        /\ proc[r].ok => proc[r].row.host \in reached
    BY <1>2 DEF ProbePut, WInv, Carries, Probing
  <2>3. DOMAIN w = Columns /\ w.host = proc[r].row.host /\ w.status = status /\ w.probe = status
    BY <2>2 DEF Earned, Columns
  <2>4. Earned(w, reached)
    BY <2>2, <2>3 DEF Earned
  <2>5. DOMAIN p = DOMAIN Idle /\ p.pc = "end"
    BY DEF WInv, Carries, Idle
  <2>6. Carries(p, reached)
    BY <2>5 DEF Carries, Probing, Initialising
  <2>. HIDE DEF p, w
  <2>. QED BY <2>1, <2>4, <2>6, WorkMoves
<1>. QED BY <1>1, <1>2

\* The steps of an initialisation that write no row.
LEMMA StepJob ==
  ASSUME WInv, NEW r \in Requests,
         \/ QueueJob(r) \/ LogPlan(r) \/ StartJob(r) \/ LogStart(r)
         \/ LogOutput(r) \/ LogHealth(r) \/ LogEnd(r) \/ EndJob(r)
  PROVE  WInv'
<1>1. \E pc \in Initialising : Goes(r, pc) /\ proc[r].pc \in Initialising
  BY DEF QueueJob, LogPlan, StartJob, LogStart, LogOutput, LogHealth, LogEnd, EndJob, Initialising
<1>2. UNCHANGED <<row, reached>>
  BY DEF QueueJob, LogPlan, StartJob, LogStart, LogOutput, LogHealth, LogEnd, EndJob
<1>. QED BY <1>1, <1>2, WorkMovesOn

\* The steps of an initialisation that learn something.
LEMMA StepLearn ==
  ASSUME WInv, NEW r \in Requests, ListDisks(r) \/ ExecuteBootstrap(r) \/ VerifyBootstrap(r)
  PROVE  WInv'
<1>1. PICK p : /\ proc' = [proc EXCEPT ![r] = p] /\ DOMAIN p = DOMAIN Idle /\ p.row = proc[r].row
               /\ p.pc \in Initialising /\ proc[r].pc \in Initialising
  <2>1. DOMAIN proc[r] = DOMAIN Idle
    BY DEF WInv, Carries
  <2>2. CASE ListDisks(r)
    <3>. DEFINE p == [proc[r] EXCEPT !.pc = "queue", !.disks = disks]
    <3>1. DOMAIN p = DOMAIN Idle /\ p.row = proc[r].row /\ p.pc = "queue"
      BY <2>1 DEF Idle
    <3>2. proc' = [proc EXCEPT ![r] = p] /\ proc[r].pc = "disks"
      BY <2>2 DEF ListDisks
    <3>. HIDE DEF p
    <3>. QED BY <3>1, <3>2 DEF Initialising
  <2>3. CASE ExecuteBootstrap(r)
    <3>1. PICK ok \in BOOLEAN : proc' = [proc EXCEPT ![r] = [@ EXCEPT !.pc = "output", !.ok = ok]]
      BY <2>3 DEF ExecuteBootstrap
    <3>. DEFINE p == [proc[r] EXCEPT !.pc = "output", !.ok = ok]
    <3>2. DOMAIN p = DOMAIN Idle /\ p.row = proc[r].row /\ p.pc = "output"
      BY <2>1 DEF Idle
    <3>3. proc' = [proc EXCEPT ![r] = p] /\ proc[r].pc = "execute"
      BY <2>3, <3>1 DEF ExecuteBootstrap
    <3>. HIDE DEF p
    <3>. QED BY <3>2, <3>3 DEF Initialising
  <2>4. CASE VerifyBootstrap(r)
    <3>1. PICK ok : proc' = [proc EXCEPT ![r] = [@ EXCEPT !.pc = IF ok THEN "loghealth" ELSE "logend", !.ok = ok]]
      BY <2>4 DEF VerifyBootstrap
    <3>. DEFINE p == [proc[r] EXCEPT !.pc = IF ok THEN "loghealth" ELSE "logend", !.ok = ok]
    <3>2. DOMAIN p = DOMAIN Idle /\ p.row = proc[r].row /\ p.pc \in {"loghealth", "logend"}
      BY <2>1 DEF Idle
    <3>3. proc' = [proc EXCEPT ![r] = p] /\ proc[r].pc = "verify"
      BY <2>4, <3>1 DEF VerifyBootstrap
    <3>. HIDE DEF p
    <3>. QED BY <3>2, <3>3 DEF Initialising
  <2>. QED BY <2>2, <2>3, <2>4
<1>2. row' = row /\ reached \subseteq reached'
  BY DEF ListDisks, ExecuteBootstrap, VerifyBootstrap, tables
<1>3. Earned(p.row, reached) /\ p.row.host \in reached /\ Earned(row, reached)
  BY <1>1 DEF WInv, Carries
<1>4. Carries(p, reached') /\ Earned(row', reached')
  BY <1>1, <1>2, <1>3 DEF Earned, Carries, Probing, Initialising
<1>. QED BY <1>1, <1>2, <1>4, WorkMoves

\* The rows that an initialisation writes name the host it works on.
LEMMA StepMark ==
  ASSUME WInv, NEW r \in Requests, MarkInitializing(r) \/ EndWorker(r)
  PROVE  WInv'
<1>1. PICK w, pc : /\ row' = w /\ Goes(r, pc) /\ pc \in {"execute", "end"}
                   /\ DOMAIN w = Columns /\ w.host = proc[r].row.host
  <2>1. DOMAIN proc[r].row = Columns
    BY DEF MarkInitializing, EndWorker, WInv, Carries, Earned, Initialising
  <2>2. CASE MarkInitializing(r)
    <3>. DEFINE w == [proc[r].row EXCEPT !.status = "initializing", !.job = r]
    <3>1. DOMAIN w = Columns /\ w.host = proc[r].row.host
      BY <2>1 DEF Columns
    <3>2. row' = w /\ Goes(r, "execute")
      BY <2>2 DEF MarkInitializing, PutWorker
    <3>. HIDE DEF w
    <3>. QED BY <3>1, <3>2
  <2>3. CASE EndWorker(r)
    <3>. DEFINE w == [proc[r].row EXCEPT !.status = IF proc[r].ok THEN "ready" ELSE "failed", !.job = r]
    <3>1. DOMAIN w = Columns /\ w.host = proc[r].row.host
      BY <2>1 DEF Columns
    <3>2. row' = w /\ Goes(r, "end")
      BY <2>3 DEF EndWorker, PutWorker
    <3>. HIDE DEF w
    <3>. QED BY <3>1, <3>2
  <2>. QED BY <2>2, <2>3
<1>2. proc[r].pc \in Initialising /\ reached' = reached
  BY DEF MarkInitializing, EndWorker, Initialising
<1>3. proc[r].row.host \in reached /\ Earned(proc[r].row, reached) /\ DOMAIN proc[r] = DOMAIN Idle
  BY <1>2 DEF WInv, Carries
<1>4. Earned(row', reached')
  BY <1>1, <1>2, <1>3 DEF Earned
<1>. DEFINE p == [proc[r] EXCEPT !.pc = pc]
<1>5. DOMAIN p = DOMAIN Idle /\ p.pc = pc /\ p.row = proc[r].row
  BY <1>3 DEF Idle
<1>6. proc' = [proc EXCEPT ![r] = p]
  BY <1>1 DEF Goes
<1>. HIDE DEF p
<1>7. Carries(p, reached')
  BY <1>1, <1>2, <1>3, <1>5 DEF Carries, Probing, Initialising
<1>. QED BY <1>2, <1>4, <1>6, <1>7, WorkMoves

\* A request that ends where it is leaves everything else.
LEMMA StepEnds ==
  ASSUME WInv, NEW r \in Requests, ReplaceDisks(r) \/ StoreFails(r)
  PROVE  WInv'
<1>1. Goes(r, "end") /\ UNCHANGED <<row, reached>>
  BY DEF ReplaceDisks, StoreFails, tables
<1>. QED BY <1>1, WorkMovesOn

\* A restart ends every request.
LEMMA StepRestart ==
  ASSUME WInv, Restart
  PROVE  WInv'
<1>1. \A r \in Requests :
        /\ DOMAIN proc'[r] = DOMAIN Idle
        /\ proc'[r].pc \in {"idle", "end"}
  BY DEF Restart, WInv, Carries, Idle
<1>2. DOMAIN proc' = Requests /\ row' = row /\ reached' = reached
  BY DEF Restart, tables
<1>. QED BY <1>1, <1>2 DEF WInv, Carries, Probing, Initialising

\* Every step keeps the inductive invariant.
LEMMA StepWInv == WInv /\ [WNext]_wvars => WInv'
<1>. SUFFICES ASSUME WInv, [WNext]_wvars PROVE WInv'
  OBVIOUS
<1>1. ASSUME NEW r \in Requests,
             \/ SaveWorker(r) \/ ReplaceDisks(r) \/ Come(r) \/ Probe(r) \/ ProbePut(r) \/ ListDisks(r) \/ QueueJob(r)
             \/ LogPlan(r) \/ StartJob(r) \/ LogStart(r) \/ MarkInitializing(r) \/ ExecuteBootstrap(r) \/ LogOutput(r)
             \/ VerifyBootstrap(r) \/ LogHealth(r) \/ LogEnd(r) \/ EndJob(r) \/ EndWorker(r) \/ StoreFails(r)
      PROVE  WInv'
  BY <1>1, StepSave, StepEnds, StepCome, StepProbe, StepJob, StepLearn, StepMark
<1>2. CASE Restart
  BY <1>2, StepRestart
<1>3. CASE UNCHANGED wvars
  BY <1>3 DEF WInv, wvars, tables
<1>. QED BY <1>1, <1>2, <1>3 DEF WNext

\* However edits, probes and initialisations (probeWorkerServer,
\* initializeWorkerServer) overlap, fail and are cut off, a worker that its row
\* calls ready is on a host that a probe or a verified bootstrap found so, and
\* nothing is installed on any other.
THEOREM ReadyEarned == WSpec => []ReadyIsEarned
<1>1. WInv => ReadyIsEarned
  BY DEF WInv, Earned, Carries, Initialising, ReadyIsEarned
<1>. QED BY <1>1, InitWInv, StepWInv, PTL DEF WSpec

-----------------------------------------------------------------------------
(***************************************************************************)
(* ChatTurn: what an answer is, and what it costs.                         *)
(*                                                                         *)
(* An answer of the chat page is billed and stored whole, for every number *)
(* of turns and of pieces, whoever leaves and whatever fails.  The         *)
(* argument relates what the provider has sent and counted to what the     *)
(* handler has put together of it at each place: the pieces and counters   *)
(* of the turns that are over, then those of the turn under way, which     *)
(* there are only between its call and its end.                            *)
(***************************************************************************)

Counters == [in : Nat, out : Nat, total : Nat]
Piece == Nat \X Nat

Over == {"record", "store", "put", "answer", "over"}

\* The variables are records.
TurnShape ==
  /\ DOMAIN chat = {"pc", "stream", "image", "attempt", "status", "finish", "completed", "turnFinish", "err"}
  /\ chat.pc \in {"resolve", "call", "stream", "turn"} \cup Over
  /\ chat.attempt \in Nat
  /\ DOMAIN text = {"parsed", "turn", "all"}
  /\ text.parsed \in Seq(Piece) /\ text.turn \in Seq(Piece) /\ text.all \in Seq(Piece)
  /\ DOMAIN usage = {"turn", "sum"}
  /\ usage.turn \in Counters /\ usage.sum \in Counters
  /\ DOMAIN page = {"left", "gone", "shown", "told", "beat"}
  /\ DOMAIN books = {"record", "sent", "counted"}
  /\ books.sent \in Seq(Piece) /\ books.counted \in Counters

\* What was counted, in the turns that are over and in the one under way.
TurnCounted ==
  /\ books.counted = AddUsage(usage.sum, usage.turn)
  /\ usage.turn.total = usage.turn.in + usage.turn.out
  /\ usage.sum.total = usage.sum.in + usage.sum.out
  /\ chat.pc \notin {"stream", "turn"} => usage.turn = Zero
  /\ books.record # None => chat.pc \in Over /\ books.record.used = usage.sum

\* What was sent, in the turns that are over and in the one under way.
TurnSent ==
  /\ books.sent = text.all \o text.parsed
  /\ chat.pc \notin {"stream", "turn"} => text.parsed = <<>> /\ text.turn = <<>>
  /\ chat.pc = "stream" => text.turn = text.parsed
  /\ text.turn = <<>> \/ text.turn = text.parsed

\* What is told, when the answer is over.
TurnKept ==
  page.told \in {"done", "error"} => chat.pc = "over" /\ page.shown = Displayed(text.all)

TInv == TurnShape /\ TurnCounted /\ TurnSent /\ TurnKept

-----------------------------------------------------------------------------
\* Pieces are put together in whatever groups.
LEMMA PiecesAssociate == \A a, b, c \in Seq(Piece) : (a \o b) \o c = a \o (b \o c)
BY ConcatAssociative

\* The inductive invariant holds when the question arrives.
LEMMA InitTInv == TInit => TInv
<1>. SUFFICES ASSUME TInit PROVE TInv
  OBVIOUS
<1>1. <<>> \in Seq(Piece) /\ <<>> \o <<>> = <<>>
  BY EmptySeq, ConcatEmptySeq
<1>2. Zero \in Counters /\ AddUsage(Zero, Zero) = Zero /\ Zero.total = Zero.in + Zero.out
  BY DEF Zero, Counters, AddUsage
<1>3. PICK stream \in BOOLEAN, image \in BOOLEAN :
        chat = [pc |-> "resolve", stream |-> stream, image |-> image, attempt |-> 0, status |-> 0, finish |-> None,
                completed |-> FALSE, turnFinish |-> None, err |-> FALSE]
  BY DEF TInit
<1>4. TurnShape
  BY <1>1, <1>2, <1>3 DEF TInit, TurnShape
<1>5. TurnCounted
  BY <1>2, <1>3 DEF TInit, TurnCounted
<1>6. TurnSent
  BY <1>1, <1>3 DEF TInit, TurnSent
<1>7. TurnKept
  BY <1>3 DEF TInit, TurnKept
<1>. QED BY <1>4, <1>5, <1>6, <1>7 DEF TInv

\* What is told to the page, or found out about it, before the end.
LEMMA StepPage ==
  ASSUME TInv, Leave \/ HeartbeatFails \/ AutosaveGet \/ OtherSaves \/ (\E s \in store.saves : AutosavePut(s))
  PROVE  TInv'
<1>1. DOMAIN page' = DOMAIN page /\ page'.told = page.told /\ page'.shown = page.shown
      /\ chat' = chat /\ text' = text /\ usage' = usage /\ books' = books
  BY DEF Leave, HeartbeatFails, AutosaveGet, OtherSaves, AutosavePut, TInv, TurnShape
<1>. QED BY <1>1 DEF TInv, TurnShape, TurnCounted, TurnSent, TurnKept

\* The handler moves on with nothing new in hand.
LEMMA TurnMoves ==
  ASSUME TInv, UNCHANGED <<text, usage, books>>,
         DOMAIN chat' = DOMAIN chat, chat'.attempt = chat.attempt,
         DOMAIN page' = DOMAIN page,
         \/ chat.pc = "resolve" /\ chat'.pc \in {"call", "over"} /\ page'.told \in {"replace", page.told}
         \/ chat.pc = "call" /\ chat'.pc \in {"stream", "turn"} /\ page'.told = page.told
         \/ chat.pc = "stream" /\ chat'.pc \in {"stream", "turn"} /\ page'.told = page.told
  PROVE  TInv'
<1>1. page.told \notin {"done", "error"} /\ page'.told \notin {"done", "error"}
  BY DEF TInv, TurnKept
<1>2. TurnShape'
  BY DEF TInv, TurnShape, Over
<1>3. TurnCounted'
  BY DEF TInv, TurnCounted, Over
<1>4. TurnSent'
  BY DEF TInv, TurnSent
<1>5. TurnKept'
  BY <1>1 DEF TInv, TurnKept, Over
<1>. QED BY <1>2, <1>3, <1>4, <1>5 DEF TInv

\* The steps before a turn has an answer.
LEMMA StepCall ==
  ASSUME TInv,
         \/ ResolveFails \/ StreamChat \/ SendChat
         \/ BuildFails \/ CallFails \/ CallRefused \/ BodyFails \/ CallStreams
         \/ StreamFinish \/ StreamEnds \/ StreamBreaks
  PROVE  TInv'
<1>. USE DEF TInv, TurnShape
<1>1. CASE ResolveFails
  BY <1>1, TurnMoves DEF ResolveFails
<1>2. CASE StreamChat \/ SendChat
  BY <1>2, TurnMoves DEF StreamChat, SendChat
<1>3. CASE BuildFails \/ CallFails \/ CallRefused \/ BodyFails
  <2>1. PICK s \in {200, 400, 429, 502} : chat' = Turn(s, TRUE)
    <3>. HIDE DEF TInv, TurnShape
    <3>1. CASE BuildFails
      BY <3>1 DEF BuildFails
    <3>2. CASE CallFails
      BY <3>2 DEF CallFails
    <3>3. CASE CallRefused
      BY <3>3 DEF CallRefused
    <3>4. CASE BodyFails
      BY <3>4 DEF BodyFails
    <3>. QED BY <1>3, <3>1, <3>2, <3>3, <3>4
  <2>2. DOMAIN chat' = DOMAIN chat /\ chat'.attempt = chat.attempt /\ chat'.pc = "turn"
    BY <2>1 DEF Turn
  <2>3. chat.pc = "call" /\ UNCHANGED <<text, usage, page, books>>
    BY <1>3 DEF BuildFails, CallFails, CallRefused, BodyFails
  <2>. QED BY <2>2, <2>3, TurnMoves
<1>4. CASE CallStreams
  BY <1>4, TurnMoves DEF CallStreams
<1>5. CASE StreamFinish
  <2>1. PICK finish : chat' = [chat EXCEPT !.completed = TRUE, !.turnFinish = finish]
    BY <1>5 DEF StreamFinish
  <2>. QED BY <1>5, <2>1, TurnMoves DEF StreamFinish
<1>6. CASE StreamEnds \/ StreamBreaks
  <2>1. PICK err : chat' = Turn(200, err)
    <3>. HIDE DEF TInv, TurnShape
    <3>. QED BY <1>6 DEF StreamEnds, StreamBreaks
  <2>2. DOMAIN chat' = DOMAIN chat /\ chat'.attempt = chat.attempt /\ chat'.pc = "turn"
    BY <2>1 DEF Turn
  <2>3. chat.pc = "stream" /\ UNCHANGED <<text, usage, page, books>>
    <3>. HIDE DEF TInv, TurnShape
    <3>. QED BY <1>6 DEF StreamEnds, StreamBreaks
  <2>. QED BY <2>2, <2>3, TurnMoves
<1>. QED BY <1>1, <1>2, <1>3, <1>4, <1>5, <1>6

\* Counters that are added up stay counters, with their total.
LEMMA AddCounters ==
  ASSUME NEW a \in Counters, NEW b \in Counters, a.total = a.in + a.out, b.total = b.in + b.out
  PROVE  /\ AddUsage(a, b) \in Counters
         /\ AddUsage(a, b).total = AddUsage(a, b).in + AddUsage(a, b).out
         /\ AddUsage(a, Zero) = a
BY DEF Counters, AddUsage, Zero

\* A page is shown a piece, or found to be gone.
LEMMA ShowKeeps ==
  ASSUME TurnShape, NEW piece, Show(piece)
  PROVE  DOMAIN page' = DOMAIN page /\ page'.told = page.told
BY DEF TurnShape, Show

\* A whole answer is what the turn sent and counted.
LEMMA StepReceived ==
  ASSUME TInv, NEW out \in Pieces, NEW finish, NEW used \in {0, 1}, Received(out, finish, used),
         DOMAIN text' = DOMAIN text, text'.all = text.all, text'.parsed = out, text'.turn \in {<<>>, out},
         DOMAIN page' = DOMAIN page, page'.told = page.told
  PROVE  TInv'
<1>. DEFINE now == [in |-> used, out |-> used, total |-> 2 * used]
<1>1. chat.pc = "call" /\ usage.turn = Zero /\ text.parsed = <<>> /\ page.told \notin {"done", "error"}
      /\ books.record = None
  BY DEF Received, TInv, TurnCounted, TurnSent, TurnKept, Over
<1>2. now \in Counters /\ now.total = now.in + now.out
  BY DEF Counters
<1>3. DOMAIN chat' = DOMAIN chat /\ chat'.pc = "turn" /\ chat'.attempt = chat.attempt
  BY DEF Received, Turn, TInv, TurnShape
<1>. HIDE DEF now
<1>4. usage' = [usage EXCEPT !.turn = now]
      /\ books' = [books EXCEPT !.sent = books.sent \o out, !.counted = AddUsage(books.counted, now)]
  BY DEF Received, now
<1>5. out \in Seq(Piece) /\ <<>> \in Seq(Piece)
  <2>1. <<chat.attempt, 1>> \in Piece
    BY DEF Piece, TInv, TurnShape
  <2>2. <<<<chat.attempt, 1>>>> \in Seq(Piece) /\ <<>> \in Seq(Piece)
    BY <2>1, EmptySeq
  <2>. QED BY <2>2 DEF Pieces
<1>6. books.sent = text.all /\ books.counted = usage.sum
  BY <1>1, AddCounters, ConcatEmptySeq DEF TInv, TurnShape, TurnCounted, TurnSent, Zero, AddUsage, Counters
<1>7. /\ usage'.turn = now /\ usage'.sum = usage.sum /\ DOMAIN usage' = DOMAIN usage
      /\ books'.sent = text.all \o out /\ books'.counted = AddUsage(usage.sum, now)
      /\ books'.record = None /\ DOMAIN books' = DOMAIN books
  BY <1>1, <1>4, <1>6 DEF TInv, TurnShape
<1>8. TurnShape'
  <2>1. books'.counted \in Counters
    BY <1>2, <1>7, AddCounters DEF TInv, TurnShape, TurnCounted
  <2>2. books'.sent \in Seq(Piece)
    BY <1>5, <1>7, ConcatProperties DEF TInv, TurnShape
  <2>3. text'.parsed \in Seq(Piece) /\ text'.turn \in Seq(Piece) /\ text'.all \in Seq(Piece)
    BY <1>5 DEF TInv, TurnShape
  <2>. QED BY <1>2, <1>3, <1>7, <2>1, <2>2, <2>3 DEF TInv, TurnShape
<1>9. TurnCounted'
  BY <1>2, <1>3, <1>7 DEF TInv, TurnCounted
<1>10. TurnSent'
  BY <1>3, <1>7 DEF TurnSent
<1>11. TurnKept'
  BY <1>1, <1>7 DEF TurnKept
<1>. QED BY <1>8, <1>9, <1>10, <1>11 DEF TInv

\* The answers that come whole.
LEMMA StepAnswers ==
  ASSUME TInv, CallAnswers \/ ImageAnswers
  PROVE  TInv'
<1>1. CASE CallAnswers
  <2>1. PICK out \in Pieces, finish \in {"stop", "length"}, used \in {0, 1} :
          Received(out, finish, used) /\ text' = [text EXCEPT !.parsed = out]
    BY <1>1 DEF CallAnswers
  <2>2. text.turn = <<>>
    BY <2>1 DEF Received, TInv, TurnSent
  <2>3. DOMAIN text' = DOMAIN text /\ text'.all = text.all /\ text'.parsed = out /\ text'.turn \in {<<>>, out}
    BY <2>1, <2>2 DEF TInv, TurnShape
  <2>. QED BY <1>1, <2>1, <2>3, StepReceived DEF CallAnswers
<1>2. CASE ImageAnswers
  <2>1. PICK out \in Pieces, used \in {0, 1} :
          /\ Received(out, "stop", used)
          /\ \/ text' = [text EXCEPT !.parsed = out, !.turn = out] /\ Show(out[1])
             \/ text' = [text EXCEPT !.parsed = out] /\ page' = page
    BY <1>2 DEF ImageAnswers
  <2>2. text.turn = <<>>
    BY <2>1 DEF Received, TInv, TurnSent
  <2>3. DOMAIN text' = DOMAIN text /\ text'.all = text.all /\ text'.parsed = out /\ text'.turn \in {<<>>, out}
    BY <2>1, <2>2 DEF TInv, TurnShape
  <2>4. DOMAIN page' = DOMAIN page /\ page'.told = page.told
    BY <2>1, ShowKeeps DEF TInv
  <2>. QED BY <2>1, <2>3, <2>4, StepReceived
<1>. QED BY <1>1, <1>2

\* A piece of a stream is kept before it is shown.
LEMMA StepDelta ==
  ASSUME TInv, StreamDelta
  PROVE  TInv'
<1>. DEFINE piece == <<chat.attempt, Len(text.parsed) + 1>>
<1>1. /\ chat.pc = "stream" /\ chat' = chat /\ usage' = usage
      /\ text' = [text EXCEPT !.parsed = Append(text.parsed, piece), !.turn = Append(text.turn, piece)]
      /\ books' = [books EXCEPT !.sent = Append(books.sent, piece)]
      /\ Show(piece)
  BY DEF StreamDelta
<1>2. piece \in Piece
  BY LenProperties DEF TInv, TurnShape, Piece
<1>. HIDE DEF piece
<1>3. DOMAIN page' = DOMAIN page /\ page'.told = page.told
  BY <1>1, ShowKeeps DEF TInv
<1>4. /\ text'.parsed = Append(text.parsed, piece) /\ text'.turn = Append(text.turn, piece) /\ text'.all = text.all
      /\ DOMAIN text' = DOMAIN text
      /\ books'.sent = Append(books.sent, piece) /\ books'.counted = books.counted
      /\ books'.record = books.record /\ DOMAIN books' = DOMAIN books
  BY <1>1 DEF TInv, TurnShape
<1>5. text.turn = text.parsed /\ books.sent = text.all \o text.parsed
  BY <1>1 DEF TInv, TurnSent
<1>6. Append(text.all \o text.parsed, piece) = text.all \o Append(text.parsed, piece)
  <2>1. text.all \in Seq(Piece) /\ text.parsed \in Seq(Piece) /\ <<piece>> \in Seq(Piece)
    BY <1>2 DEF TInv, TurnShape
  <2>2. text.all \o text.parsed \in Seq(Piece)
    BY <2>1, ConcatProperties
  <2>3. /\ Append(text.all \o text.parsed, piece) = (text.all \o text.parsed) \o <<piece>>
        /\ Append(text.parsed, piece) = text.parsed \o <<piece>>
    BY <1>2, <2>1, <2>2, AppendIsConcat
  <2>4. (text.all \o text.parsed) \o <<piece>> = text.all \o (text.parsed \o <<piece>>)
    BY <2>1, PiecesAssociate, Zenon
  <2>. QED BY <2>3, <2>4
<1>7. TurnShape'
  BY <1>1, <1>2, <1>3, <1>4, AppendProperties DEF TInv, TurnShape
<1>8. TurnCounted'
  BY <1>1, <1>4 DEF TInv, TurnCounted
<1>9. TurnSent'
  BY <1>1, <1>4, <1>5, <1>6 DEF TurnSent
<1>10. TurnKept'
  BY <1>1, <1>3, <1>4 DEF TInv, TurnKept, Over
<1>. QED BY <1>7, <1>8, <1>9, <1>10 DEF TInv

\* The counters of a stream are what it reported, in whatever parts.
LEMMA StepUsage ==
  ASSUME TInv, StreamUsage
  PROVE  TInv'
<1>1. PICK next \in {[in |-> 1, out |-> 0, total |-> 1], [in |-> 0, out |-> 1, total |-> 1]} :
        /\ IF next.in > 0 THEN usage.turn.in = 0 ELSE usage.turn.in > 0 /\ usage.turn.out = 0
        /\ usage' = [usage EXCEPT !.turn = MergeUsage(usage.turn, next)]
        /\ books' = [books EXCEPT !.counted = [in |-> books.counted.in + next.in, out |-> books.counted.out + next.out,
                                               total |-> books.counted.total + 1]]
  BY DEF StreamUsage
<1>2. chat.pc = "stream" /\ UNCHANGED <<chat, text, page>>
  BY DEF StreamUsage
<1>3. /\ usage.turn \in Counters /\ usage.sum \in Counters /\ books.counted \in Counters
      /\ usage.turn.total = usage.turn.in + usage.turn.out
  BY DEF TInv, TurnShape, TurnCounted
<1>. DEFINE turn    == MergeUsage(usage.turn, next)
            counted == [in |-> books.counted.in + next.in, out |-> books.counted.out + next.out,
                        total |-> books.counted.total + 1]
<1>4. /\ turn \in Counters /\ turn.total = turn.in + turn.out
      /\ turn = AddUsage(usage.turn, next)
  <2>1. CASE next = [in |-> 1, out |-> 0, total |-> 1]
    BY <1>1, <1>3, <2>1 DEF MergeUsage, Counters, AddUsage
  <2>2. CASE next = [in |-> 0, out |-> 1, total |-> 1]
    BY <1>1, <1>3, <2>2 DEF MergeUsage, Counters, AddUsage
  <2>. QED BY <2>1, <2>2
<1>5. counted \in Counters /\ counted = AddUsage(usage.sum, turn)
  <2>1. books.counted = AddUsage(usage.sum, usage.turn)
    BY DEF TInv, TurnCounted
  <2>2. next.in \in Nat /\ next.out \in Nat /\ next.total = 1
    OBVIOUS
  <2>. QED BY <1>3, <1>4, <2>1, <2>2 DEF Counters, AddUsage
<1>. HIDE DEF turn, counted
<1>6. /\ usage'.turn = turn /\ usage'.sum = usage.sum /\ DOMAIN usage' = DOMAIN usage
      /\ books'.counted = counted /\ books'.sent = books.sent /\ DOMAIN books' = DOMAIN books
      /\ books'.record = books.record
  BY <1>1 DEF turn, counted, TInv, TurnShape
<1>7. TurnShape'
  BY <1>2, <1>4, <1>5, <1>6 DEF TInv, TurnShape
<1>8. TurnCounted'
  BY <1>2, <1>4, <1>5, <1>6 DEF TInv, TurnCounted
<1>9. TurnSent' /\ TurnKept'
  BY <1>2, <1>6 DEF TInv, TurnSent, TurnKept
<1>. QED BY <1>7, <1>8, <1>9 DEF TInv

\* A turn that is over is added whole, the failed one too.
LEMMA StepTurnOver ==
  ASSUME TInv, TurnOver
  PROVE  TInv'
<1>1. /\ chat.pc = "turn" /\ page' = page /\ books' = books
      /\ text' = [parsed |-> <<>>, turn |-> <<>>, all |-> text.all \o TurnOutput]
      /\ usage' = [turn |-> Zero, sum |-> AddUsage(usage.sum, usage.turn)]
  BY DEF TurnOver
<1>2. DOMAIN chat' = DOMAIN chat /\ chat'.pc \in {"call", "record"} /\ chat'.attempt \in {chat.attempt, chat.attempt + 1}
  <2>1. PICK pc, attempt, finish :
          /\ pc \in {"call", "record"} /\ attempt \in {chat.attempt, chat.attempt + 1}
          /\ chat' = [chat EXCEPT !.finish = finish, !.turnFinish = None, !.completed = FALSE, !.pc = pc, !.attempt = attempt]
    <3>. DEFINE more == ~chat.err /\ ~chat.image /\ Continues(chat.turnFinish)
                last == IF chat.turnFinish # None THEN chat.turnFinish ELSE chat.finish
    <3>1. chat' = [chat EXCEPT !.finish = last, !.turnFinish = None, !.completed = FALSE,
                               !.pc = IF more THEN "call" ELSE "record",
                               !.attempt = IF more THEN chat.attempt + 1 ELSE chat.attempt]
      BY DEF TurnOver
    <3>. HIDE DEF more, last
    <3>. QED BY <3>1
  <2>. QED BY <2>1 DEF TInv, TurnShape
<1>3. TurnOutput = text.parsed
  BY DEF TurnOutput, TInv, TurnSent
<1>4. text.all \in Seq(Piece) /\ text.parsed \in Seq(Piece) /\ <<>> \in Seq(Piece)
  BY EmptySeq DEF TInv, TurnShape
<1>5. text.all \o text.parsed \in Seq(Piece) /\ (text.all \o text.parsed) \o <<>> = text.all \o text.parsed
  BY <1>4, ConcatProperties, ConcatEmptySeq
<1>6. /\ AddUsage(usage.sum, usage.turn) \in Counters /\ Zero \in Counters /\ Zero.total = Zero.in + Zero.out
      /\ AddUsage(usage.sum, usage.turn).total = AddUsage(usage.sum, usage.turn).in + AddUsage(usage.sum, usage.turn).out
      /\ AddUsage(AddUsage(usage.sum, usage.turn), Zero) = AddUsage(usage.sum, usage.turn)
  <2>1. Zero \in Counters /\ Zero.total = Zero.in + Zero.out
    BY DEF Zero, Counters
  <2>2. /\ AddUsage(usage.sum, usage.turn) \in Counters
        /\ AddUsage(usage.sum, usage.turn).total = AddUsage(usage.sum, usage.turn).in + AddUsage(usage.sum, usage.turn).out
    BY AddCounters DEF TInv, TurnShape, TurnCounted
  <2>. QED BY <2>1, <2>2, AddCounters
<1>7. chat'.attempt \in Nat
  BY <1>2 DEF TInv, TurnShape
<1>8. TurnShape'
  BY <1>1, <1>2, <1>3, <1>4, <1>5, <1>6, <1>7 DEF TInv, TurnShape, Over
<1>9. TurnCounted'
  BY <1>1, <1>2, <1>6 DEF TInv, TurnCounted, Over
<1>10. TurnSent'
  BY <1>1, <1>2, <1>3, <1>5 DEF TInv, TurnSent
<1>11. TurnKept'
  BY <1>1, <1>2 DEF TInv, TurnKept, Over
<1>. QED BY <1>8, <1>9, <1>10, <1>11 DEF TInv

\* The end: the record, the session and the answer are made of what all turns gave.
LEMMA StepEnd ==
  ASSUME TInv, Record \/ StoreGet \/ StorePut \/ StreamAnswer \/ PageAnswer
  PROVE  TInv'
<1>. USE DEF Over
<1>1. /\ chat.pc \in Over /\ chat'.pc \in Over /\ chat.pc # "over" /\ DOMAIN chat' = DOMAIN chat
      /\ chat'.attempt = chat.attempt /\ text' = text /\ usage' = usage
  BY DEF Record, StoreGet, StorePut, StreamAnswer, PageAnswer, TInv, TurnShape
<1>2. page.told \notin {"done", "error"}
  BY <1>1 DEF TInv, TurnKept
<1>3. /\ DOMAIN page' = DOMAIN page
      /\ page'.told \in {"done", "error"} => chat'.pc = "over" /\ page'.shown = Displayed(text.all)
  <2>0. "gone" \in DOMAIN page /\ "told" \in DOMAIN page
    BY DEF TInv, TurnShape
  <2>1. CASE Record
    BY <1>2, <2>0, <2>1 DEF Record
  <2>2. CASE StoreGet \/ StorePut
    BY <1>2, <2>2 DEF StoreGet, StorePut
  <2>3. CASE StreamAnswer \/ PageAnswer
    BY <1>2, <2>3 DEF StreamAnswer, PageAnswer, Told, TInv, TurnShape
  <2>. QED BY <2>1, <2>2, <2>3
<1>4. /\ DOMAIN books' = DOMAIN books /\ books'.sent = books.sent /\ books'.counted = books.counted
      /\ books'.record = books.record \/ books'.record.used = usage.sum
  <2>1. CASE Record
    BY <2>1 DEF Record, TInv, TurnShape
  <2>2. CASE StoreGet \/ StorePut
    BY <2>2 DEF StoreGet, StorePut
  <2>3. CASE StreamAnswer \/ PageAnswer
    BY <2>3 DEF StreamAnswer, PageAnswer
  <2>. QED BY <2>1, <2>2, <2>3
<1>5. TurnShape'
  BY <1>1, <1>3, <1>4 DEF TInv, TurnShape
<1>6. TurnCounted'
  BY <1>1, <1>4 DEF TInv, TurnCounted
<1>7. TurnSent'
  BY <1>1, <1>4 DEF TInv, TurnSent
<1>8. TurnKept'
  BY <1>1, <1>3, <1>4 DEF TInv, TurnKept
<1>. QED BY <1>5, <1>6, <1>7, <1>8 DEF TInv

\* Every step keeps the inductive invariant.
LEMMA StepTInv == TInv /\ [TNext]_tvars => TInv'
<1>. SUFFICES ASSUME TInv, [TNext]_tvars PROVE TInv'
  OBVIOUS
<1>1. CASE UNCHANGED tvars
  BY <1>1 DEF tvars, TInv, TurnShape, TurnCounted, TurnSent, TurnKept
<1>. QED BY <1>1, StepPage, StepCall, StepAnswers, StepDelta, StepUsage, StepTurnOver, StepEnd DEF TNext

\* The usage that is recorded for an answer (executeConsoleChat) has the counters
\* of all its turns, of a failed one and of those no page waited for as well.
THEOREM AllTurnsBilled == TSpec => []TurnsAreBilled
<1>1. TInv => TurnsAreBilled
  <2>. SUFFICES ASSUME TInv, books.record # None
                PROVE  books.record.used = books.counted
                       /\ books.record.used.total = books.record.used.in + books.record.used.out
    BY DEF TurnsAreBilled
  <2>1. usage.turn = Zero /\ books.record.used = usage.sum
    BY DEF TInv, TurnCounted, Over
  <2>2. books.counted = usage.sum
    BY <2>1, AddCounters DEF TInv, TurnShape, TurnCounted, Zero, Counters, AddUsage
  <2>. QED BY <2>1, <2>2 DEF TInv, TurnCounted
<1>. QED BY <1>1, InitTInv, StepTInv, PTL DEF TSpec

\* What a page has been shown before it was told how the answer ends.
TurnShown == page.told \notin {"done", "error"} => page.shown \in Seq(Piece) /\ Follows(page.shown, books.sent)

\* A piece that is sent is shown after those that were, or not at all.
LEMMA ShownNext ==
  ASSUME NEW shown \in Seq(Piece), NEW sent \in Seq(Piece), NEW piece \in Piece, Follows(shown, sent)
  PROVE  /\ Follows(shown, Append(sent, piece))
         /\ Append(shown, piece) \in Seq(Piece) /\ Follows(Append(shown, piece), Append(sent, piece))
<1>1. /\ DOMAIN shown = 1 .. Len(shown) /\ DOMAIN sent = 1 .. Len(sent) /\ Len(shown) \in Nat /\ Len(sent) \in Nat
      /\ DOMAIN Append(shown, piece) = 1 .. Len(shown) + 1 /\ DOMAIN Append(sent, piece) = 1 .. Len(sent) + 1
      /\ \A i \in 1 .. Len(shown) : Append(shown, piece)[i] = shown[i]
      /\ \A i \in 1 .. Len(sent) : Append(sent, piece)[i] = sent[i]
      /\ Append(shown, piece)[Len(shown) + 1] = piece /\ Append(sent, piece)[Len(sent) + 1] = piece
      /\ Append(shown, piece) \in Seq(Piece)
  BY AppendProperties, LenProperties
<1>. DEFINE next == Append(sent, piece)
            seen == Append(shown, piece)
<1>. HIDE DEF next, seen
<1>2. ASSUME NEW j \in 1 .. Len(shown)
      PROVE  \E b \in 1 .. Len(sent) : shown[j] = next[b] /\ \A i \in 1 .. j - 1 : \E a \in 1 .. b - 1 : shown[i] = next[a]
  <2>1. PICK b \in 1 .. Len(sent) : shown[j] = sent[b] /\ \A i \in 1 .. j - 1 : \E a \in 1 .. b - 1 : shown[i] = sent[a]
    BY <1>1 DEF Follows
  <2>2. \A a \in 1 .. b : next[a] = sent[a]
    BY <1>1, <2>1 DEF next
  <2>. QED BY <1>1, <2>1, <2>2
<1>3. \A i \in 1 .. Len(shown) : \E a \in 1 .. Len(sent) : shown[i] = next[a]
  BY <1>2
<1>4. Follows(shown, next)
  BY <1>1, <1>2 DEF Follows, next
<1>5. Follows(seen, next)
  <2>1. ASSUME NEW j \in 1 .. Len(shown) + 1
        PROVE  \E b \in 1 .. Len(sent) + 1 : seen[j] = next[b] /\ \A i \in 1 .. j - 1 : \E a \in 1 .. b - 1 : seen[i] = next[a]
    <3>1. CASE j = Len(shown) + 1
      <4>1. seen[j] = next[Len(sent) + 1] /\ Len(sent) + 1 \in 1 .. Len(sent) + 1 /\ Len(sent) + 1 - 1 = Len(sent) /\ j - 1 = Len(shown)
        BY <1>1, <3>1 DEF seen, next
      <4>2. \A i \in 1 .. Len(shown) : \E a \in 1 .. Len(sent) : seen[i] = next[a]
        BY <1>1, <1>3 DEF seen
      <4>. QED BY <4>1, <4>2
    <3>2. CASE j \in 1 .. Len(shown)
      <4>1. PICK b \in 1 .. Len(sent) : shown[j] = next[b] /\ \A i \in 1 .. j - 1 : \E a \in 1 .. b - 1 : shown[i] = next[a]
        BY <1>2, <3>2
      <4>2. \A i \in 1 .. j : seen[i] = shown[i]
        BY <1>1, <3>2 DEF seen
      <4>. QED BY <1>1, <3>2, <4>1, <4>2
    <3>. QED BY <1>1, <3>1, <3>2
  <2>2. DOMAIN seen = 1 .. Len(shown) + 1 /\ DOMAIN next = 1 .. Len(sent) + 1
    BY <1>1 DEF seen, next
  <2>3. SUFFICES ASSUME NEW j \in DOMAIN seen
                 PROVE  \E b \in DOMAIN next : seen[j] = next[b] /\ \A i \in 1 .. j - 1 : \E a \in 1 .. b - 1 : seen[i] = next[a]
    BY Zenon DEF Follows
  <2>4. j \in 1 .. Len(shown) + 1
    BY <2>2
  <2>. QED BY <2>1, <2>2, <2>4, Zenon
<1>. QED BY <1>1, <1>4, <1>5 DEF seen, next

\* A whole answer is a piece more, or none.
LEMMA ReceivedSends ==
  ASSUME TInv, NEW out \in Pieces, NEW finish, NEW used \in {0, 1}, Received(out, finish, used)
  PROVE  \/ out = <<>> /\ books'.sent = books.sent
         \/ <<chat.attempt, 1>> \in Piece /\ out = <<<<chat.attempt, 1>>>> /\ books'.sent = Append(books.sent, <<chat.attempt, 1>>)
<1>0. books.sent \in Seq(Piece) /\ DOMAIN books = {"record", "sent", "counted"}
  BY DEF TInv, TurnShape
<1>1. books'.sent = books.sent \o out
  BY <1>0 DEF Received
<1>2. <<chat.attempt, 1>> \in Piece
  BY DEF Piece, TInv, TurnShape
<1>3. CASE out = <<>>
  BY <1>0, <1>1, <1>3, ConcatEmptySeq
<1>4. CASE out = <<<<chat.attempt, 1>>>>
  BY <1>0, <1>1, <1>2, <1>4, AppendIsConcat
<1>. QED BY <1>3, <1>4 DEF Pieces

\* Every step shows what it sends, or does not change what was shown.
LEMMA StepShown == TInv /\ TurnShown /\ [TNext]_tvars => TurnShown'
<1>. SUFFICES ASSUME TInv, TurnShown, [TNext]_tvars, page'.told \notin {"done", "error"}
              PROVE  page'.shown \in Seq(Piece) /\ Follows(page'.shown, books'.sent)
  BY DEF TurnShown
<1>1. books.sent \in Seq(Piece) /\ DOMAIN page = {"left", "gone", "shown", "told", "beat"} /\ DOMAIN books = {"record", "sent", "counted"}
  BY DEF TInv, TurnShape
<1>2. ASSUME NEW piece \in Piece, books'.sent = Append(books.sent, piece), page'.told = page.told,
             page'.shown \in {page.shown, Append(page.shown, piece)}
      PROVE  page'.shown \in Seq(Piece) /\ Follows(page'.shown, books'.sent)
  <2>1. page.told \notin {"done", "error"}
    BY <1>2
  <2>2. page.shown \in Seq(Piece) /\ Follows(page.shown, books.sent)
    BY <2>1 DEF TurnShown
  <2>3. PICK shown \in Seq(Piece), sent \in Seq(Piece) : shown = page.shown /\ sent = books.sent
    BY <1>1, <2>2
  <2>4. /\ Follows(shown, Append(sent, piece))
        /\ Append(shown, piece) \in Seq(Piece) /\ Follows(Append(shown, piece), Append(sent, piece))
    BY <2>2, <2>3, ShownNext
  <2>5. books'.sent = Append(sent, piece) /\ page'.shown \in {shown, Append(shown, piece)}
    BY <1>2, <2>3
  <2>. QED BY <2>4, <2>5
<1>3. ASSUME books'.sent = books.sent, page'.told = page.told, page'.shown = page.shown
      PROVE  page'.shown \in Seq(Piece) /\ Follows(page'.shown, books'.sent)
  BY <1>3 DEF TurnShown
<1>4. ASSUME NEW piece, Show(piece)
      PROVE  page'.told = page.told /\ page'.shown \in {page.shown, Append(page.shown, piece)}
  BY <1>1, <1>4 DEF Show
<1>5. ASSUME NEW out \in Pieces, NEW finish, NEW used \in {0, 1}, Received(out, finish, used)
      PROVE  \/ out = <<>> /\ books'.sent = books.sent
             \/ <<chat.attempt, 1>> \in Piece /\ out = <<<<chat.attempt, 1>>>> /\ books'.sent = Append(books.sent, <<chat.attempt, 1>>)
  BY <1>5, ReceivedSends
<1>6. CASE CallAnswers
  <2>1. PICK out \in Pieces, finish \in {"stop", "length"}, used \in {0, 1} : Received(out, finish, used)
    BY <1>6 DEF CallAnswers
  <2>2. page' = page
    BY <1>6 DEF CallAnswers
  <2>. QED BY <1>2, <1>3, <1>5, <2>1, <2>2
<1>7. CASE ImageAnswers
  <2>1. PICK out \in Pieces, used \in {0, 1} :
          Received(out, "stop", used) /\ (page' = page \/ (out # <<>> /\ Show(out[1])))
    BY <1>7 DEF ImageAnswers
  <2>2. out = <<>> => page' = page
    BY <2>1
  <2>3. out = <<<<chat.attempt, 1>>>> => page'.told = page.told /\ page'.shown \in {page.shown, Append(page.shown, <<chat.attempt, 1>>)}
    BY <1>4, <2>1
  <2>. QED BY <1>2, <1>3, <1>5, <2>1, <2>2, <2>3
<1>8. CASE StreamDelta
  <2>. DEFINE piece == <<chat.attempt, Len(text.parsed) + 1>>
  <2>1. books'.sent = Append(books.sent, piece) /\ Show(piece)
    BY <1>1, <1>8 DEF StreamDelta
  <2>2. piece \in Piece
    BY LenProperties DEF TInv, TurnShape, Piece
  <2>. HIDE DEF piece
  <2>. QED BY <1>2, <1>4, <2>1, <2>2
<1>9. CASE Leave \/ HeartbeatFails \/ StreamChat \/ SendChat \/ BuildFails \/ CallFails \/ CallRefused \/ BodyFails \/ CallStreams
  BY <1>1, <1>3, <1>9 DEF Leave, HeartbeatFails, StreamChat, SendChat, BuildFails, CallFails, CallRefused, BodyFails, CallStreams
<1>10. CASE StreamUsage \/ StreamFinish \/ StreamEnds \/ StreamBreaks \/ TurnOver \/ Record \/ StoreGet \/ StorePut
  <2>1. page'.told = page.told /\ page'.shown = page.shown
    BY <1>1, <1>10 DEF StreamUsage, StreamFinish, StreamEnds, StreamBreaks, TurnOver, Record, StoreGet, StorePut
  <2>2. books'.sent = books.sent
    <3>1. CASE StreamUsage
      BY <1>1, <3>1 DEF StreamUsage
    <3>2. CASE Record
      BY <1>1, <3>2 DEF Record
    <3>3. CASE StreamFinish \/ StreamEnds \/ StreamBreaks \/ TurnOver \/ StoreGet \/ StorePut
      BY <3>3 DEF StreamFinish, StreamEnds, StreamBreaks, TurnOver, StoreGet, StorePut
    <3>. QED BY <1>10, <3>1, <3>2, <3>3
  <2>. QED BY <1>3, <2>1, <2>2
<1>11. CASE ResolveFails
  <2>1. page.told \notin {"done", "error"} /\ page'.shown = page.shown /\ books'.sent = books.sent
    BY <1>1, <1>11 DEF ResolveFails, TInv, TurnKept
  <2>. QED BY <2>1 DEF TurnShown
<1>12. CASE StreamAnswer \/ PageAnswer
  <2>1. books'.sent = books.sent /\ page' = page
    BY <1>1, <1>12 DEF StreamAnswer, PageAnswer, Told
  <2>. QED BY <1>3, <2>1
<1>13. CASE AutosaveGet \/ OtherSaves \/ \E x \in store.saves : AutosavePut(x)
  BY <1>3, <1>13 DEF AutosaveGet, OtherSaves, AutosavePut
<1>14. CASE UNCHANGED tvars
  BY <1>3, <1>14 DEF tvars
<1>. QED BY <1>6, <1>7, <1>8, <1>9, <1>10, <1>11, <1>12, <1>13, <1>14 DEF TNext

\* The places where the handler has ended with its store.
TurnEnded == {"answer", "over"}

\* A list of messages that comes from this question: without its reply, with a part of
\* it, or with all, and not longer than the page's ids can make it.
Ours(x, sent, place) ==
  /\ x.count \in {0, 1, 2} /\ x.size \in Nat
  /\ x.count = 2 =>
       /\ Len(x.reply) \in Nat /\ x.size <= Len(x.reply) + LongerIds
       /\ \/ x.reply \in Seq(Piece) /\ x.reply # <<>> /\ Follows(x.reply, sent)
          \/ place \in TurnEnded /\ x.reply = Displayed(sent)

\* A list of messages that has the reply, and that a part of it does not replace.
HasReply(x, whole) == x.count = 2 /\ x.size >= Len(whole) /\ Kept(x.reply, whole)

\* Unless another page wrote, all lists that are stored or carried are such.
AllOurs(st, sent, place) ==
  st.other \/ /\ Ours(st.rec, sent, place) /\ Ours(st.read, sent, place)
              /\ \A s \in st.saves : Ours(s.old, sent, place) /\ Ours(s.new, sent, place)

\* Once the reply is put it is in the stored list, and in what a save has read since.
AllHaveReply(st, whole) ==
  ~st.put \/ st.other \/ st.late \/ (HasReply(st.rec, whole) /\ \A s \in st.saves : HasReply(s.old, whole))

Stored ==
  /\ DOMAIN store = {"rec", "read", "put", "saves", "posted", "late", "other"}
  /\ store.put => chat.pc \in TurnEnded
  /\ AllOurs(store, books.sent, chat.pc)
  /\ AllHaveReply(store, Displayed(books.sent))

\* What is displayed has a length.
LEMMA DisplayedLen == \A sent \in Seq(Piece) : Len(Displayed(sent)) \in Nat
BY LenProperties DEF Displayed, Placeholder

\* A list goes on to come from this question when the handler goes on, or more is sent.
LEMMA OursGrows ==
  ASSUME NEW x, NEW sent \in Seq(Piece), NEW place, NEW next, Ours(x, sent, place)
  PROVE  /\ place \notin TurnEnded \/ next \in TurnEnded => Ours(x, sent, next)
         /\ place \notin TurnEnded => \A piece \in Piece : Ours(x, Append(sent, piece), next)
<1>1. place \notin TurnEnded \/ next \in TurnEnded => Ours(x, sent, next)
  BY DEF Ours
<1>2. ASSUME NEW piece \in Piece, place \notin TurnEnded PROVE Ours(x, Append(sent, piece), next)
  <2>1. CASE x.count = 2
    <3>1. x.reply \in Seq(Piece) /\ x.reply # <<>> /\ Follows(x.reply, sent)
      BY <1>2, <2>1 DEF Ours
    <3>2. PICK shown \in Seq(Piece) : shown = x.reply
      BY <3>1
    <3>3. Follows(shown, Append(sent, piece))
      BY <3>1, <3>2, ShownNext
    <3>. QED BY <2>1, <3>1, <3>2, <3>3 DEF Ours
  <2>. QED BY <2>1 DEF Ours
<1>. QED BY <1>1, <1>2

\* So do all of them.
LEMMA AllOursGrow ==
  ASSUME NEW st, NEW sent \in Seq(Piece), NEW place, NEW next, AllOurs(st, sent, place)
  PROVE  /\ place \notin TurnEnded \/ next \in TurnEnded => AllOurs(st, sent, next)
         /\ place \notin TurnEnded => \A piece \in Piece : AllOurs(st, Append(sent, piece), next)
<1>1. ASSUME place \notin TurnEnded \/ next \in TurnEnded PROVE \A x : Ours(x, sent, place) => Ours(x, sent, next)
  BY <1>1, OursGrows
<1>2. ASSUME NEW piece \in Piece, place \notin TurnEnded
      PROVE  \A x : Ours(x, sent, place) => Ours(x, Append(sent, piece), next)
  BY <1>2, OursGrows
<1>3. ASSUME place \notin TurnEnded \/ next \in TurnEnded PROVE AllOurs(st, sent, next)
  BY <1>1, <1>3 DEF AllOurs
<1>4. ASSUME NEW piece \in Piece, place \notin TurnEnded PROVE AllOurs(st, Append(sent, piece), next)
  BY <1>2, <1>4 DEF AllOurs
<1>. QED BY <1>3, <1>4

\* A list from this question that is as large as the whole reply lacks little of it.
LEMMA LargeHasReply ==
  ASSUME NEW x, NEW sent \in Seq(Piece), NEW place, Ours(x, sent, place), x.count = 2, x.size >= Len(Displayed(sent))
  PROVE  HasReply(x, Displayed(sent))
<1>1. CASE x.reply = Displayed(sent)
  BY <1>1 DEF HasReply, Kept
<1>2. CASE x.reply \in Seq(Piece) /\ x.reply # <<>> /\ Follows(x.reply, sent)
  <2>1. 1 \in DOMAIN x.reply
    BY <1>2, LenProperties, EmptySeq
  <2>2. sent # <<>>
    BY <1>2, <2>1 DEF Follows
  <2>3. Displayed(sent) = sent /\ Len(sent) \in Nat
    BY <2>2, LenProperties DEF Displayed
  <2>4. Len(sent) <= Len(x.reply) + LongerIds
    BY <2>3, TurnAssumption DEF Ours
  <2>. QED BY <1>2, <2>3, <2>4 DEF HasReply, Kept
<1>. QED BY <1>1, <1>2 DEF Ours

\* The merge chooses one of the two.
LEMMA RichestIsOne ==
  ASSUME NEW x, NEW y
  PROVE  Richest(x, y) \in {x, y}
BY DEF Richest

\* A part of the reply does not replace it.
LEMMA MergeKeepsReply ==
  ASSUME NEW x, NEW y, NEW sent \in Seq(Piece), NEW place, Ours(y, sent, place), HasReply(x, Displayed(sent)), x.size \in Nat
  PROVE  HasReply(Richest(x, y), Displayed(sent))
<1>1. CASE Richest(x, y) = x
  BY <1>1
<1>2. CASE y.count = 2 /\ y.size > x.size
  <2>1. y.size >= Len(Displayed(sent))
    BY <1>2, DisplayedLen DEF HasReply, Ours
  <2>2. Richest(x, y) = y
    BY <1>2 DEF Richest, HasReply
  <2>. QED BY <1>2, <2>1, <2>2, LargeHasReply
<1>. QED BY <1>1, <1>2 DEF Richest, HasReply, Ours

\* What the handler puts has the reply, whatever part of it was stored before.
LEMMA MergeAddsReply ==
  ASSUME NEW x, NEW sent \in Seq(Piece), NEW place, Ours(x, sent, place)
  PROVE  HasReply(Richest(x, Replied(Displayed(sent), 0)), Displayed(sent)) /\ Ours(Replied(Displayed(sent), 0), sent, "answer")
<1>. DEFINE whole == Displayed(sent)
            y == Replied(whole, 0)
<1>1. Len(whole) \in Nat
  BY DisplayedLen
<1>2. y.count = 2 /\ y.size = Len(whole) /\ y.reply = whole
  BY <1>1 DEF Replied
<1>. HIDE DEF y
<1>3. HasReply(y, whole) /\ Ours(y, sent, "answer")
  BY <1>1, <1>2, TurnAssumption DEF HasReply, Kept, Ours, TurnEnded
<1>4. HasReply(Richest(x, y), whole)
  <2>1. x.count \in {0, 1, 2} /\ x.size \in Nat
    BY DEF Ours
  <2>2. Richest(x, y) = y \/ (Richest(x, y) = x /\ x.count = 2 /\ x.size >= Len(whole))
    BY <1>1, <1>2, <2>1 DEF Richest
  <2>. QED BY <1>3, <2>2, LargeHasReply
<1>. QED BY <1>3, <1>4 DEF y

\* What a step sends is a piece, or nothing, and not after the handler has ended.
LEMMA StepSends ==
  ASSUME TInv, TNext
  PROVE  /\ chat.pc \in TurnEnded => chat'.pc \in TurnEnded
         /\ \/ books'.sent = books.sent
            \/ chat.pc \notin TurnEnded /\ \E piece \in Piece : books'.sent = Append(books.sent, piece)
<1>0. DOMAIN chat = {"pc", "stream", "image", "attempt", "status", "finish", "completed", "turnFinish", "err"}
      /\ DOMAIN books = {"record", "sent", "counted"}
  BY DEF TInv, TurnShape
<1>1. CASE CallAnswers \/ ImageAnswers
  <2>1. \E out \in Pieces, finish \in {"stop", "length"}, used \in {0, 1} : Received(out, finish, used)
    <3>1. CASE CallAnswers
      BY <3>1 DEF CallAnswers
    <3>2. CASE ImageAnswers
      BY <3>2 DEF ImageAnswers
    <3>. QED BY <1>1, <3>1, <3>2
  <2>2. PICK out \in Pieces, finish \in {"stop", "length"}, used \in {0, 1} : Received(out, finish, used)
    BY <2>1
  <2>3. chat.pc = "call"
    BY <2>2 DEF Received
  <2>. QED BY <2>2, <2>3, ReceivedSends DEF TurnEnded
<1>2. CASE StreamDelta
  <2>. DEFINE piece == <<chat.attempt, Len(text.parsed) + 1>>
  <2>1. books'.sent = Append(books.sent, piece) /\ chat.pc = "stream"
    BY <1>0, <1>2 DEF StreamDelta
  <2>2. piece \in Piece
    BY LenProperties DEF TInv, TurnShape, Piece
  <2>. QED BY <2>1, <2>2 DEF TurnEnded
<1>3. CASE Leave \/ HeartbeatFails \/ AutosaveGet \/ OtherSaves \/ \E s \in store.saves : AutosavePut(s)
  BY <1>3 DEF Leave, HeartbeatFails, AutosaveGet, OtherSaves, AutosavePut
<1>4. CASE StreamUsage \/ Record
  BY <1>0, <1>4 DEF StreamUsage, Record, TurnEnded
<1>5. CASE ResolveFails \/ StreamChat \/ SendChat \/ BuildFails \/ CallFails \/ CallRefused \/ BodyFails \/ CallStreams
  BY <1>5 DEF ResolveFails, StreamChat, SendChat, BuildFails, CallFails, CallRefused, BodyFails, CallStreams, TurnEnded
<1>6. CASE StreamFinish \/ StreamEnds \/ StreamBreaks \/ TurnOver
  BY <1>6 DEF StreamFinish, StreamEnds, StreamBreaks, TurnOver, TurnEnded
<1>7. CASE StoreGet \/ StorePut \/ StreamAnswer \/ PageAnswer
  BY <1>0, <1>7 DEF StoreGet, StorePut, StreamAnswer, PageAnswer, TurnEnded
<1>. QED BY <1>1, <1>2, <1>3, <1>4, <1>5, <1>6, <1>7 DEF TNext

\* When the handler has ended, or is about to put the reply, it has all that was sent.
LEMMA AllIsSent ==
  ASSUME TInv, chat.pc \in Over
  PROVE  text.all = books.sent
<1>1. text.parsed = <<>> /\ books.sent = text.all \o text.parsed /\ text.all \in Seq(Piece)
  BY DEF TInv, TurnSent, TurnShape, Over
<1>. QED BY <1>1, ConcatEmptySeq

\* What the page saves comes from this question.
LEMMA PageSavesOurs ==
  ASSUME TInv, TurnShown, NEW more \in 0 .. LongerIds
  PROVE  Ours(IF page.shown = <<>> THEN Asked ELSE Replied(page.shown, more), books.sent, chat.pc)
<1>0. books.sent \in Seq(Piece) /\ more \in Nat /\ more <= LongerIds /\ LongerIds \in Nat
  BY TurnAssumption DEF TInv, TurnShape
<1>1. CASE page.shown = <<>>
  <2>1. Ours(Asked, books.sent, chat.pc)
    BY DEF Ours, Asked
  <2>. QED BY <1>1, <2>1
<1>2. CASE page.shown # <<>> /\ page.told \notin {"done", "error"}
  <2>1. page.shown \in Seq(Piece) /\ Follows(page.shown, books.sent)
    BY <1>2 DEF TurnShown
  <2>2. Len(page.shown) \in Nat
    BY <2>1, LenProperties
  <2>. QED BY <1>0, <1>2, <2>1, <2>2 DEF Ours, Replied
<1>3. CASE page.shown # <<>> /\ page.told \in {"done", "error"}
  <2>1. chat.pc = "over" /\ page.shown = Displayed(text.all)
    BY <1>3 DEF TInv, TurnKept
  <2>2. page.shown = Displayed(books.sent) /\ chat.pc \in TurnEnded
    BY <2>1, AllIsSent DEF Over, TurnEnded
  <2>3. Len(page.shown) \in Nat
    BY <1>0, <2>2, DisplayedLen
  <2>. QED BY <1>0, <1>3, <2>2, <2>3 DEF Ours, Replied
<1>. QED BY <1>1, <1>2, <1>3

\* A step that does not touch the store.
LEMMA StepBeside ==
  ASSUME TInv, Stored, TNext, store' = store
  PROVE  Stored'
<1>0. PICK sent \in Seq(Piece) : sent = books.sent
  BY DEF TInv, TurnShape
<1>1. PICK place : place = chat.pc
  OBVIOUS
<1>2. AllOurs(store, sent, place) /\ (store.put => place \in TurnEnded) /\ DOMAIN store' = DOMAIN store
  BY <1>0, <1>1 DEF Stored
<1>3. CASE books'.sent = books.sent
  <2>1. place \notin TurnEnded \/ chat'.pc \in TurnEnded
    BY <1>0, <1>1, StepSends
  <2>2. AllOurs(store, sent, chat'.pc)
    BY <1>2, <2>1, AllOursGrow
  <2>. QED BY <1>0, <1>1, <1>2, <1>3, <2>1, <2>2 DEF Stored
<1>4. ASSUME NEW piece \in Piece, books'.sent = Append(books.sent, piece), chat.pc \notin TurnEnded
      PROVE  Stored'
  <2>1. AllOurs(store, Append(sent, piece), chat'.pc)
    BY <1>0, <1>1, <1>2, <1>4, AllOursGrow
  <2>. QED BY <1>0, <1>1, <1>2, <1>4, <2>1 DEF Stored, AllHaveReply
<1>. QED BY <1>3, <1>4, StepSends

\* The handler reads and puts.
LEMMA StepHandlerStores ==
  ASSUME TInv, Stored, StoreGet \/ StorePut
  PROVE  Stored'
<1>0. PICK sent \in Seq(Piece) : sent = books.sent
  BY DEF TInv, TurnShape
<1>1. chat.pc \in {"store", "put"} /\ chat'.pc \in {"put", "answer"} /\ books'.sent = sent /\ text.all = sent
  BY <1>0, AllIsSent DEF StoreGet, StorePut, TInv, TurnShape, Over
<1>2. AllOurs(store, sent, chat.pc) /\ ~store.put
  BY <1>0, <1>1 DEF Stored, TurnEnded
<1>3. AllOurs(store, sent, chat'.pc)
  BY <1>1, <1>2, AllOursGrow DEF TurnEnded
<1>4. CASE store' = store
  BY <1>0, <1>1, <1>2, <1>3, <1>4 DEF Stored, AllHaveReply
<1>5. CASE store' = [store EXCEPT !.read = store.rec]
  <2>1. /\ store'.rec = store.rec /\ store'.read = store.rec /\ store'.saves = store.saves
        /\ store'.other = store.other /\ store'.put = store.put /\ DOMAIN store' = DOMAIN store
    BY <1>5 DEF Stored
  <2>2. AllOurs(store', sent, chat'.pc)
    BY <1>3, <2>1 DEF AllOurs
  <2>. QED BY <1>0, <1>1, <1>2, <2>1, <2>2 DEF Stored, AllHaveReply
<1>6. CASE /\ chat' = [chat EXCEPT !.pc = "answer"]
           /\ store' = [store EXCEPT !.rec = Richest(store.read, Replied(Displayed(text.all), 0)),
                                     !.put = TRUE, !.late = store.saves # {}]
  <2>. DEFINE whole == Replied(Displayed(sent), 0)
              late  == store.saves # {}
  <2>0. chat'.pc = "answer" /\ store' = [store EXCEPT !.rec = Richest(store.read, whole), !.put = TRUE, !.late = late]
    BY <1>1, <1>6 DEF TInv, TurnShape
  <2>1. late \/ store.saves = {}
    OBVIOUS
  <2>. HIDE DEF whole, late
  <2>2. /\ store'.rec = Richest(store.read, whole) /\ store'.read = store.read /\ store'.saves = store.saves
        /\ store'.other = store.other /\ store'.late = late /\ DOMAIN store' = DOMAIN store
    BY <2>0 DEF Stored
  <2>3. store.other \/ (/\ HasReply(Richest(store.read, whole), Displayed(sent))
                        /\ Ours(store.read, sent, "answer") /\ Ours(whole, sent, "answer"))
    <3>1. store.other \/ Ours(store.read, sent, "answer")
      BY <1>3, <2>0 DEF AllOurs
    <3>. QED BY <3>1, MergeAddsReply DEF whole
  <2>4. Richest(store.read, whole) \in {store.read, whole}
    BY RichestIsOne
  <2>5. AllOurs(store', sent, "answer")
    BY <1>3, <2>0, <2>2, <2>3, <2>4 DEF AllOurs
  <2>6. AllHaveReply(store', Displayed(sent))
    BY <2>1, <2>2, <2>3 DEF AllHaveReply
  <2>. QED BY <1>1, <2>0, <2>2, <2>5, <2>6 DEF Stored, TurnEnded
<1>7. CASE StoreGet
  BY <1>4, <1>5, <1>7 DEF StoreGet
<1>8. CASE StorePut
  BY <1>4, <1>6, <1>8 DEF StorePut
<1>. QED BY <1>7, <1>8

\* Pages read and put.
LEMMA StepPagesStore ==
  ASSUME TInv, TurnShown, Stored, AutosaveGet \/ OtherSaves \/ (\E s \in store.saves : AutosavePut(s))
  PROVE  Stored'
<1>0a. PICK sent \in Seq(Piece) : sent = books.sent
  BY DEF TInv, TurnShape
<1>0b. PICK place : place = chat.pc
  OBVIOUS
<1>0. sent = books.sent /\ place = chat.pc
  BY <1>0a, <1>0b
<1>1. books'.sent = sent /\ chat'.pc = place
  BY <1>0 DEF AutosaveGet, OtherSaves, AutosavePut
<1>2. AllOurs(store, sent, place) /\ AllHaveReply(store, Displayed(sent)) /\ (store.put => place \in TurnEnded)
  BY <1>0 DEF Stored
<1>3. SUFFICES /\ DOMAIN store' = DOMAIN store /\ store'.put = store.put
               /\ AllOurs(store', sent, place) /\ AllHaveReply(store', Displayed(sent))
  BY <1>0, <1>1, <1>2 DEF Stored
<1>4. CASE AutosaveGet
  <2>1. PICK more \in 0 .. LongerIds :
          store' = [store EXCEPT !.posted = store.posted + 1,
                                 !.saves = store.saves \cup {[id |-> store.posted, old |-> store.rec,
                                    new |-> IF page.shown = <<>> THEN Asked ELSE Replied(page.shown, more)]}]
    BY <1>4 DEF AutosaveGet
  <2>2. PICK x : x = IF page.shown = <<>> THEN Asked ELSE Replied(page.shown, more)
    OBVIOUS
  <2>3. Ours(x, sent, place)
    BY <1>0, <2>2, PageSavesOurs
  <2>. DEFINE save == [id |-> store.posted, old |-> store.rec, new |-> x]
  <2>4. save.old = store.rec /\ save.new = x
    OBVIOUS
  <2>5. store' = [store EXCEPT !.posted = store.posted + 1, !.saves = store.saves \cup {save}]
    BY <2>1, <2>2
  <2>. HIDE DEF save
  <2>6. /\ store'.rec = store.rec /\ store'.read = store.read /\ store'.saves = store.saves \cup {save}
        /\ store'.other = store.other /\ store'.late = store.late /\ store'.put = store.put /\ DOMAIN store' = DOMAIN store
    BY <2>5 DEF Stored
  <2>7. AllOurs(store', sent, place)
    BY <1>2, <2>3, <2>4, <2>6 DEF AllOurs
  <2>8. AllHaveReply(store', Displayed(sent))
    BY <1>2, <2>4, <2>6 DEF AllHaveReply
  <2>. QED BY <2>6, <2>7, <2>8
<1>5. CASE OtherSaves
  <2>1. store'.other /\ store'.put = store.put /\ DOMAIN store' = DOMAIN store
    BY <1>5 DEF OtherSaves, Stored
  <2>. QED BY <2>1 DEF AllOurs, AllHaveReply
<1>6. ASSUME NEW s \in store.saves, AutosavePut(s)
      PROVE  /\ DOMAIN store' = DOMAIN store /\ store'.put = store.put
             /\ AllOurs(store', sent, place) /\ AllHaveReply(store', Displayed(sent))
  <2>1. /\ store'.rec \in {store.rec, Richest(s.old, s.new)} /\ store'.read = store.read /\ store'.saves = store.saves \ {s}
        /\ store'.other = store.other /\ store'.late = store.late /\ store'.put = store.put /\ DOMAIN store' = DOMAIN store
    BY <1>6 DEF AutosavePut, Stored
  <2>2. Richest(s.old, s.new) \in {s.old, s.new}
    BY RichestIsOne
  <2>3. AllOurs(store', sent, place)
    BY <1>2, <1>6, <2>1, <2>2 DEF AllOurs
  <2>4. AllHaveReply(store', Displayed(sent))
    <3>1. SUFFICES ASSUME store.put, ~store.other, ~store.late
                   PROVE  HasReply(store'.rec, Displayed(sent)) /\ \A x \in store'.saves : HasReply(x.old, Displayed(sent))
      BY <2>1 DEF AllHaveReply
    <3>2. HasReply(store.rec, Displayed(sent)) /\ \A x \in store.saves : HasReply(x.old, Displayed(sent))
      BY <1>2, <3>1 DEF AllHaveReply
    <3>3. Ours(s.new, sent, place) /\ s.old.size \in Nat
      BY <1>2, <1>6, <3>1 DEF AllOurs, Ours
    <3>4. HasReply(Richest(s.old, s.new), Displayed(sent))
      BY <1>6, <3>2, <3>3, MergeKeepsReply
    <3>. QED BY <2>1, <3>2, <3>4
  <2>. QED BY <2>1, <2>3, <2>4
<1>. QED BY <1>4, <1>5, <1>6

\* Every step keeps what is stored.
LEMMA StepStored == TInv /\ TurnShown /\ Stored /\ [TNext]_tvars => Stored'
<1>. SUFFICES ASSUME TInv, TurnShown, Stored, [TNext]_tvars PROVE Stored'
  OBVIOUS
<1>1. CASE UNCHANGED tvars
  BY <1>1 DEF tvars, Stored
<1>2. CASE StoreGet \/ StorePut
  BY <1>2, StepHandlerStores
<1>3. CASE AutosaveGet \/ OtherSaves \/ \E s \in store.saves : AutosavePut(s)
  BY <1>3, StepPagesStore
<1>4. CASE /\ TNext /\ ~(StoreGet \/ StorePut)
           /\ ~(AutosaveGet \/ OtherSaves \/ \E s \in store.saves : AutosavePut(s))
  <2>1. store' = store
    <3>1. CASE \/ Leave \/ HeartbeatFails \/ ResolveFails \/ StreamChat \/ SendChat
               \/ BuildFails \/ CallFails \/ CallRefused \/ BodyFails \/ CallStreams
      BY <3>1 DEF Leave, HeartbeatFails, ResolveFails, StreamChat, SendChat, BuildFails, CallFails, CallRefused, BodyFails, CallStreams
    <3>2. CASE CallAnswers \/ ImageAnswers
      BY <3>2 DEF CallAnswers, ImageAnswers
    <3>3. CASE StreamDelta \/ StreamUsage \/ StreamFinish \/ StreamEnds \/ StreamBreaks
      BY <3>3 DEF StreamDelta, StreamUsage, StreamFinish, StreamEnds, StreamBreaks
    <3>4. CASE TurnOver \/ Record \/ StreamAnswer \/ PageAnswer
      BY <3>4 DEF TurnOver, Record, StreamAnswer, PageAnswer
    <3>. QED BY <1>4, <3>1, <3>2, <3>3, <3>4 DEF TNext
  <2>. QED BY <1>4, <2>1, StepBeside
<1>. QED BY <1>1, <1>2, <1>3, <1>4

\* Nothing of the question is stored at first.
LEMMA InitStored == TInit => Stored
<1>. SUFFICES ASSUME TInit PROVE Stored
  OBVIOUS
<1>. DEFINE bare == [Asked EXCEPT !.count = 0]
<1>1. store = [rec |-> bare, read |-> bare, put |-> FALSE, saves |-> {}, posted |-> 0, late |-> FALSE, other |-> FALSE]
  BY DEF TInit
<1>2. bare.count = 0 /\ bare.size = 0
  BY DEF Asked
<1>. HIDE DEF bare
<1>3. \A sent, place : Ours(bare, sent, place)
  BY <1>2 DEF Ours
<1>. QED BY <1>1, <1>3 DEF Stored, AllOurs, AllHaveReply

\* The stored reply (executeConsoleChat, persistConsoleChatSession) is all that the provider has
\* sent, in whatever turns, whether or not a page was there and whatever parts of it the page
\* saves itself, or lacks no more than the page's longer ids make up for, unless another page
\* wrote or a save had read before; a page that was told a reply was told all of it, and one
\* that was not has been shown a part of it, in order.
THEOREM RepliesKept == TSpec => []ReplyIsKept
<1>1. TInit => TurnShown
  <2>. SUFFICES ASSUME TInit PROVE TurnShown
    OBVIOUS
  <2>1. page.shown = <<>> /\ <<>> \in Seq(Piece) /\ DOMAIN <<>> = {}
    BY EmptySeq DEF TInit
  <2>. QED BY <2>1 DEF TurnShown, Follows
<1>2. TInv /\ TurnShown /\ Stored => ReplyIsKept
  <2>. SUFFICES ASSUME TInv, TurnShown, Stored PROVE ReplyIsKept
    OBVIOUS
  <2>2. store.put /\ ~store.other /\ ~store.late => Kept(store.rec.reply, Displayed(books.sent))
    BY DEF Stored, AllHaveReply, HasReply
  <2>3. page.told \in {"done", "error"} => page.shown = Displayed(books.sent)
    BY AllIsSent DEF TInv, TurnKept, Over
  <2>4. page.told = "nothing" => Follows(page.shown, books.sent)
    BY DEF TurnShown
  <2>. QED BY <2>2, <2>3, <2>4 DEF ReplyIsKept
<1>. QED BY <1>1, <1>2, InitTInv, StepTInv, StepShown, InitStored, StepStored, PTL DEF TSpec

-----------------------------------------------------------------------------
(***************************************************************************)
(* CloudAgentRun: one run, and a reply without gaps.                       *)
(*                                                                         *)
(* For every number of requests and pieces, and every capacity of the      *)
(* channels: one run of a session executes at a time, and who watches it   *)
(* is given the pieces in order.  The first part follows from what is      *)
(* registered: a run that is neither over nor only a name is the one in    *)
(* the registry.  The second relates the last piece in a watcher's channel *)
(* to the run's content: they are the same, but for a piece that is about  *)
(* to be broadcast.                                                        *)
(***************************************************************************)

Events == [type : {"delta", "operation", "done", "error"}, n : Nat]

\* The pieces in a channel go on from what the page has been given.
Chained(got, chan) ==
  \A i \in DOMAIN chan : chan[i].type = "delta" =>
    \/ GoesOn(chan[i].n, got) /\ \A j \in 1 .. i - 1 : chan[j].type # "delta"
    \/ \E j \in 1 .. i - 1 : /\ chan[j].type = "delta" /\ GoesOn(chan[i].n, chan[j].n)
                             /\ \A k \in j + 1 .. i - 1 : chan[k].type # "delta"

\* The last piece in a channel, or given to the page.
LastPiece(n, got, chan) ==
  \/ n = got /\ \A j \in DOMAIN chan : chan[j].type # "delta"
  \/ \E j \in DOMAIN chan : chan[j].type = "delta" /\ chan[j].n = n /\ \A k \in DOMAIN chan : k > j => chan[k].type # "delta"

\* A run has a piece that it has not broadcast.
Pending(x) == x.pc \in {"progress", "put", "tell"} /\ x.event.type = "delta"

\* What a run is by itself, and what a request is by itself.
RunOk(x) ==
  /\ DOMAIN x = DOMAIN NoRun /\ x.content \in Nat
  /\ x.pc \in {"progress", "put", "tell"} => x.event \in Events /\ (x.event.type = "delta" => x.event.n = x.content)

ClientOk(c, y) ==
  /\ DOMAIN y = DOMAIN NoClient /\ y.chan \in Seq(Events) /\ y.got \in Nat
  /\ y.pc \in {"start", "startput"} => y.run = c
  /\ y.pc \in {"start", "startput", "subscribe"} => y.chan = <<>> /\ y.open = FALSE

\* A watcher y is in step with its run x.
InStep(y, x) ==
  /\ Chained(y.got, y.chan)
  /\ y.open => \E n \in Nat : /\ LastPiece(n, y.got, y.chan)
                              /\ n = x.content \/ (Pending(x) /\ n + 1 = x.content)

RInv ==
  /\ DOMAIN run = Clients /\ \A r \in Clients : RunOk(run[r])
  /\ DOMAIN client = Clients /\ \A c \in Clients : ClientOk(c, client[c])
  /\ registry # None => registry \in Clients /\ client[registry].pc # "idle"
  /\ \A r \in Clients : run[r].pc \notin {"none", "over"} => registry = r
  /\ \A c \in Clients : client[c].pc \in {"start", "startput", "subscribe"} /\ client[c].run = c => run[c].pc = "created"
  /\ \A c \in Clients : client[c].pc \in {"subscribe", "loop"} => client[c].run \in Clients /\ client[client[c].run].pc # "idle"
  /\ \A c \in Clients : client[c].pc = "loop" => InStep(client[c], run[client[c].run])

-----------------------------------------------------------------------------
\* A piece that goes on from the last one is put at the end of a channel.
LEMMA PieceSent ==
  ASSUME NEW chan \in Seq(Events), NEW got \in Nat, NEW n \in Nat, NEW event \in Events,
         Chained(got, chan), LastPiece(n, got, chan),
         event.type = "delta" => GoesOn(event.n, n)
  PROVE  /\ Append(chan, event) \in Seq(Events)
         /\ Chained(got, Append(chan, event))
         /\ LastPiece(IF event.type = "delta" THEN event.n ELSE n, got, Append(chan, event))
<1>. DEFINE more == Append(chan, event)
<1>1. /\ more \in Seq(Events) /\ Len(more) = Len(chan) + 1 /\ DOMAIN chan = 1 .. Len(chan) /\ DOMAIN more = 1 .. Len(chan) + 1
      /\ more[Len(chan) + 1] = event /\ \A i \in 1 .. Len(chan) : more[i] = chan[i]
      /\ Len(chan) \in Nat
  OBVIOUS
<1>. HIDE DEF more
<1>2. Chained(got, more)
  <2>. SUFFICES ASSUME NEW i \in DOMAIN more, more[i].type = "delta"
                PROVE  \/ GoesOn(more[i].n, got) /\ \A j \in 1 .. i - 1 : more[j].type # "delta"
                       \/ \E j \in 1 .. i - 1 : /\ more[j].type = "delta" /\ GoesOn(more[i].n, more[j].n)
                                                /\ \A k \in j + 1 .. i - 1 : more[k].type # "delta"
    BY DEF Chained
  <2>1. CASE i \in DOMAIN chan
    BY <1>1, <2>1 DEF Chained
  <2>2. CASE i = Len(chan) + 1
    BY <1>1, <2>2 DEF LastPiece
  <2>. QED BY <1>1, <2>1, <2>2
<1>3. LastPiece(IF event.type = "delta" THEN event.n ELSE n, got, more)
  <2>1. CASE event.type = "delta"
    BY <1>1, <2>1 DEF LastPiece
  <2>2. CASE event.type # "delta"
    BY <1>1, <2>2 DEF LastPiece
  <2>. QED BY <2>1, <2>2
<1>. QED BY <1>1, <1>2, <1>3 DEF more

\* The page is given the first event of its channel.
LEMMA PieceReceived ==
  ASSUME NEW chan \in Seq(Events), NEW got \in Nat, chan # <<>>, Chained(got, chan)
  PROVE  LET now == IF Head(chan).type = "delta" THEN Head(chan).n ELSE got IN
         /\ Tail(chan) \in Seq(Events) /\ now \in Nat
         /\ Chained(now, Tail(chan))
         /\ \A n \in Nat : LastPiece(n, got, chan) => LastPiece(n, now, Tail(chan))
<1>. DEFINE rest == Tail(chan)
            now == IF Head(chan).type = "delta" THEN Head(chan).n ELSE got
<1>1. /\ rest \in Seq(Events) /\ Len(rest) = Len(chan) - 1 /\ DOMAIN chan = 1 .. Len(chan) /\ DOMAIN rest = 1 .. Len(chan) - 1
      /\ \A i \in 1 .. Len(chan) - 1 : rest[i] = chan[i + 1]
      /\ Len(chan) \in Nat /\ Len(chan) > 0
      /\ Head(chan) = chan[1] /\ chan[1] \in Events
  OBVIOUS
<1>2. now \in Nat /\ now = IF chan[1].type = "delta" THEN chan[1].n ELSE got
  BY <1>1 DEF Events
<1>. HIDE DEF rest, now
<1>3. Chained(now, rest)
  <2>. SUFFICES ASSUME NEW i \in DOMAIN rest, rest[i].type = "delta"
                PROVE  \/ GoesOn(rest[i].n, now) /\ \A j \in 1 .. i - 1 : rest[j].type # "delta"
                       \/ \E j \in 1 .. i - 1 : /\ rest[j].type = "delta" /\ GoesOn(rest[i].n, rest[j].n)
                                                /\ \A k \in j + 1 .. i - 1 : rest[k].type # "delta"
    BY DEF Chained
  <2>1. i \in 1 .. Len(chan) - 1 /\ i + 1 \in DOMAIN chan /\ chan[i + 1] = rest[i]
    BY <1>1
  <2>2. CASE GoesOn(chan[i + 1].n, got) /\ \A j \in 1 .. i : chan[j].type # "delta"
    <3>1. now = got
      BY <1>2, <2>1, <2>2
    <3>. QED BY <1>1, <2>1, <2>2, <3>1
  <2>3. CASE \E j \in 1 .. i : /\ chan[j].type = "delta" /\ GoesOn(chan[i + 1].n, chan[j].n)
                               /\ \A k \in j + 1 .. i : chan[k].type # "delta"
    <3>1. PICK j \in 1 .. i : /\ chan[j].type = "delta" /\ GoesOn(chan[i + 1].n, chan[j].n)
                              /\ \A k \in j + 1 .. i : chan[k].type # "delta"
      BY <2>3
    <3>2. CASE j = 1
      BY <1>1, <1>2, <2>1, <3>1, <3>2
    <3>3. CASE j > 1
      <4>1. j - 1 \in 1 .. i - 1 /\ rest[j - 1] = chan[j]
        BY <1>1, <2>1, <3>3
      <4>2. ASSUME NEW k \in (j - 1) + 1 .. i - 1 PROVE rest[k].type # "delta"
        <5>1. k \in 1 .. Len(chan) - 1 /\ k + 1 \in j + 1 .. i
          BY <1>1, <2>1, <3>1, <3>3
        <5>. QED BY <1>1, <3>1, <5>1
      <4>. QED BY <2>1, <3>1, <4>1, <4>2
    <3>. QED BY <3>2, <3>3
  <2>4. (i + 1) - 1 = i
    BY <2>1
  <2>. QED BY <2>1, <2>2, <2>3, <2>4 DEF Chained
<1>4. ASSUME NEW n \in Nat, LastPiece(n, got, chan) PROVE LastPiece(n, now, rest)
  <2>1. CASE \A j \in DOMAIN chan : chan[j].type # "delta"
    <3>1. n = got /\ now = got
      BY <1>1, <1>2, <1>4, <2>1 DEF LastPiece
    <3>2. \A j \in DOMAIN rest : rest[j].type # "delta"
      <4>. TAKE j \in DOMAIN rest
      <4>1. j + 1 \in DOMAIN chan /\ rest[j] = chan[j + 1]
        BY <1>1
      <4>. QED BY <2>1, <4>1
    <3>. QED BY <3>1, <3>2 DEF LastPiece
  <2>2. CASE \E j \in DOMAIN chan : chan[j].type = "delta"
    <3>1. PICK j \in DOMAIN chan : chan[j].type = "delta" /\ chan[j].n = n /\ \A k \in DOMAIN chan : k > j => chan[k].type # "delta"
      BY <1>4, <2>2 DEF LastPiece
    <3>2. CASE j = 1
      <4>1. now = n
        BY <1>2, <3>1, <3>2
      <4>2. \A k \in DOMAIN rest : rest[k].type # "delta"
        <5>. TAKE k \in DOMAIN rest
        <5>1. k + 1 \in DOMAIN chan /\ k + 1 > j /\ rest[k] = chan[k + 1]
          BY <1>1, <3>2
        <5>. QED BY <3>1, <5>1
      <4>. QED BY <4>1, <4>2 DEF LastPiece
    <3>3. CASE j > 1
      <4>1. j - 1 \in DOMAIN rest /\ rest[j - 1] = chan[j]
        BY <1>1, <3>3
      <4>2. ASSUME NEW k \in DOMAIN rest, k > j - 1 PROVE rest[k].type # "delta"
        <5>1. k + 1 \in DOMAIN chan /\ k + 1 > j /\ rest[k] = chan[k + 1]
          BY <1>1, <3>3, <4>2
        <5>. QED BY <3>1, <5>1
      <4>. QED BY <3>1, <4>1, <4>2 DEF LastPiece
    <3>. QED BY <1>1, <3>2, <3>3
  <2>. QED BY <2>1, <2>2
<1>. QED BY <1>1, <1>2, <1>3, <1>4 DEF rest, now
-----------------------------------------------------------------------------
\* Nothing is registered at first.
LEMMA InitRInv == RInit => RInv
<1>. SUFFICES ASSUME RInit PROVE RInv
  OBVIOUS
<1>1. ASSUME NEW r \in Clients PROVE RunOk(run[r]) /\ run[r].pc = "none"
  BY DEF RInit, NoRun, RunOk
<1>2. <<>> \in Seq(Events)
  OBVIOUS
<1>3. ASSUME NEW c \in Clients PROVE ClientOk(c, client[c]) /\ client[c].pc = "idle"
  BY <1>2 DEF RInit, NoClient, ClientOk
<1>4. DOMAIN run = Clients /\ DOMAIN client = Clients /\ registry = None
  BY DEF RInit
<1>. QED BY <1>1, <1>3, <1>4 DEF RInv

\* A request moves on, and changes nothing but itself.
LEMMA ClientMoves ==
  ASSUME RInv, NEW c \in Clients, UNCHANGED <<registry, run>>,
         DOMAIN client' = Clients, \A d \in Clients : d # c => client'[d] = client[d],
         ClientOk(c, client'[c]), client'[c].pc # "idle",
         client'[c].pc \in {"start", "startput", "subscribe"} /\ client'[c].run = c => run[c].pc = "created",
         client'[c].pc \in {"subscribe", "loop"} => client'[c].run \in Clients /\ client[client'[c].run].pc # "idle",
         client'[c].pc = "loop" => InStep(client'[c], run[client'[c].run])
  PROVE  RInv'
<1>1. registry' = registry /\ run' = run
  OBVIOUS
<1>2. \A d \in Clients : client[d].pc # "idle" => client'[d].pc # "idle"
  OBVIOUS
<1>. QED BY <1>1, <1>2 DEF RInv

\* A run moves on; its watchers stay in step with it.
LEMMA RunMoves ==
  ASSUME RInv, NEW r \in Clients, UNCHANGED registry,
         DOMAIN run' = Clients, \A q \in Clients : q # r => run'[q] = run[q], RunOk(run'[r]),
         run'[r].pc = run[r].pc \/ run[r].pc \notin {"none", "over", "created"},
         DOMAIN client' = Clients,
         \A c \in Clients : /\ ClientOk(c, client'[c]) /\ client'[c].pc = client[c].pc /\ client'[c].run = client[c].run
                            /\ client[c].pc = "loop" /\ client[c].run = r => InStep(client'[c], run'[r])
                            /\ client[c].run # r => client'[c] = client[c]
  PROVE  RInv'
<1>1. \A q \in Clients : RunOk(run'[q])
  BY DEF RInv
<1>2. \A q \in Clients : run'[q].pc \notin {"none", "over"} => registry' = q
  BY DEF RInv
<1>3. \A c \in Clients : client'[c].pc \in {"start", "startput", "subscribe"} /\ client'[c].run = c => run'[c].pc = "created"
  BY DEF RInv
<1>4. \A c \in Clients : client'[c].pc \in {"subscribe", "loop"} => client'[c].run \in Clients /\ client'[client'[c].run].pc # "idle"
  BY DEF RInv
<1>5. \A c \in Clients : client'[c].pc = "loop" => InStep(client'[c], run'[client'[c].run])
  BY <1>4 DEF RInv
<1>6. registry' # None => registry' \in Clients /\ client'[registry'].pc # "idle"
  BY DEF RInv
<1>. QED BY <1>1, <1>2, <1>3, <1>4, <1>5, <1>6 DEF RInv

\* A run moves on and nobody is told: it has no more to show, and what was to be broadcast still is.
LEMMA RunMovesOn ==
  ASSUME RInv, NEW r \in Clients, UNCHANGED <<registry, client>>,
         DOMAIN run' = Clients, \A q \in Clients : q # r => run'[q] = run[q], RunOk(run'[r]),
         run'[r].pc = run[r].pc \/ run[r].pc \notin {"none", "over", "created"},
         \/ run'[r].content = run[r].content /\ (Pending(run[r]) => Pending(run'[r]))
         \/ run'[r].content = run[r].content + 1 /\ ~Pending(run[r]) /\ Pending(run'[r])
  PROVE  RInv'
<1>. DEFINE x == run'[r]
<1>. HIDE DEF x
<1>1. \A n \in Nat : \/ n = run[r].content
                     \/ Pending(run[r]) /\ n + 1 = run[r].content
                     => n = x.content \/ (Pending(x) /\ n + 1 = x.content)
  BY DEF x
<1>2. \A y : InStep(y, run[r]) => InStep(y, x)
  BY <1>1 DEF InStep
<1>3. \A c \in Clients : /\ ClientOk(c, client'[c])
                         /\ client[c].pc = "loop" /\ client[c].run = r => InStep(client'[c], run'[r])
  BY <1>2 DEF RInv, x
<1>4. DOMAIN client' = Clients /\ client' = client /\ registry' = registry
  BY DEF RInv
<1>. QED BY <1>3, <1>4, RunMoves

\* A question starts a run, or joins the one that is registered.
LEMMA StepChat ==
  ASSUME RInv, NEW c \in Clients, Chat(c)
  PROVE  RInv'
<1>1. PICK history : StartOrGet(c, history)
  BY DEF Chat
<1>2. client[c].pc = "idle"
  BY DEF Chat, Waits
<1>3. CASE registry = None
  <2>. DEFINE x == [NoRun EXCEPT !.pc = "created", !.base = Append(history, Question(c))]
              y == [NoClient EXCEPT !.pc = "start", !.run = c]
  <2>1. registry' = c /\ run' = [run EXCEPT ![c] = x] /\ client' = [client EXCEPT ![c] = y]
    BY <1>1, <1>3 DEF StartOrGet
  <2>2. RunOk(x) /\ x.pc = "created"
    BY DEF NoRun, RunOk
  <2>3. <<>> \in Seq(Events)
    OBVIOUS
  <2>4. ClientOk(c, y) /\ y.pc = "start" /\ y.run = c
    BY <2>3 DEF NoClient, ClientOk
  <2>. HIDE DEF x, y
  <2>5. /\ DOMAIN run' = Clients /\ run'[c] = x /\ \A r \in Clients : r # c => run'[r] = run[r]
        /\ DOMAIN client' = Clients /\ client'[c] = y /\ \A d \in Clients : d # c => client'[d] = client[d]
    BY <2>1 DEF RInv
  <2>6. \A r \in Clients : run[r].pc \in {"none", "over"}
    BY <1>3, CloudAgentRunAssumption DEF RInv
  <2>7. \A d \in Clients : client[d].pc \in {"subscribe", "loop"} => client[d].run # c
    BY <1>2 DEF RInv
  <2>8. (\A r \in Clients : RunOk(run'[r])) /\ (\A d \in Clients : ClientOk(d, client'[d]))
    BY <2>2, <2>4, <2>5 DEF RInv
  <2>9. registry' \in Clients /\ client'[registry'].pc # "idle"
    BY <2>1, <2>4, <2>5
  <2>10. \A r \in Clients : run'[r].pc \notin {"none", "over"} => registry' = r
    BY <2>1, <2>5, <2>6
  <2>11. \A d \in Clients : client'[d].pc \in {"start", "startput", "subscribe"} /\ client'[d].run = d => run'[d].pc = "created"
    BY <2>2, <2>5 DEF RInv
  <2>12. \A d \in Clients : client'[d].pc \in {"subscribe", "loop"} => client'[d].run \in Clients /\ client'[client'[d].run].pc # "idle"
    BY <2>4, <2>5, <2>7 DEF RInv
  <2>13. \A d \in Clients : client'[d].pc = "loop" => InStep(client'[d], run'[client'[d].run])
    BY <2>4, <2>5, <2>7 DEF RInv
  <2>. QED BY <2>5, <2>8, <2>9, <2>10, <2>11, <2>12, <2>13 DEF RInv
<1>4. CASE registry # None
  <2>. DEFINE y == [NoClient EXCEPT !.pc = "subscribe", !.run = registry]
  <2>1. client' = [client EXCEPT ![c] = y] /\ registry' = registry /\ run' = run
    BY <1>1, <1>4 DEF StartOrGet
  <2>2. <<>> \in Seq(Events)
    OBVIOUS
  <2>3. ClientOk(c, y) /\ y.pc = "subscribe" /\ y.run = registry
    BY <2>2 DEF NoClient, ClientOk
  <2>4. registry \in Clients /\ client[registry].pc # "idle" /\ registry # c
    BY <1>2, <1>4 DEF RInv
  <2>. HIDE DEF y
  <2>5. DOMAIN client' = Clients /\ client'[c] = y /\ \A d \in Clients : d # c => client'[d] = client[d]
    BY <2>1 DEF RInv
  <2>. QED BY <2>1, <2>3, <2>4, <2>5, ClientMoves
<1>. QED BY <1>3, <1>4

\* A page that comes back joins the run that is registered, or asks the store.
LEMMA StepResume ==
  ASSUME RInv, NEW c \in Clients, Resume(c)
  PROVE  RInv'
<1>. DEFINE y == [NoClient EXCEPT !.pc = IF registry = None THEN "stored" ELSE "subscribe", !.run = registry]
<1>1. client' = [client EXCEPT ![c] = y] /\ registry' = registry /\ run' = run
  BY DEF Resume
<1>2. client[c].pc = "idle"
  BY DEF Resume, Waits
<1>3. <<>> \in Seq(Events)
  OBVIOUS
<1>4. /\ DOMAIN y = DOMAIN NoClient /\ y.chan = <<>> /\ y.open = FALSE /\ y.got = 0 /\ y.run = registry
      /\ y.pc = IF registry = None THEN "stored" ELSE "subscribe"
  BY DEF NoClient
<1>. HIDE DEF y
<1>5. ClientOk(c, y) /\ y.pc \in {"stored", "subscribe"}
  BY <1>3, <1>4 DEF ClientOk
<1>6. y.pc = "subscribe" => registry \in Clients /\ client[registry].pc # "idle" /\ registry # c
  BY <1>2, <1>4 DEF RInv
<1>7. DOMAIN client' = Clients /\ client'[c] = y /\ \A d \in Clients : d # c => client'[d] = client[d]
  BY <1>1 DEF RInv
<1>. QED BY <1>1, <1>4, <1>5, <1>6, <1>7, ClientMoves

\* The question is stored before its run is subscribed to.
LEMMA StepPersistStart ==
  ASSUME RInv, NEW c \in Clients, PersistStartGet(c) \/ PersistStartPut(c)
  PROVE  RInv'
<1>1. client[c].pc \in {"start", "startput"} /\ UNCHANGED <<registry, run>>
  BY DEF PersistStartGet, PersistStartPut
<1>2. ClientOk(c, client[c]) /\ client[c].run = c /\ run[c].pc = "created"
  BY <1>1 DEF RInv, ClientOk
<1>3. /\ DOMAIN client' = Clients /\ \A d \in Clients : d # c => client'[d] = client[d]
      /\ DOMAIN client'[c] = DOMAIN NoClient /\ client'[c].pc \in {"startput", "subscribe"} /\ client'[c].run = client[c].run
      /\ client'[c].chan = client[c].chan /\ client'[c].open = client[c].open /\ client'[c].got = client[c].got
  <2>1. DOMAIN client = Clients /\ DOMAIN client[c] = DOMAIN NoClient
    BY <1>2 DEF RInv, ClientOk
  <2>2. CASE PersistStartGet(c)
    BY <2>1, <2>2 DEF PersistStartGet, NoClient
  <2>3. CASE PersistStartPut(c)
    BY <2>1, <2>3 DEF PersistStartPut, NoClient
  <2>. QED BY <2>2, <2>3
<1>4. ClientOk(c, client'[c])
  BY <1>1, <1>2, <1>3 DEF ClientOk
<1>. QED BY <1>1, <1>2, <1>3, <1>4, ClientMoves

\* A start that is not stored takes the run out of the registry.
LEMMA StepPersistStartFails ==
  ASSUME RInv, NEW c \in Clients, PersistStartFails(c)
  PROVE  RInv'
<1>. DEFINE x == [run[c] EXCEPT !.pc = "over"]
            y == [client[c] EXCEPT !.pc = "end", !.told = "replace", !.seen = NoSession]
<1>1. /\ registry' = IF registry = c THEN None ELSE registry
      /\ run' = [run EXCEPT ![c] = x] /\ client' = [client EXCEPT ![c] = y]
  BY DEF PersistStartFails
<1>2. RunOk(run[c]) /\ ClientOk(c, client[c]) /\ client[c].pc \in {"start", "startput"}
  BY DEF RInv, PersistStartFails
<1>3. DOMAIN x = DOMAIN NoRun /\ x.content = run[c].content /\ x.pc = "over"
  BY <1>2 DEF RunOk, NoRun
<1>4. /\ DOMAIN y = DOMAIN NoClient /\ y.pc = "end" /\ y.run = c
      /\ y.chan = client[c].chan /\ y.open = client[c].open /\ y.got = client[c].got
  BY <1>2 DEF ClientOk, NoClient
<1>. HIDE DEF x, y
<1>5. RunOk(x) /\ ClientOk(c, y)
  BY <1>2, <1>3, <1>4 DEF RunOk, ClientOk
<1>6. /\ DOMAIN run' = Clients /\ run'[c] = x /\ \A r \in Clients : r # c => run'[r] = run[r]
      /\ DOMAIN client' = Clients /\ client'[c] = y /\ \A d \in Clients : d # c => client'[d] = client[d]
  BY <1>1 DEF RInv
<1>7. run[c].pc = "created" /\ registry = c
  BY <1>2 DEF RInv, ClientOk
<1>8. registry' = None /\ \A r \in Clients : run'[r].pc \in {"none", "over"}
  BY <1>1, <1>3, <1>6, <1>7 DEF RInv
<1>9. (\A r \in Clients : RunOk(run'[r])) /\ (\A d \in Clients : ClientOk(d, client'[d]))
  BY <1>5, <1>6 DEF RInv
<1>10. \A d \in Clients : client'[d].pc \in {"start", "startput", "subscribe"} /\ client'[d].run = d => run'[d].pc = "created"
  BY <1>4, <1>6 DEF RInv
<1>11. \A d \in Clients : client'[d].pc \in {"subscribe", "loop"} => client'[d].run \in Clients /\ client'[client'[d].run].pc # "idle"
  BY <1>4, <1>6 DEF RInv
<1>12. \A y1 : InStep(y1, run[c]) => InStep(y1, x)
  BY <1>3, <1>7 DEF InStep, Pending
<1>13. \A d \in Clients : client'[d].pc = "loop" => InStep(client'[d], run'[client'[d].run])
  BY <1>4, <1>6, <1>11, <1>12 DEF RInv
<1>. QED BY <1>6, <1>8, <1>9, <1>10, <1>11, <1>13 DEF RInv

\* A request subscribes with all that there is; the one that created the run makes it ready.
LEMMA StepSubscribe ==
  ASSUME RInv, NEW c \in Clients, Subscribe(c)
  PROVE  RInv'
<1>. DEFINE r == client[c].run
            y == [client[c] EXCEPT !.pc = IF run[r].done THEN "last" ELSE "loop", !.open = ~run[r].done, !.got = run[r].content,
                                   !.told = IF ~run[r].done THEN None ELSE IF run[r].failed THEN "error" ELSE "done"]
            x == [run[r] EXCEPT !.pc = IF r = c THEN "ready" ELSE run[r].pc]
<1>1. registry' = registry /\ run' = [run EXCEPT ![r] = x] /\ client' = [client EXCEPT ![c] = y]
  BY DEF Subscribe
<1>2. client[c].pc = "subscribe" /\ ClientOk(c, client[c]) /\ r \in Clients /\ client[r].pc # "idle"
  BY DEF Subscribe, RInv
<1>3. RunOk(run[r]) /\ (r = c => run[r].pc = "created")
  BY <1>2 DEF RInv
<1>4. DOMAIN x = DOMAIN NoRun /\ x.content = run[r].content /\ x.event = run[r].event /\ x.pc = IF r = c THEN "ready" ELSE run[r].pc
  BY <1>3 DEF RunOk, NoRun
<1>5. /\ DOMAIN y = DOMAIN NoClient /\ y.pc \in {"last", "loop"} /\ y.run = r
      /\ y.chan = <<>> /\ y.got = run[r].content
  BY <1>2 DEF ClientOk, NoClient
<1>6. PICK q \in Clients : q = r
  BY <1>2
<1>. HIDE DEF x, y, r
<1>7. RunOk(x) /\ ClientOk(c, y)
  BY <1>2, <1>3, <1>4, <1>5 DEF RunOk, ClientOk
<1>8. /\ DOMAIN run' = Clients /\ run'[r] = x /\ \A q1 \in Clients : q1 # r => run'[q1] = run[q1]
      /\ DOMAIN client' = Clients /\ client'[c] = y /\ \A d \in Clients : d # c => client'[d] = client[d]
  BY <1>1, <1>2 DEF RInv
<1>9. (\A q1 \in Clients : RunOk(run'[q1])) /\ (\A d \in Clients : ClientOk(d, client'[d]))
  BY <1>7, <1>8 DEF RInv
<1>10. registry' # None => registry' \in Clients /\ client'[registry'].pc # "idle"
  BY <1>1, <1>5, <1>8 DEF RInv
<1>11. \A q1 \in Clients : run'[q1].pc \notin {"none", "over"} => registry' = q1
  BY <1>1, <1>3, <1>4, <1>8 DEF RInv
<1>12. \A d \in Clients : client'[d].pc \in {"start", "startput", "subscribe"} /\ client'[d].run = d => run'[d].pc = "created"
  <2>. SUFFICES ASSUME NEW d \in Clients, client'[d].pc \in {"start", "startput", "subscribe"}, client'[d].run = d
                PROVE  run'[d].pc = "created"
    OBVIOUS
  <2>1. d # c /\ client'[d] = client[d]
    BY <1>5, <1>8
  <2>2. run[d].pc = "created"
    BY <2>1 DEF RInv
  <2>. QED BY <1>4, <1>8, <2>1, <2>2
<1>13. \A d \in Clients : client'[d].pc \in {"subscribe", "loop"} => client'[d].run \in Clients /\ client'[client'[d].run].pc # "idle"
  BY <1>2, <1>5, <1>8 DEF RInv
<1>14. \A y1 : InStep(y1, run[r]) => InStep(y1, x)
  BY <1>3, <1>4 DEF InStep, Pending
<1>15. InStep(y, x)
  <2>1. Chained(y.got, y.chan) /\ LastPiece(x.content, y.got, y.chan)
    BY <1>4, <1>5 DEF Chained, LastPiece
  <2>. QED BY <1>3, <1>4, <2>1 DEF InStep, RunOk
<1>16. \A d \in Clients : client'[d].pc = "loop" => InStep(client'[d], run'[client'[d].run])
  BY <1>5, <1>8, <1>13, <1>14, <1>15 DEF RInv
<1>. QED BY <1>8, <1>9, <1>10, <1>11, <1>12, <1>13, <1>16 DEF RInv
\* A run is executed and stored: the steps that tell nobody.
LEMMA StepRunAlone ==
  ASSUME RInv, NEW r \in Clients,
         \/ Execute(r) \/ AppendDelta(r) \/ AppendOperation(r) \/ PersistProgressGet(r) \/ PersistProgressPut(r)
         \/ PersistFails(r) \/ CaptureScreenshot(r) \/ CaptureFails(r) \/ Complete(r) \/ CompleteGet(r) \/ CompletePut(r)
         \/ MarkFailed(r)
  PROVE  RInv'
<1>. DEFINE x == run'[r]
<1>1. RunOk(run[r]) /\ DOMAIN run[r] = DOMAIN NoRun /\ DOMAIN run = Clients
  BY DEF RInv, RunOk
<1>2. UNCHANGED <<registry, client>>
  BY DEF Execute, AppendDelta, AppendOperation, PersistProgressGet, PersistProgressPut, PersistFails, CaptureScreenshot,
         CaptureFails, Complete, CompleteGet, CompletePut, MarkFailed
<1>3. DOMAIN run' = Clients /\ \A q \in Clients : q # r => run'[q] = run[q]
  BY <1>1 DEF Execute, AppendDelta, AppendOperation, PersistProgressGet, PersistProgressPut, PersistFails, CaptureScreenshot,
              CaptureFails, Complete, CompleteGet, CompletePut, MarkFailed
<1>4. CASE AppendDelta(r)
  <2>1. /\ run[r].pc = "running" /\ DOMAIN x = DOMAIN NoRun
        /\ x.pc = "progress" /\ x.content = run[r].content + 1 /\ x.event = Event("delta", run[r].content + 1)
    BY <1>1, <1>4 DEF AppendDelta, NoRun
  <2>2. x.event \in Events /\ x.event.type = "delta" /\ x.event.n = x.content
    BY <1>1, <2>1 DEF Event, Events, RunOk
  <2>3. RunOk(x) /\ Pending(x) /\ ~Pending(run[r])
    BY <1>1, <2>1, <2>2 DEF RunOk, Pending
  <2>. QED BY <1>2, <1>3, <2>1, <2>3, RunMovesOn
<1>5. CASE AppendOperation(r)
  <2>1. /\ run[r].pc = "running" /\ DOMAIN x = DOMAIN NoRun
        /\ x.pc = "progress" /\ x.content = run[r].content /\ x.event = Event("operation", 0)
    BY <1>1, <1>5 DEF AppendOperation, NoRun
  <2>2. x.event \in Events /\ x.event.type = "operation"
    BY <2>1 DEF Event, Events
  <2>3. RunOk(x) /\ ~Pending(run[r])
    BY <1>1, <2>1, <2>2 DEF RunOk, Pending
  <2>. QED BY <1>2, <1>3, <2>1, <2>3, RunMovesOn
\* The others leave the content, and the event as long as it is to be broadcast.
<1>6. CASE ~AppendDelta(r) /\ ~AppendOperation(r)
  <2>1. /\ DOMAIN x = DOMAIN NoRun /\ x.content = run[r].content /\ x.event = run[r].event
        /\ \/ x.pc = run[r].pc
           \/ run[r].pc \in {"progress", "put"} /\ x.pc \in {"put", "tell"}
           \/ run[r].pc \in {"ready", "running", "final", "finalput", "mark"} /\ x.pc \in {"running", "final", "finalput", "mark", "farewell"}
    <3>1. CASE Execute(r) \/ PersistProgressGet(r) \/ PersistProgressPut(r)
      <4>1. CASE Execute(r)
        BY <1>1, <4>1 DEF Execute, NoRun
      <4>2. CASE PersistProgressGet(r)
        BY <1>1, <4>2 DEF PersistProgressGet, NoRun
      <4>3. CASE PersistProgressPut(r)
        <5>1. run' = [run EXCEPT ![r] = [@ EXCEPT !.pc = "tell", !.seen = NoSession]] /\ run[r].pc = "put"
          BY <4>3 DEF PersistProgressPut
        <5>. QED BY <1>1, <5>1 DEF NoRun
      <4>. QED BY <3>1, <4>1, <4>2, <4>3
    <3>2. CASE PersistFails(r)
      <4>. DEFINE pc == IF run[r].pc \in {"progress", "put"} THEN "tell" ELSE IF run[r].ok THEN "farewell" ELSE "mark"
      <4>1. IF run[r].pc \in {"progress", "put"} THEN pc = "tell" ELSE pc \in {"farewell", "mark"}
        OBVIOUS
      <4>2. run' = [run EXCEPT ![r] = [@ EXCEPT !.seen = NoSession, !.pc = pc]] /\ run[r].pc \in {"progress", "put", "final", "finalput"}
        BY <3>2 DEF PersistFails
      <4>. HIDE DEF pc
      <4>3. DOMAIN x = DOMAIN NoRun /\ x.pc = pc /\ x.content = run[r].content /\ x.event = run[r].event
        BY <1>1, <4>2 DEF NoRun
      <4>. QED BY <4>1, <4>2, <4>3
    <3>3. CASE CaptureScreenshot(r) \/ CaptureFails(r)
      <4>1. CASE CaptureScreenshot(r)
        BY <1>1, <4>1 DEF CaptureScreenshot, NoRun
      <4>2. CASE CaptureFails(r)
        BY <1>1, <4>2 DEF CaptureFails, NoRun
      <4>. QED BY <3>3, <4>1, <4>2
    <3>4. CASE Complete(r)
      <4>1. run[r].pc = "running"
        BY <3>4 DEF Complete
      <4>2. CASE run' = [run EXCEPT ![r] = [@ EXCEPT !.pc = "final", !.done = TRUE]]
        BY <1>1, <4>1, <4>2 DEF NoRun
      <4>3. ASSUME NEW named, run' = [run EXCEPT ![r] = [@ EXCEPT !.pc = "final", !.done = TRUE, !.ok = FALSE, !.named = named]]
            PROVE  DOMAIN x = DOMAIN NoRun /\ x.pc = "final" /\ x.content = run[r].content /\ x.event = run[r].event
        BY <1>1, <4>3 DEF NoRun
      <4>4. \/ run' = [run EXCEPT ![r] = [@ EXCEPT !.pc = "final", !.done = TRUE]]
            \/ \E named \in {run[r].content > 0, TRUE} :
                 run' = [run EXCEPT ![r] = [@ EXCEPT !.pc = "final", !.done = TRUE, !.ok = FALSE, !.named = named]]
        BY <3>4 DEF Complete
      <4>5. CASE \E named : run' = [run EXCEPT ![r] = [@ EXCEPT !.pc = "final", !.done = TRUE, !.ok = FALSE, !.named = named]]
        <5>1. PICK named : run' = [run EXCEPT ![r] = [@ EXCEPT !.pc = "final", !.done = TRUE, !.ok = FALSE, !.named = named]]
          BY <4>5
        <5>. QED BY <4>1, <4>3, <5>1
      <4>. QED BY <4>2, <4>4, <4>5
    <3>5. CASE CompletePut(r)
      <4>. DEFINE pc == IF run[r].ok THEN "farewell" ELSE "mark"
      <4>1. pc \in {"farewell", "mark"}
        OBVIOUS
      <4>2. run' = [run EXCEPT ![r] = [@ EXCEPT !.pc = pc, !.seen = NoSession]] /\ run[r].pc = "finalput"
        BY <3>5 DEF CompletePut
      <4>. HIDE DEF pc
      <4>3. DOMAIN x = DOMAIN NoRun /\ x.pc = pc /\ x.content = run[r].content /\ x.event = run[r].event
        BY <1>1, <4>2 DEF NoRun
      <4>. QED BY <4>1, <4>2, <4>3
    <3>6. CASE CompleteGet(r) \/ MarkFailed(r)
      <4>1. CASE CompleteGet(r)
        BY <1>1, <4>1 DEF CompleteGet, NoRun
      <4>2. CASE MarkFailed(r)
        BY <1>1, <4>2 DEF MarkFailed, NoRun
      <4>. QED BY <3>6, <4>1, <4>2
    <3>. QED BY <1>6, <3>1, <3>2, <3>3, <3>4, <3>5, <3>6
  <2>2. RunOk(x) /\ (Pending(run[r]) => Pending(x))
    BY <1>1, <2>1 DEF RunOk, Pending
  <2>. QED BY <1>2, <1>3, <2>1, <2>2, RunMovesOn
<1>. QED BY <1>4, <1>5, <1>6
\* A piece that is broadcast reaches the watchers whose channel has room; the others are let go.
LEMMA StepTell ==
  ASSUME RInv, NEW r \in Clients, Broadcast(r) \/ BroadcastEnd(r)
  PROVE  RInv'
<1>. DEFINE x == run'[r]
<1>1. RunOk(run[r]) /\ DOMAIN run[r] = DOMAIN NoRun /\ DOMAIN run = Clients /\ DOMAIN client = Clients
  BY DEF RInv, RunOk
<1>2. PICK event : /\ client' = Sent(r, event) /\ event \in Events
                   /\ event.type = "delta" => run[r].pc = "tell" /\ event.n = run[r].content
                   /\ Pending(run[r]) => event.type = "delta"
  <2>1. CASE Broadcast(r)
    BY <1>1, <2>1 DEF Broadcast, RunOk, Pending
  <2>2. CASE BroadcastEnd(r)
    <3>. DEFINE event == Event(IF run[r].ok THEN "done" ELSE "error", 0)
    <3>1. event \in Events /\ event.type # "delta"
      BY DEF Event, Events
    <3>2. client' = Sent(r, event) /\ run[r].pc = "farewell"
      BY <2>2 DEF BroadcastEnd
    <3>. HIDE DEF event
    <3>. QED BY <3>1, <3>2 DEF Pending
  <2>. QED BY <2>1, <2>2
<1>3. /\ registry' = registry /\ DOMAIN run' = Clients /\ \A q \in Clients : q # r => run'[q] = run[q]
      /\ run[r].pc \in {"tell", "farewell"} /\ x.pc \in {"running", "delete"}
      /\ DOMAIN x = DOMAIN NoRun /\ x.content = run[r].content
  <2>1. CASE Broadcast(r)
    BY <1>1, <2>1 DEF Broadcast, NoRun
  <2>2. CASE BroadcastEnd(r)
    BY <1>1, <2>2 DEF BroadcastEnd, NoRun
  <2>. QED BY <2>1, <2>2
<1>4. RunOk(x)
  BY <1>1, <1>3 DEF RunOk
<1>5. DOMAIN client' = Clients
  BY <1>2 DEF Sent
<1>6. ASSUME NEW c \in Clients
      PROVE  /\ ClientOk(c, client'[c]) /\ client'[c].pc = client[c].pc /\ client'[c].run = client[c].run
             /\ client[c].pc = "loop" /\ client[c].run = r => InStep(client'[c], x)
             /\ client[c].run # r => client'[c] = client[c]
  <2>1. ClientOk(c, client[c])
    BY DEF RInv
  <2>2. CASE c \notin Watchers(r)
    <3>1. client'[c] = client[c]
      BY <1>2, <2>2 DEF Sent
    <3>2. client[c].run = r => ~client[c].open
      BY <2>2 DEF Watchers
    <3>3. client[c].pc = "loop" /\ client[c].run = r => InStep(client[c], run[r])
      BY DEF RInv
    <3>. QED BY <2>1, <3>1, <3>2, <3>3 DEF InStep
  <2>3. CASE c \in Watchers(r) /\ ~(Len(client[c].chan) < SubCap)
    <3>1. client'[c] = [client[c] EXCEPT !.open = FALSE] /\ client[c].run = r /\ client[c].open
      BY <1>2, <2>3 DEF Sent, Watchers
    <3>2. /\ DOMAIN client'[c] = DOMAIN NoClient /\ client'[c].pc = client[c].pc /\ client'[c].run = client[c].run
          /\ client'[c].chan = client[c].chan /\ client'[c].got = client[c].got /\ client'[c].open = FALSE
      BY <2>1, <3>1 DEF ClientOk, NoClient
    <3>3. ClientOk(c, client'[c])
      BY <2>1, <3>2 DEF ClientOk
    <3>4. client[c].pc = "loop" => InStep(client[c], run[r])
      BY <3>1 DEF RInv
    <3>. QED BY <3>1, <3>2, <3>3, <3>4 DEF InStep
  <2>4. CASE c \in Watchers(r) /\ Len(client[c].chan) < SubCap
    <3>. DEFINE got == client[c].got
                chan == client[c].chan
                more == Append(chan, event)
    <3>1. client'[c] = [client[c] EXCEPT !.chan = Append(client[c].chan, event)] /\ client[c].run = r /\ client[c].open
      BY <1>2, <2>4 DEF Sent, Watchers
    <3>0. DOMAIN client[c] = DOMAIN NoClient
      BY <2>1 DEF ClientOk
    <3>. HIDE DEF more
    <3>1a. client'[c] = [client[c] EXCEPT !.chan = more]
      BY <3>1 DEF more
    <3>2. /\ DOMAIN client'[c] = DOMAIN NoClient /\ client'[c].pc = client[c].pc /\ client'[c].run = client[c].run
          /\ client'[c].chan = more /\ client'[c].got = got /\ client'[c].open = client[c].open
      BY <3>0, <3>1a DEF NoClient
    <3>. USE DEF more
    <3>3. chan \in Seq(Events) /\ got \in Nat /\ more \in Seq(Events)
      BY <1>2, <2>1 DEF ClientOk
    <3>4. ClientOk(c, client'[c])
      BY <2>1, <3>1, <3>2, <3>3 DEF ClientOk
    <3>5. ASSUME client[c].pc = "loop" PROVE InStep(client'[c], x)
      <4>1. Chained(got, chan)
        BY <3>1, <3>5 DEF RInv, InStep
      <4>2. PICK n \in Nat : LastPiece(n, got, chan) /\ (n = run[r].content \/ (Pending(run[r]) /\ n + 1 = run[r].content))
        BY <3>1, <3>5 DEF RInv, InStep
      <4>. DEFINE last == IF event.type = "delta" THEN event.n ELSE n
      <4>3. event.type = "delta" => GoesOn(event.n, n)
        BY <1>2, <4>2 DEF GoesOn
      <4>. HIDE DEF got, chan
      <4>4. Chained(got, more) /\ LastPiece(last, got, more)
        BY <1>2, <3>3, <4>1, <4>2, <4>3, PieceSent
      <4>5. last \in Nat /\ last = x.content
        BY <1>1, <1>2, <1>3, <4>2 DEF RunOk
      <4>. HIDE DEF last, more, x
      <4>. QED BY <3>2, <4>4, <4>5 DEF InStep
    <3>. QED BY <3>1, <3>2, <3>4, <3>5
  <2>. QED BY <2>2, <2>3, <2>4
<1>. QED BY <1>3, <1>4, <1>5, <1>6, RunMoves

\* A run that is over leaves the registry.
LEMMA StepDelete ==
  ASSUME RInv, NEW r \in Clients, Delete(r)
  PROVE  RInv'
<1>1. /\ run[r].pc = "delete" /\ RunOk(run[r]) /\ DOMAIN run[r] = DOMAIN NoRun /\ DOMAIN run = Clients
      /\ registry = r
  BY DEF Delete, RInv, RunOk
<1>2. /\ registry' = None /\ client' = client /\ DOMAIN run' = Clients /\ \A q \in Clients : q # r => run'[q] = run[q]
      /\ DOMAIN run'[r] = DOMAIN NoRun /\ run'[r].pc = "over" /\ run'[r].content = run[r].content
  BY <1>1 DEF Delete, NoRun
<1>3. \A q \in Clients : RunOk(run'[q])
  BY <1>1, <1>2 DEF RInv, RunOk
<1>4. \A q \in Clients : run'[q].pc \in {"none", "over"}
  BY <1>1, <1>2 DEF RInv
<1>5. \A c \in Clients : client'[c].pc \in {"start", "startput", "subscribe"} /\ client'[c].run = c => run'[c].pc = "created"
  BY <1>1, <1>2 DEF RInv
<1>. DEFINE x == run'[r]
<1>. HIDE DEF x
<1>6. \A y : InStep(y, run[r]) => InStep(y, x)
  <2>1. ~Pending(run[r]) /\ x.content = run[r].content
    BY <1>1, <1>2 DEF Pending, x
  <2>. QED BY <2>1 DEF InStep
<1>7. \A c \in Clients : client'[c].pc = "loop" => InStep(client'[c], run'[client'[c].run])
  BY <1>2, <1>6 DEF RInv, x
<1>. QED BY <1>2, <1>3, <1>4, <1>5, <1>7 DEF RInv

\* What watchers and pages that come back do to themselves.
LEMMA StepReceive ==
  ASSUME RInv, NEW c \in Clients, Receive(c)
  PROVE  RInv'
<1>. DEFINE y == client'[c]
            got == client[c].got
            chan == client[c].chan
            now == IF Head(chan).type = "delta" THEN Head(chan).n ELSE got
            rest == Tail(chan)
<1>1. client[c].pc = "loop" /\ chan # <<>> /\ UNCHANGED <<registry, run>> /\ ClientOk(c, client[c]) /\ DOMAIN client = Clients
  BY DEF Receive, RInv
<1>2. /\ DOMAIN client' = Clients /\ \A d \in Clients : d # c => client'[d] = client[d]
      /\ DOMAIN y = DOMAIN NoClient /\ y.chan = rest /\ y.got = now /\ y.pc \in {"leave", "loop"}
      /\ y.run = client[c].run /\ y.open = client[c].open
  <2>. DEFINE last == Head(chan).type \in {"done", "error"}
              pc   == IF last THEN "leave" ELSE "loop"
              told == IF last THEN Head(chan).type ELSE None
  <2>1. client' = [client EXCEPT ![c] = [@ EXCEPT !.chan = rest, !.got = now, !.pc = pc, !.told = told]]
    BY DEF Receive
  <2>2. pc \in {"leave", "loop"}
    OBVIOUS
  <2>. HIDE DEF rest, now, pc, told
  <2>. QED BY <1>1, <2>1, <2>2 DEF ClientOk, NoClient
<1>3. /\ client[c].run \in Clients /\ client[client[c].run].pc # "idle" /\ InStep(client[c], run[client[c].run])
      /\ chan \in Seq(Events) /\ got \in Nat /\ Chained(got, chan)
  BY <1>1 DEF RInv, ClientOk, InStep
<1>4. rest \in Seq(Events) /\ now \in Nat /\ Chained(now, rest) /\ \A n \in Nat : LastPiece(n, got, chan) => LastPiece(n, now, rest)
  <2>. HIDE DEF got, chan
  <2>. QED BY <1>1, <1>3, PieceReceived
<1>. HIDE DEF got, chan, now, rest
<1>5. ClientOk(c, y)
  BY <1>2, <1>4 DEF ClientOk
<1>6. InStep(y, run[client[c].run])
  BY <1>2, <1>3, <1>4 DEF InStep, got, chan
<1>. QED BY <1>1, <1>2, <1>3, <1>5, <1>6, ClientMoves
\* A request that does not join a run moves on by itself.
LEMMA StepWatch ==
  ASSUME RInv, NEW c \in Clients,
         \/ ChannelClosed(c) \/ LastEvent(c) \/ Disconnect(c) \/ Unsubscribe(c) \/ StoredResume(c) \/ FindJob(c)
         \/ Replay(c) \/ ReplayEnds(c) \/ ResumeGet(c) \/ ResumePut(c) \/ LostGet(c) \/ LostPut(c)
         \/ SaveGet(c) \/ SavePut(c)
  PROVE  RInv'
<1>. DEFINE y == client'[c]
<1>1. ClientOk(c, client[c]) /\ DOMAIN client[c] = DOMAIN NoClient /\ DOMAIN client = Clients
  BY DEF RInv, ClientOk
<1>2. UNCHANGED <<registry, run>> /\ DOMAIN client' = Clients /\ \A d \in Clients : d # c => client'[d] = client[d]
  <2>1. CASE ChannelClosed(c) \/ LastEvent(c) \/ Disconnect(c) \/ Unsubscribe(c) \/ StoredResume(c) \/ FindJob(c) \/ Replay(c)
    BY <1>1, <2>1 DEF ChannelClosed, LastEvent, Disconnect, Unsubscribe, StoredResume, FindJob, Replay
  <2>2. CASE ReplayEnds(c) \/ ResumeGet(c) \/ ResumePut(c) \/ LostGet(c) \/ LostPut(c) \/ SavePut(c)
    BY <1>1, <2>2 DEF ReplayEnds, ResumeGet, ResumePut, LostGet, LostPut, SavePut
  <2>3. CASE SaveGet(c)
    <3>1. PICK shown : client' = [client EXCEPT ![c] = [NoClient EXCEPT !.pc = "save", !.seen = record, !.page = shown]]
      BY <2>3 DEF SaveGet
    <3>2. UNCHANGED <<registry, run>>
      BY <2>3 DEF SaveGet
    <3>. QED BY <1>1, <3>1, <3>2
  <2>. QED BY <2>1, <2>2, <2>3
<1>3. /\ DOMAIN y = DOMAIN NoClient /\ y.pc \notin {"idle", "start", "startput", "subscribe", "loop"}
      /\ y.chan \in {client[c].chan, <<>>} /\ y.got \in {client[c].got, client[c].got + 1, 0}
  <2>1. \A how : LET e == Ended(c, how) IN
                 DOMAIN e = DOMAIN NoClient /\ e.pc = "end" /\ e.chan = client[c].chan /\ e.got = client[c].got
    BY <1>1 DEF Ended, NoClient
  <2>2. CASE ChannelClosed(c) \/ LastEvent(c)
    <3>1. CASE ChannelClosed(c)
      BY <1>1, <3>1 DEF ChannelClosed, NoClient
    <3>2. CASE LastEvent(c)
      BY <1>1, <3>2 DEF LastEvent, NoClient
    <3>. QED BY <2>2, <3>1, <3>2
  <2>3. CASE Disconnect(c)
    <3>1. CASE client[c].pc = "loop"
      BY <1>1, <2>3, <3>1 DEF Disconnect, NoClient
    <3>2. CASE client[c].pc # "loop"
      BY <1>1, <2>1, <2>3, <3>2 DEF Disconnect
    <3>. QED BY <3>1, <3>2
  <2>4. CASE Unsubscribe(c)
    <3>. DEFINE e == Ended(c, client[c].told)
    <3>1. y = [e EXCEPT !.open = FALSE, !.chan = <<>>]
      BY <1>1, <2>4 DEF Unsubscribe
    <3>2. DOMAIN e = DOMAIN NoClient /\ e.pc = "end" /\ e.got = client[c].got
      BY <2>1
    <3>. HIDE DEF e
    <3>. QED BY <3>1, <3>2 DEF NoClient
  <2>5. CASE StoredResume(c)
    <3>1. CASE StoredResumeEvents(record) = "reconnect"
      BY <1>1, <2>5, <3>1 DEF StoredResume, NoClient
    <3>2. CASE StoredResumeEvents(record) # "reconnect"
      BY <1>1, <2>1, <2>5, <3>2 DEF StoredResume
    <3>. QED BY <3>1, <3>2
  <2>6. CASE FindJob(c)
    BY <1>1, <2>6 DEF FindJob, NoClient
  <2>7. CASE Replay(c)
    BY <1>1, <2>7 DEF Replay, NoClient
  <2>8. CASE ReplayEnds(c) \/ ResumeGet(c)
    <3>1. CASE ReplayEnds(c)
      <4>1. PICK told : client' = [client EXCEPT ![c] = [@ EXCEPT !.pc = "resumeget", !.told = told]]
        BY <3>1 DEF ReplayEnds
      <4>. QED BY <1>1, <4>1 DEF NoClient
    <3>2. CASE ResumeGet(c)
      BY <1>1, <3>2 DEF ResumeGet, NoClient
    <3>. QED BY <2>8, <3>1, <3>2
  <2>9. CASE LostGet(c)
    <3>1. CASE record = NoSession
      BY <1>1, <2>1, <2>9, <3>1 DEF LostGet
    <3>2. CASE record # NoSession
      BY <1>1, <2>9, <3>2 DEF LostGet, NoClient
    <3>. QED BY <3>1, <3>2
  <2>10. CASE ResumePut(c) \/ LostPut(c) \/ SavePut(c)
    BY <1>1, <2>1, <2>10 DEF ResumePut, LostPut, SavePut
  <2>11. CASE SaveGet(c)
    <3>1. PICK shown : client' = [client EXCEPT ![c] = [NoClient EXCEPT !.pc = "save", !.seen = record, !.page = shown]]
      BY <2>11 DEF SaveGet
    <3>. QED BY <1>1, <3>1 DEF NoClient
  <2>. QED BY <2>2, <2>3, <2>4, <2>5, <2>6, <2>7, <2>8, <2>9, <2>10, <2>11
<1>4. y.chan \in Seq(Events) /\ y.got \in Nat
  <2>1. <<>> \in Seq(Events)
    OBVIOUS
  <2>2. client[c].chan \in Seq(Events) /\ client[c].got \in Nat
    BY <1>1 DEF ClientOk
  <2>. DEFINE chan == client[c].chan
              got == client[c].got
  <2>3. y.chan \in {chan, <<>>} /\ y.got \in {got, got + 1, 0}
    BY <1>3
  <2>. HIDE DEF y, chan, got
  <2>4. chan \in Seq(Events) /\ got \in Nat
    BY <2>2 DEF chan, got
  <2>5. y.chan \in Seq(Events)
    BY <2>1, <2>3, <2>4
  <2>6. y.got \in Nat
    BY <2>3, <2>4
  <2>. QED BY <2>5, <2>6
<1>5. ClientOk(c, y)
  BY <1>3, <1>4 DEF ClientOk
<1>. QED BY <1>2, <1>3, <1>5, ClientMoves

\* A restart leaves no run, and nobody who watches one.
LEMMA StepConsoleRestart ==
  ASSUME RInv, ConsoleRestart
  PROVE  RInv'
<1>1. ASSUME NEW r \in Clients PROVE RunOk(run'[r]) /\ run'[r].pc = "none"
  BY DEF ConsoleRestart, NoRun, RunOk
<1>2. <<>> \in Seq(Events)
  OBVIOUS
<1>3. ASSUME NEW c \in Clients PROVE ClientOk(c, client'[c]) /\ client'[c].pc \in {"idle", "end"}
  <2>1. CASE Waits(c)
    BY <1>2, <2>1 DEF ConsoleRestart, NoClient, ClientOk
  <2>2. CASE ~Waits(c)
    BY <1>2, <2>2 DEF ConsoleRestart, NoClient, ClientOk
  <2>. QED BY <2>1, <2>2
<1>4. DOMAIN run' = Clients /\ DOMAIN client' = Clients /\ registry' = None
  BY DEF ConsoleRestart
<1>. QED BY <1>1, <1>3, <1>4 DEF RInv

\* Every step keeps the inductive invariant.
LEMMA StepRInv == RInv /\ [RNext]_rvars => RInv'
<1>. SUFFICES ASSUME RInv, [RNext]_rvars PROVE RInv'
  OBVIOUS
<1>1. ASSUME NEW c \in Clients,
             \/ Chat(c) \/ Resume(c) \/ PersistStartGet(c) \/ PersistStartPut(c) \/ PersistStartFails(c) \/ Subscribe(c)
             \/ Receive(c) \/ ChannelClosed(c) \/ LastEvent(c) \/ Disconnect(c) \/ Unsubscribe(c) \/ StoredResume(c) \/ FindJob(c)
             \/ Replay(c) \/ ReplayEnds(c) \/ ResumeGet(c) \/ ResumePut(c) \/ LostGet(c) \/ LostPut(c)
             \/ SaveGet(c) \/ SavePut(c)
      PROVE  RInv'
  BY <1>1, StepChat, StepResume, StepPersistStart, StepPersistStartFails, StepSubscribe, StepReceive, StepWatch
<1>2. ASSUME NEW r \in Clients,
             \/ Execute(r) \/ AppendDelta(r) \/ AppendOperation(r) \/ PersistProgressGet(r) \/ PersistProgressPut(r)
             \/ PersistFails(r) \/ CaptureScreenshot(r) \/ CaptureFails(r) \/ Complete(r) \/ CompleteGet(r) \/ CompletePut(r)
             \/ MarkFailed(r) \/ Broadcast(r) \/ BroadcastEnd(r) \/ Delete(r)
      PROVE  RInv'
  BY <1>2, StepRunAlone, StepTell, StepDelete
<1>3. CASE DeleteSession \/ JobOutput \/ JobEnds \/ UNCHANGED rvars
  <2>1. registry' = registry /\ run' = run /\ client' = client
    BY <1>3 DEF DeleteSession, JobOutput, JobEnds, rvars
  <2>. QED BY <2>1 DEF RInv
<1>4. CASE ConsoleRestart
  BY <1>4, StepConsoleRestart
<1>. QED BY <1>1, <1>2, <1>3, <1>4 DEF RNext, WatchNext, RunNext

\* However questions, pages that come back, failing stores and restarts of the
\* console interleave (startOrGet, delete and persistStreamingStart's failure in
\* chat_cloud_agent_stream.go), one run of a session executes at a time.
THEOREM OneRun == RSpec => []OneRunExecutes
<1>1. RInv => OneRunExecutes
  BY DEF RInv, OneRunExecutes
<1>. QED BY <1>1, InitRInv, StepRInv, PTL DEF RSpec

\* Whoever watches a run, from whenever on and with however small a channel, is
\* given its pieces in order and without a gap until it is let go
\* (subscribe, broadcast and the select of streamConsoleCloudAgent).
THEOREM NoGapsInReply == RSpec => []ReplyHasNoGaps
<1>1. RInv => ReplyHasNoGaps
  BY DEF RInv, InStep, Chained, ReplyHasNoGaps
<1>. QED BY <1>1, InitRInv, StepRInv, PTL DEF RSpec
-----------------------------------------------------------------------------
(***************************************************************************)
(* AgentAccount: an agent that runs, and one that is ready.                *)
(*                                                                         *)
(* For every number of requests and faults: an account that says it runs   *)
(* names what its container is built from, and a preparation that answers  *)
(* ready leaves an agent of the current revision.  Both are argued by what *)
(* a preparation may rely on at each of its places (Held, Current): of the *)
(* container and the account as long as it is the only preparation, of     *)
(* everything as long as nothing else has happened since it came.          *)
(***************************************************************************)

Resting == {"idle", "ready", "local", "done", "error"}

\* Where only preparations get to: before the container may change, and then.
Looking == {"key", "complete", "renew", "options", "expect", "reuse", "session", "touch"}
Replacing == {"checksum", "script", "apply", "orphan", "fail"}
Serving == Looking \cup Replacing \cup {"account", "touchsession", "starting", "activate", "failsession"}

\* What a request is by itself.
WorkOk(p) ==
  /\ DOMAIN p = DOMAIN NoWork /\ DOMAIN p.acct = DOMAIN NoAccount /\ DOMAIN p.row = DOMAIN NoKey
  /\ p.pc \in Serving => p.kind \in Preparing
  /\ p.kind \in {"ensure", "force"} => p.pc \notin {"resolve", "resolveaccount", "save", "record", "put", "clear"}
  /\ p.kind = "shell" => p.pc \notin {"account", "reuse", "session", "touch", "touchsession", "record", "put", "save", "clear"}
  /\ p.pc \in {"resolve", "resolveaccount"} => p.kind \in {"shell", "save", "on", "off"}
  /\ p.pc = "script" => p.rev # None

\* The tables have their columns.
RowsOk(acc, rows) == DOMAIN acc = DOMAIN NoAccount /\ DOMAIN rows = Keys /\ \A k \in Keys : DOMAIN rows[k] = DOMAIN NoKey

\* An account that says it runs is telling the truth.
Truth(acc, cont) == acc.status = "running" => cont # None /\ cont = acc.built

\* What the only preparation p relies on, of the account acc and the container cont.
Held(p, acc, cont) ==
  /\ p.pc \in Replacing \/ (p.kind = "shell" /\ p.pc \in {"options", "expect"}) => acc.status # "running"
  /\ p.kind # "shell" /\ p.pc \in Looking => Truth(p.acct, cont)
  /\ p.pc = "apply" => cont # None /\ cont = p.rev

\* A row of rows accepts the credential cred.
Admitted(cred, rows) == \E k \in Keys : cred # None /\ rows[k].secret = cred /\ rows[k].active /\ rows[k].models # "other"

\* What a preparation p relies on after which nothing else has happened.
Current(p, acc, sess, rows, cont, rev) ==
  /\ p.pc = "complete" => p.key \in Keys /\ p.acct.cred # None /\ p.row.secret = p.acct.cred /\ p.row.active
  /\ p.pc = "renew" => p.key \in Keys
  /\ p.pc \in Serving \cup {"sync", "write"} =>
       p.pc \in {"account", "key", "complete", "renew", "fail", "failsession", "orphan"} \/ Admitted(p.acct.cred, rows)
  /\ p.pc \in {"reuse", "script", "apply"} => p.rev = rev
  /\ p.pc \in {"session", "touch"} => p.acct.status = "running" /\ p.acct.built = rev
  /\ p.pc \in {"touch", "touchsession"} => p.sess.status = "active"
  /\ p.pc \in {"touchsession", "activate", "sync", "write"} =>
       acc = p.acct /\ acc.status = "running" /\ acc.built = rev /\ cont = rev
  /\ p.pc \in {"sync", "write"} => sess.status = "active"

AInv ==
  /\ DOMAIN work = Requests /\ \A r \in Requests : WorkOk(work[r])
  /\ RowsOk(account, apiKeys) /\ build \in Nat /\ release \in Nat
  /\ ~mixed => /\ Truth(account, container)
               /\ \A q, r \in Requests : Prepares(q) /\ Prepares(r) => q = r
               /\ \A r \in Requests : Prepares(r) => Held(work[r], account, container)
  /\ \A q, r \in Requests : work[r].quiet /\ Active(r) /\ Active(q) => q = r
  /\ \A r \in Requests : ~mixed /\ work[r].quiet /\ work[r].kind \in {"ensure", "force"} /\ Active(r) =>
       Current(work[r], account, session, apiKeys, container, CloudAgentBuildRevision)

-----------------------------------------------------------------------------
\* Nobody asks at first.
LEMMA InitAInv == AInit => AInv
<1>. SUFFICES ASSUME AInit PROVE AInv
  OBVIOUS
<1>1. ASSUME NEW r \in Requests PROVE WorkOk(work[r]) /\ ~Active(r) /\ ~Prepares(r)
  BY DEF AInit, NoWork, WorkOk, Serving, Looking, Replacing, Active, Prepares
<1>2. PICK there \in BOOLEAN, b \in {0, 1}, s \in {0, 1} :
        /\ account = IF there THEN [status |-> "running", cred |-> First, named |-> TRUE, sha |-> s, built |-> <<b, s>>] ELSE NoAccount
        /\ container = IF there THEN <<b, s>> ELSE None
        /\ apiKeys = [k \in Keys |-> IF there /\ k = First THEN [secret |-> First, active |-> TRUE, models |-> "unexpanded"] ELSE NoKey]
  BY DEF AInit
<1>3. <<b, s>> \in Nat \X Nat
  OBVIOUS
<1>4. Truth(account, container)
  BY <1>2, <1>3, AgentAccountAssumption DEF Truth, NoAccount
<1>5. RowsOk(account, apiKeys)
  BY <1>2 DEF RowsOk, NoAccount, NoKey
<1>6. DOMAIN work = Requests /\ build \in Nat /\ release \in Nat
  BY DEF AInit
<1>. QED BY <1>1, <1>4, <1>5, <1>6 DEF AInv

\* A request moves on: what it relies on is all there is to show.
LEMMA WorkGets ==
  ASSUME AInv, NEW r \in Requests, NEW p, Gets(r, p), Active(r), WorkOk(p), UNCHANGED <<build, release, mixed>>,
         p.kind = work[r].kind, p.quiet => work[r].quiet, RowsOk(account', apiKeys'),
         (account' = account /\ container' = container) \/ work[r].kind \in Preparing,
         ~mixed /\ work[r].kind \in Preparing =>
           /\ Truth(account', container')
           /\ p.pc \notin Resting => Held(p, account', container'),
         ~mixed /\ p.quiet /\ p.kind \in {"ensure", "force"} /\ p.pc \notin Resting =>
           Current(p, account', session', apiKeys', container', CloudAgentBuildRevision)
  PROVE  AInv'
<1>1. /\ DOMAIN work' = Requests /\ work'[r] = p /\ \A q \in Requests : q # r => work'[q] = work[q]
  BY DEF AInv, Gets
<1>2. /\ \A q \in Requests : q # r => Active(q)' = Active(q) /\ Prepares(q)' = Prepares(q)
      /\ Active(r)' = (p.pc \notin Resting) /\ Prepares(r)' = (p.pc \notin Resting /\ p.kind \in Preparing)
  BY <1>1 DEF Active, Prepares, Resting
<1>3. \A q \in Requests : WorkOk(work'[q])
  BY <1>1 DEF AInv
<1>4. CloudAgentBuildRevision' = CloudAgentBuildRevision
  BY DEF CloudAgentBuildRevision
<1>5. \A q, s \in Requests : work'[s].quiet /\ Active(s)' /\ Active(q)' => q = s
  BY <1>1, <1>2 DEF AInv
<1>6. ASSUME ~mixed'
      PROVE  /\ Truth(account', container')
             /\ \A q, s \in Requests : Prepares(q)' /\ Prepares(s)' => q = s
             /\ \A q \in Requests : Prepares(q)' => Held(work'[q], account', container')
  <2>1. CASE work[r].kind \in Preparing
    <3>1. Prepares(r)
      BY <2>1 DEF Prepares
    <3>2. \A q \in Requests : Prepares(q)' => q = r
      BY <1>2, <1>6, <3>1 DEF AInv
    <3>. QED BY <1>1, <1>2, <1>6, <2>1, <3>2
  <2>2. CASE work[r].kind \notin Preparing
    <3>1. ~Prepares(r)'
      BY <1>2, <2>2
    <3>. QED BY <1>1, <1>2, <1>6, <2>2, <3>1 DEF AInv
  <2>. QED BY <2>1, <2>2
<1>7. ASSUME NEW q \in Requests, ~mixed', work'[q].quiet, work'[q].kind \in {"ensure", "force"}, Active(q)'
      PROVE  Current(work'[q], account', session', apiKeys', container', CloudAgentBuildRevision')
  <2>1. CASE q = r
    BY <1>1, <1>2, <1>4, <1>7, <2>1
  <2>2. CASE q # r
    BY <1>1, <1>2, <1>7, <2>2 DEF AInv
  <2>. QED BY <2>1, <2>2
<1>. QED BY <1>1, <1>3, <1>5, <1>6, <1>7 DEF AInv

\* What a request that is on its way may rely on.
Relies(r) ==
  /\ Active(r) /\ WorkOk(work[r]) /\ RowsOk(account, apiKeys) /\ CloudAgentBuildRevision # None
  /\ ~mixed => Truth(account, container)
  /\ ~mixed /\ work[r].kind \in Preparing => Held(work[r], account, container)
  /\ ~mixed /\ work[r].quiet /\ work[r].kind \in {"ensure", "force"} =>
       Current(work[r], account, session, apiKeys, container, CloudAgentBuildRevision)

LEMMA WorkRelies ==
  ASSUME AInv, NEW r \in Requests, work[r].pc \notin Resting
  PROVE  Relies(r)
<1>1. Active(r)
  BY DEF Active, Resting
<1>2. CloudAgentBuildRevision \in Nat \X Nat
  BY DEF AInv, CloudAgentBuildRevision
<1>. QED BY <1>1, <1>2, AgentAccountAssumption DEF Relies, AInv, Prepares

\* The account is read while it tells the truth.
LEMMA StepGetAccount ==
  ASSUME AInv, NEW r \in Requests, GetAccount(r)
  PROVE  AInv'
<1>. DEFINE w == work[r]
            p == [w EXCEPT !.pc = "key", !.acct = account]
<1>1. Gets(r, p) /\ w.pc = "account" /\ UNCHANGED <<account, session, apiKeys, container, build, release, mixed>>
  BY DEF GetAccount, records, worker
<1>2. Relies(r)
  BY <1>1, WorkRelies DEF Resting
<1>3. /\ DOMAIN p = DOMAIN NoWork /\ p.pc = "key" /\ p.kind = w.kind /\ p.acct = account /\ p.sess = w.sess
      /\ p.key = w.key /\ p.row = w.row /\ p.rev = w.rev /\ p.quiet = w.quiet
  BY <1>2 DEF Relies, WorkOk, NoWork
<1>. HIDE DEF p
<1>4. WorkOk(p)
  BY <1>1, <1>2, <1>3 DEF Relies, WorkOk, RowsOk, Serving, Looking, Replacing, Preparing
<1>5. ~mixed /\ w.kind \in Preparing => Truth(account', container') /\ Held(p, account', container')
  BY <1>1, <1>2, <1>3 DEF Relies, WorkOk, Held, Truth, Looking, Replacing, Preparing
<1>6. ~mixed /\ p.quiet /\ p.kind \in {"ensure", "force"} => Current(p, account', session', apiKeys', container', CloudAgentBuildRevision)
  BY <1>1, <1>2, <1>3 DEF Relies, Current, Held, Truth, Serving, Looking, Replacing, Preparing
<1>. QED BY <1>1, <1>2, <1>3, <1>4, <1>5, <1>6, WorkGets DEF Relies, RowsOk, WorkOk, Serving, Looking, Replacing, Preparing

\* The choice for the browser is read.
LEMMA StepStartOptions ==
  ASSUME AInv, NEW r \in Requests, StartOptions(r)
  PROVE  AInv'
<1>. DEFINE w == work[r]
            p == [w EXCEPT !.pc = "expect", !.browser = BrowserEnabled]
<1>1. Gets(r, p) /\ w.pc = "options" /\ UNCHANGED <<account, session, apiKeys, container, build, release, mixed>>
  BY DEF StartOptions, records, worker
<1>2. Relies(r)
  BY <1>1, WorkRelies DEF Resting
<1>3. /\ DOMAIN p = DOMAIN NoWork /\ p.pc = "expect" /\ p.kind = w.kind /\ p.acct = w.acct /\ p.sess = w.sess
      /\ p.key = w.key /\ p.row = w.row /\ p.rev = w.rev /\ p.quiet = w.quiet
  BY <1>2 DEF Relies, WorkOk, NoWork
<1>. HIDE DEF p
<1>4. WorkOk(p)
  BY <1>1, <1>2, <1>3 DEF Relies, WorkOk, RowsOk, Serving, Looking, Replacing, Preparing
<1>5. ~mixed /\ w.kind \in Preparing => Truth(account', container') /\ Held(p, account', container')
  BY <1>1, <1>2, <1>3 DEF Relies, WorkOk, Held, Truth, Looking, Replacing, Preparing
<1>6. ~mixed /\ p.quiet /\ p.kind \in {"ensure", "force"} => Current(p, account', session', apiKeys', container', CloudAgentBuildRevision)
  BY <1>1, <1>2, <1>3 DEF Relies, Current, Held, Truth, Serving, Looking, Replacing, Preparing
<1>. QED BY <1>1, <1>2, <1>3, <1>4, <1>5, <1>6, WorkGets DEF Relies, RowsOk, WorkOk, Serving, Looking, Replacing, Preparing

\* A container that fits is what is expected.
LEMMA StepContainerKept ==
  ASSUME AInv, NEW r \in Requests, ContainerKept(r)
  PROVE  AInv'
<1>. DEFINE w == work[r]
            p == [w EXCEPT !.pc = "apply"]
<1>1. Gets(r, p) /\ w.pc = "script" /\ container = w.rev /\ UNCHANGED <<account, session, apiKeys, container, build, release, mixed>>
  BY DEF ContainerKept, records, worker, Fits
<1>2. Relies(r)
  BY <1>1, WorkRelies DEF Resting
<1>3. /\ DOMAIN p = DOMAIN NoWork /\ p.pc = "apply" /\ p.kind = w.kind /\ p.acct = w.acct /\ p.sess = w.sess
      /\ p.key = w.key /\ p.row = w.row /\ p.rev = w.rev /\ p.quiet = w.quiet
  BY <1>2 DEF Relies, WorkOk, NoWork
<1>. HIDE DEF p
<1>4. WorkOk(p)
  BY <1>1, <1>2, <1>3 DEF Relies, WorkOk, RowsOk, Serving, Looking, Replacing, Preparing
<1>5. ~mixed /\ w.kind \in Preparing => Truth(account', container') /\ Held(p, account', container')
  BY <1>1, <1>2, <1>3 DEF Relies, WorkOk, Held, Truth, Looking, Replacing, Preparing
<1>6. ~mixed /\ p.quiet /\ p.kind \in {"ensure", "force"} => Current(p, account', session', apiKeys', container', CloudAgentBuildRevision)
  BY <1>1, <1>2, <1>3 DEF Relies, Current, Held, Truth, Serving, Looking, Replacing, Preparing
<1>. QED BY <1>1, <1>2, <1>3, <1>4, <1>5, <1>6, WorkGets DEF Relies, RowsOk, WorkOk, Serving, Looking, Replacing, Preparing

\* A new container is what is expected.
LEMMA StepCreated ==
  ASSUME AInv, NEW r \in Requests, Created(r)
  PROVE  AInv'
<1>. DEFINE w == work[r]
            p == [w EXCEPT !.pc = "apply"]
<1>1. Gets(r, p) /\ w.pc = "script" /\ container' = w.rev /\ UNCHANGED <<account, session, apiKeys, build, release, mixed>>
  BY DEF Created, records, worker
<1>2. Relies(r)
  BY <1>1, WorkRelies DEF Resting
<1>3. /\ DOMAIN p = DOMAIN NoWork /\ p.pc = "apply" /\ p.kind = w.kind /\ p.acct = w.acct /\ p.sess = w.sess
      /\ p.key = w.key /\ p.row = w.row /\ p.rev = w.rev /\ p.quiet = w.quiet
  BY <1>2 DEF Relies, WorkOk, NoWork
<1>. HIDE DEF p
<1>4. WorkOk(p)
  BY <1>1, <1>2, <1>3 DEF Relies, WorkOk, RowsOk, Serving, Looking, Replacing, Preparing
<1>5. ~mixed /\ w.kind \in Preparing => Truth(account', container') /\ Held(p, account', container')
  BY <1>1, <1>2, <1>3 DEF Relies, WorkOk, Held, Truth, Looking, Replacing, Preparing
<1>6. ~mixed /\ p.quiet /\ p.kind \in {"ensure", "force"} => Current(p, account', session', apiKeys', container', CloudAgentBuildRevision)
  BY <1>1, <1>2, <1>3 DEF Relies, Current, Held, Truth, Serving, Looking, Replacing, Preparing
<1>. QED BY <1>1, <1>2, <1>3, <1>4, <1>5, <1>6, WorkGets DEF Relies, RowsOk, WorkOk, Serving, Looking, Replacing, Preparing

\* A container is removed while its account does not say that it runs.
LEMMA StepRemoved ==
  ASSUME AInv, NEW r \in Requests, Removed(r)
  PROVE  AInv'
<1>. DEFINE w == work[r]
            p == [w EXCEPT !.pc = "fail"]
<1>1. Gets(r, p) /\ w.pc = "script" /\ UNCHANGED <<account, session, apiKeys, build, release, mixed>>
  BY DEF Removed, records, worker
<1>2. Relies(r)
  BY <1>1, WorkRelies DEF Resting
<1>3. /\ DOMAIN p = DOMAIN NoWork /\ p.pc = "fail" /\ p.kind = w.kind /\ p.acct = w.acct /\ p.sess = w.sess
      /\ p.key = w.key /\ p.row = w.row /\ p.rev = w.rev /\ p.quiet = w.quiet
  BY <1>2 DEF Relies, WorkOk, NoWork
<1>. HIDE DEF p
<1>4. WorkOk(p)
  BY <1>1, <1>2, <1>3 DEF Relies, WorkOk, RowsOk, Serving, Looking, Replacing, Preparing
<1>5. ~mixed /\ w.kind \in Preparing => Truth(account', container') /\ Held(p, account', container')
  BY <1>1, <1>2, <1>3 DEF Relies, WorkOk, Held, Truth, Looking, Replacing, Preparing
<1>6. ~mixed /\ p.quiet /\ p.kind \in {"ensure", "force"} => Current(p, account', session', apiKeys', container', CloudAgentBuildRevision)
  BY <1>1, <1>2, <1>3 DEF Relies, Current, Held, Truth, Serving, Looking, Replacing, Preparing
<1>. QED BY <1>1, <1>2, <1>3, <1>4, <1>5, <1>6, WorkGets DEF Relies, RowsOk, WorkOk, Serving, Looking, Replacing, Preparing

\* The script fails and changes nothing.
LEMMA StepScriptFails ==
  ASSUME AInv, NEW r \in Requests, ScriptFails(r)
  PROVE  AInv'
<1>. DEFINE w == work[r]
            p == [w EXCEPT !.pc = "fail"]
<1>1. Gets(r, p) /\ w.pc = "script" /\ UNCHANGED <<account, session, apiKeys, container, build, release, mixed>>
  BY DEF ScriptFails, records, worker
<1>2. Relies(r)
  BY <1>1, WorkRelies DEF Resting
<1>3. /\ DOMAIN p = DOMAIN NoWork /\ p.pc = "fail" /\ p.kind = w.kind /\ p.acct = w.acct /\ p.sess = w.sess
      /\ p.key = w.key /\ p.row = w.row /\ p.rev = w.rev /\ p.quiet = w.quiet
  BY <1>2 DEF Relies, WorkOk, NoWork
<1>. HIDE DEF p
<1>4. WorkOk(p)
  BY <1>1, <1>2, <1>3 DEF Relies, WorkOk, RowsOk, Serving, Looking, Replacing, Preparing
<1>5. ~mixed /\ w.kind \in Preparing => Truth(account', container') /\ Held(p, account', container')
  BY <1>1, <1>2, <1>3 DEF Relies, WorkOk, Held, Truth, Looking, Replacing, Preparing
<1>6. ~mixed /\ p.quiet /\ p.kind \in {"ensure", "force"} => Current(p, account', session', apiKeys', container', CloudAgentBuildRevision)
  BY <1>1, <1>2, <1>3 DEF Relies, Current, Held, Truth, Serving, Looking, Replacing, Preparing
<1>. QED BY <1>1, <1>2, <1>3, <1>4, <1>5, <1>6, WorkGets DEF Relies, RowsOk, WorkOk, Serving, Looking, Replacing, Preparing

\* A ready account is written back as it was read.
LEMMA StepTouchAccount ==
  ASSUME AInv, NEW r \in Requests, TouchAccount(r)
  PROVE  AInv'
<1>. DEFINE w == work[r]
            p == [w EXCEPT !.pc = "touchsession"]
<1>1. Gets(r, p) /\ w.pc = "touch" /\ account' = w.acct /\ UNCHANGED <<session, apiKeys, container, build, release, mixed>>
  BY DEF TouchAccount, records, worker
<1>2. Relies(r)
  BY <1>1, WorkRelies DEF Resting
<1>3. /\ DOMAIN p = DOMAIN NoWork /\ p.pc = "touchsession" /\ p.kind = w.kind /\ p.acct = w.acct /\ p.sess = w.sess
      /\ p.key = w.key /\ p.row = w.row /\ p.rev = w.rev /\ p.quiet = w.quiet
  BY <1>2 DEF Relies, WorkOk, NoWork
<1>. HIDE DEF p
<1>4. WorkOk(p)
  BY <1>1, <1>2, <1>3 DEF Relies, WorkOk, RowsOk, Serving, Looking, Replacing, Preparing
<1>5. ~mixed /\ w.kind \in Preparing => Truth(account', container') /\ Held(p, account', container')
  BY <1>1, <1>2, <1>3 DEF Relies, WorkOk, Held, Truth, Looking, Replacing, Preparing
<1>6. ~mixed /\ p.quiet /\ p.kind \in {"ensure", "force"} => Current(p, account', session', apiKeys', container', CloudAgentBuildRevision)
  BY <1>1, <1>2, <1>3 DEF Relies, Current, Held, Truth, Serving, Looking, Replacing, Preparing
<1>. QED BY <1>1, <1>2, <1>3, <1>4, <1>5, <1>6, WorkGets DEF Relies, RowsOk, WorkOk, Serving, Looking, Replacing, Preparing

\* An active record is written back.
LEMMA StepTouchSession ==
  ASSUME AInv, NEW r \in Requests, TouchSession(r)
  PROVE  AInv'
<1>. DEFINE w == work[r]
            p == [w EXCEPT !.pc = "sync"]
<1>1. Gets(r, p) /\ w.pc = "touchsession" /\ session' = w.sess /\ UNCHANGED <<account, apiKeys, container, build, release, mixed>>
  BY DEF TouchSession, records, worker
<1>2. Relies(r)
  BY <1>1, WorkRelies DEF Resting
<1>3. /\ DOMAIN p = DOMAIN NoWork /\ p.pc = "sync" /\ p.kind = w.kind /\ p.acct = w.acct /\ p.sess = w.sess
      /\ p.key = w.key /\ p.row = w.row /\ p.rev = w.rev /\ p.quiet = w.quiet
  BY <1>2 DEF Relies, WorkOk, NoWork
<1>. HIDE DEF p
<1>4. WorkOk(p)
  BY <1>1, <1>2, <1>3 DEF Relies, WorkOk, RowsOk, Serving, Looking, Replacing, Preparing
<1>5. ~mixed /\ w.kind \in Preparing => Truth(account', container') /\ Held(p, account', container')
  BY <1>1, <1>2, <1>3 DEF Relies, WorkOk, Held, Truth, Looking, Replacing, Preparing
<1>6. ~mixed /\ p.quiet /\ p.kind \in {"ensure", "force"} => Current(p, account', session', apiKeys', container', CloudAgentBuildRevision)
  BY <1>1, <1>2, <1>3 DEF Relies, Current, Held, Truth, Serving, Looking, Replacing, Preparing
<1>. QED BY <1>1, <1>2, <1>3, <1>4, <1>5, <1>6, WorkGets DEF Relies, RowsOk, WorkOk, Serving, Looking, Replacing, Preparing

\* Where a request gets to.
LEMMA GetsThere ==
  ASSUME NEW r \in Requests, NEW x, DOMAIN work = Requests, Gets(r, x)
  PROVE  Gets(r, work'[r]) /\ work'[r] = x
BY DEF Gets

\* What is expected is the current revision, unless it cannot be found out.
LEMMA StepExpect ==
  ASSUME AInv, NEW r \in Requests, ExpectedBuildRevision(r)
  PROVE  AInv'
<1>. DEFINE w == work[r]
            p == work'[r]
<1>1. w.pc = "expect" /\ UNCHANGED <<account, session, apiKeys, container, build, release, mixed>>
  BY DEF ExpectedBuildRevision, records, worker
<1>2. Relies(r) /\ DOMAIN work = Requests
  BY <1>1, WorkRelies DEF Resting, AInv
<1>3. /\ Gets(r, p) /\ DOMAIN p = DOMAIN NoWork /\ p.kind = w.kind /\ p.acct = w.acct /\ p.sess = w.sess /\ p.key = w.key /\ p.row = w.row
      /\ p.quiet => w.quiet /\ p.rev = CloudAgentBuildRevision
      /\ p.pc = IF w.kind = "ensure" THEN "reuse" ELSE IF w.kind = "force" THEN "starting" ELSE "checksum"
  <2>1. AfterExpect(r) = IF w.kind = "ensure" THEN "reuse" ELSE IF w.kind = "force" THEN "starting" ELSE "checksum"
    BY DEF AfterExpect
  <2>2. CASE Gets(r, [w EXCEPT !.pc = AfterExpect(r), !.rev = CloudAgentBuildRevision])
    <3>1. Gets(r, p) /\ p = [w EXCEPT !.pc = AfterExpect(r), !.rev = CloudAgentBuildRevision]
      BY <1>2, <2>2, GetsThere
    <3>. QED BY <1>1, <1>2, <2>1, <2>2, <3>1 DEF Relies, WorkOk, NoWork
  <2>3. CASE Gets(r, [w EXCEPT !.pc = AfterExpect(r), !.rev = None, !.quiet = FALSE])
    <3>1. Gets(r, p) /\ p = [w EXCEPT !.pc = AfterExpect(r), !.rev = None, !.quiet = FALSE]
      BY <1>2, <2>3, GetsThere
    <3>. QED BY <1>1, <1>2, <2>1, <2>3, <3>1 DEF Relies, WorkOk, NoWork
  <2>. QED BY <1>1, <2>1, <2>2, <2>3 DEF ExpectedBuildRevision
<1>. HIDE DEF p
<1>4. WorkOk(p)
  BY <1>1, <1>2, <1>3 DEF Relies, WorkOk, RowsOk, Serving, Looking, Replacing, Preparing
<1>5. ~mixed /\ w.kind \in Preparing => Truth(account', container') /\ (p.pc \notin Resting => Held(p, account', container'))
  BY <1>1, <1>2, <1>3 DEF Relies, WorkOk, Held, Truth, Resting, Looking, Replacing, Preparing
<1>6. ~mixed /\ p.quiet /\ p.kind \in {"ensure", "force"} /\ p.pc \notin Resting =>
        Current(p, account', session', apiKeys', container', CloudAgentBuildRevision)
  BY <1>1, <1>2, <1>3 DEF Relies, WorkOk, Current, Held, Truth, Resting, Serving, Looking, Replacing, Preparing
<1>. QED BY <1>1, <1>2, <1>3, <1>4, <1>5, <1>6, WorkGets DEF Relies, RowsOk, WorkOk, Serving, Looking, Replacing, Preparing

\* An agent of the expected revision is used as it is.
LEMMA StepCheckReuse ==
  ASSUME AInv, NEW r \in Requests, CheckReuse(r)
  PROVE  AInv'
<1>. DEFINE w == work[r]
            p == work'[r]
<1>1. w.pc = "reuse" /\ UNCHANGED <<account, session, apiKeys, container, build, release, mixed>>
  BY DEF CheckReuse, records, worker
<1>2. Relies(r) /\ DOMAIN work = Requests
  BY <1>1, WorkRelies DEF Resting, AInv
<1>3. /\ Gets(r, p) /\ DOMAIN p = DOMAIN NoWork /\ p.kind = w.kind /\ p.acct = w.acct /\ p.sess = w.sess /\ p.key = w.key /\ p.row = w.row /\ p.rev = w.rev
      /\ p.quiet => w.quiet
      /\ p.pc \in {"session", "starting"}
      /\ p.pc = "session" => w.acct.status = "running" /\ (w.rev # None => w.acct.built = w.rev)
  <2>1. CASE Gets(r, [w EXCEPT !.pc = IF Reusable(w.acct, w.rev) /\ w.acct.sha = release THEN "session" ELSE "starting"])
    <3>1. Gets(r, p) /\ p = [w EXCEPT !.pc = IF Reusable(w.acct, w.rev) /\ w.acct.sha = release THEN "session" ELSE "starting"]
      BY <1>2, <2>1, GetsThere
    <3>. QED BY <1>1, <1>2, <2>1, <3>1 DEF Relies, WorkOk, NoWork, Reusable
  <2>2. CASE Gets(r, [w EXCEPT !.pc = "starting", !.quiet = FALSE])
    <3>1. Gets(r, p) /\ p = [w EXCEPT !.pc = "starting", !.quiet = FALSE]
      BY <1>2, <2>2, GetsThere
    <3>. QED BY <1>1, <1>2, <2>2, <3>1 DEF Relies, WorkOk, NoWork, Reusable
  <2>. QED BY <1>1, <2>1, <2>2 DEF CheckReuse
<1>. HIDE DEF p
<1>4. WorkOk(p)
  BY <1>1, <1>2, <1>3 DEF Relies, WorkOk, RowsOk, Serving, Looking, Replacing, Preparing
<1>5. ~mixed /\ w.kind \in Preparing => Truth(account', container') /\ (p.pc \notin Resting => Held(p, account', container'))
  BY <1>1, <1>2, <1>3 DEF Relies, WorkOk, Held, Truth, Resting, Looking, Replacing, Preparing
<1>6. ~mixed /\ p.quiet /\ p.kind \in {"ensure", "force"} /\ p.pc \notin Resting =>
        Current(p, account', session', apiKeys', container', CloudAgentBuildRevision)
  BY <1>1, <1>2, <1>3 DEF Relies, WorkOk, Current, Held, Truth, Resting, Serving, Looking, Replacing, Preparing
<1>. QED BY <1>1, <1>2, <1>3, <1>4, <1>5, <1>6, WorkGets DEF Relies, RowsOk, WorkOk, Serving, Looking, Replacing, Preparing

\* The session of an agent that is used as it is, is active.
LEMMA StepCheckSession ==
  ASSUME AInv, NEW r \in Requests, CheckSession(r)
  PROVE  AInv'
<1>. DEFINE w == work[r]
            p == work'[r]
<1>1. w.pc = "session" /\ UNCHANGED <<account, session, apiKeys, container, build, release, mixed>>
  BY DEF CheckSession, records, worker
<1>2. Relies(r) /\ DOMAIN work = Requests
  BY <1>1, WorkRelies DEF Resting, AInv
<1>3. /\ Gets(r, p) /\ DOMAIN p = DOMAIN NoWork /\ p.kind = w.kind /\ p.acct = w.acct /\ p.key = w.key /\ p.row = w.row /\ p.rev = w.rev /\ p.quiet = w.quiet
      /\ p.pc \in {"touch", "starting"}
      /\ p.pc = "touch" => p.sess.status = "active"
  <2>1. CASE Gets(r, [w EXCEPT !.pc = "touch", !.sess = [NoRecord EXCEPT !.status = "active"]])
    <3>1. Gets(r, p) /\ p = [w EXCEPT !.pc = "touch", !.sess = [NoRecord EXCEPT !.status = "active"]]
      BY <1>2, <2>1, GetsThere
    <3>. QED BY <1>1, <1>2, <2>1, <3>1 DEF Relies, WorkOk, NoWork, NoRecord
  <2>2. CASE session.status = "active" /\ Gets(r, [w EXCEPT !.pc = "touch", !.sess = session])
    <3>1. Gets(r, p) /\ p = [w EXCEPT !.pc = "touch", !.sess = session]
      BY <1>2, <2>2, GetsThere
    <3>. QED BY <1>1, <1>2, <2>2, <3>1 DEF Relies, WorkOk, NoWork, NoRecord
  <2>3. CASE Gets(r, [w EXCEPT !.pc = "starting"])
    <3>1. Gets(r, p) /\ p = [w EXCEPT !.pc = "starting"]
      BY <1>2, <2>3, GetsThere
    <3>. QED BY <1>1, <1>2, <2>3, <3>1 DEF Relies, WorkOk, NoWork, NoRecord
  <2>. QED BY <1>1, <2>1, <2>2, <2>3 DEF CheckSession
<1>. HIDE DEF p
<1>4. WorkOk(p)
  BY <1>1, <1>2, <1>3 DEF Relies, WorkOk, RowsOk, Serving, Looking, Replacing, Preparing
<1>5. ~mixed /\ w.kind \in Preparing => Truth(account', container') /\ (p.pc \notin Resting => Held(p, account', container'))
  BY <1>1, <1>2, <1>3 DEF Relies, WorkOk, Held, Truth, Resting, Looking, Replacing, Preparing
<1>6. ~mixed /\ p.quiet /\ p.kind \in {"ensure", "force"} /\ p.pc \notin Resting =>
        Current(p, account', session', apiKeys', container', CloudAgentBuildRevision)
  BY <1>1, <1>2, <1>3 DEF Relies, WorkOk, Current, Held, Truth, Resting, Serving, Looking, Replacing, Preparing
<1>. QED BY <1>1, <1>2, <1>3, <1>4, <1>5, <1>6, WorkGets DEF Relies, RowsOk, WorkOk, Serving, Looking, Replacing, Preparing

\* The revision that is sent with the script is the current one.
LEMMA StepResolveChecksum ==
  ASSUME AInv, NEW r \in Requests, ResolveChecksum(r)
  PROVE  AInv'
<1>. DEFINE w == work[r]
            p == work'[r]
<1>1. w.pc = "checksum" /\ UNCHANGED <<account, session, apiKeys, container, build, release, mixed>>
  BY DEF ResolveChecksum, records, worker
<1>2. Relies(r) /\ DOMAIN work = Requests
  BY <1>1, WorkRelies DEF Resting, AInv
<1>3. /\ Gets(r, p) /\ DOMAIN p = DOMAIN NoWork /\ p.kind = w.kind /\ p.acct = w.acct /\ p.sess = w.sess /\ p.key = w.key /\ p.row = w.row /\ p.quiet = w.quiet
      /\ p.pc \in {"script", "fail"}
      /\ p.pc = "script" => p.rev = CloudAgentBuildRevision /\ p.rev # None
  <2>1. CASE Gets(r, [w EXCEPT !.pc = "script", !.rev = CloudAgentBuildRevision])
    <3>1. Gets(r, p) /\ p = [w EXCEPT !.pc = "script", !.rev = CloudAgentBuildRevision]
      BY <1>2, <2>1, GetsThere
    <3>. QED BY <1>1, <1>2, <2>1, <3>1 DEF Relies, WorkOk, NoWork
  <2>2. CASE Gets(r, [w EXCEPT !.pc = "fail"])
    <3>1. Gets(r, p) /\ p = [w EXCEPT !.pc = "fail"]
      BY <1>2, <2>2, GetsThere
    <3>. QED BY <1>1, <1>2, <2>2, <3>1 DEF Relies, WorkOk, NoWork
  <2>. QED BY <1>1, <2>1, <2>2 DEF ResolveChecksum
<1>. HIDE DEF p
<1>4. WorkOk(p)
  BY <1>1, <1>2, <1>3 DEF Relies, WorkOk, RowsOk, Serving, Looking, Replacing, Preparing
<1>5. ~mixed /\ w.kind \in Preparing => Truth(account', container') /\ (p.pc \notin Resting => Held(p, account', container'))
  BY <1>1, <1>2, <1>3 DEF Relies, WorkOk, Held, Truth, Resting, Looking, Replacing, Preparing
<1>6. ~mixed /\ p.quiet /\ p.kind \in {"ensure", "force"} /\ p.pc \notin Resting =>
        Current(p, account', session', apiKeys', container', CloudAgentBuildRevision)
  BY <1>1, <1>2, <1>3 DEF Relies, WorkOk, Current, Held, Truth, Resting, Serving, Looking, Replacing, Preparing
<1>. QED BY <1>1, <1>2, <1>3, <1>4, <1>5, <1>6, WorkGets DEF Relies, RowsOk, WorkOk, Serving, Looking, Replacing, Preparing

\* The record of an agent that is started does not say that it runs.
LEMMA StepStarting ==
  ASSUME AInv, NEW r \in Requests, Starting(r)
  PROVE  AInv'
<1>. DEFINE w == work[r]
            p == work'[r]
<1>1. w.pc = "starting" /\ UNCHANGED <<session, apiKeys, container, build, release, mixed>> /\ account' = StartingRecord(w.acct)
  BY DEF Starting, records, worker
<1>2. Relies(r) /\ DOMAIN work = Requests
  BY <1>1, WorkRelies DEF Resting, AInv
<1>3. /\ Gets(r, p) /\ DOMAIN p = DOMAIN NoWork /\ p.kind = w.kind /\ p.acct = w.acct /\ p.sess = w.sess /\ p.key = w.key /\ p.row = w.row /\ p.rev = w.rev /\ p.quiet = w.quiet
      /\ p.pc = IF w.kind = "shell" THEN "options" ELSE "checksum"
  <2>1. CASE Gets(r, [w EXCEPT !.pc = IF w.kind = "shell" THEN "options" ELSE "checksum"])
    <3>1. Gets(r, p) /\ p = [w EXCEPT !.pc = IF w.kind = "shell" THEN "options" ELSE "checksum"]
      BY <1>2, <2>1, GetsThere
    <3>. QED BY <1>1, <1>2, <2>1, <3>1 DEF Relies, WorkOk, NoWork
  <2>. QED BY <1>1, <2>1 DEF Starting
<1>a. DOMAIN account' = DOMAIN NoAccount /\ account'.status = "starting"
  BY <1>1, <1>2 DEF Relies, WorkOk, StartingRecord, NoAccount
<1>. HIDE DEF p
<1>4. WorkOk(p)
  BY <1>1, <1>2, <1>a, <1>3 DEF Relies, WorkOk, RowsOk, Serving, Looking, Replacing, Preparing
<1>5. ~mixed /\ w.kind \in Preparing => Truth(account', container') /\ (p.pc \notin Resting => Held(p, account', container'))
  BY <1>1, <1>2, <1>a, <1>3 DEF Relies, WorkOk, Held, Truth, Resting, Looking, Replacing, Preparing
<1>6. ~mixed /\ p.quiet /\ p.kind \in {"ensure", "force"} /\ p.pc \notin Resting =>
        Current(p, account', session', apiKeys', container', CloudAgentBuildRevision)
  BY <1>1, <1>2, <1>a, <1>3 DEF Relies, WorkOk, Current, Held, Truth, Resting, Serving, Looking, Replacing, Preparing
<1>. QED BY <1>1, <1>2, <1>a, <1>3, <1>4, <1>5, <1>6, WorkGets DEF Relies, RowsOk, WorkOk, Serving, Looking, Replacing, Preparing

\* The session of an agent that was started is active.
LEMMA StepActivate ==
  ASSUME AInv, NEW r \in Requests, Activate(r)
  PROVE  AInv'
<1>. DEFINE w == work[r]
            p == work'[r]
<1>1. w.pc = "activate" /\ UNCHANGED <<account, apiKeys, container, build, release, mixed>> /\ session' = Rewritten(r, "active")
  BY DEF Activate, records, worker
<1>2. Relies(r) /\ DOMAIN work = Requests
  BY <1>1, WorkRelies DEF Resting, AInv
<1>3. /\ Gets(r, p) /\ DOMAIN p = DOMAIN NoWork /\ p.kind = w.kind /\ p.acct = w.acct /\ p.sess = w.sess /\ p.key = w.key /\ p.row = w.row /\ p.rev = w.rev /\ p.quiet = w.quiet
      /\ p.pc = "sync"
  <2>1. CASE Gets(r, [w EXCEPT !.pc = "sync"])
    <3>1. Gets(r, p) /\ p = [w EXCEPT !.pc = "sync"]
      BY <1>2, <2>1, GetsThere
    <3>. QED BY <1>1, <1>2, <2>1, <3>1 DEF Relies, WorkOk, NoWork
  <2>. QED BY <1>1, <2>1 DEF Activate
<1>a. w.kind # "shell" => session'.status = "active"
  BY <1>1 DEF Rewritten, NoRecord
<1>. HIDE DEF p
<1>4. WorkOk(p)
  BY <1>1, <1>2, <1>a, <1>3 DEF Relies, WorkOk, RowsOk, Serving, Looking, Replacing, Preparing
<1>5. ~mixed /\ w.kind \in Preparing => Truth(account', container') /\ (p.pc \notin Resting => Held(p, account', container'))
  BY <1>1, <1>2, <1>a, <1>3 DEF Relies, WorkOk, Held, Truth, Resting, Looking, Replacing, Preparing
<1>6. ~mixed /\ p.quiet /\ p.kind \in {"ensure", "force"} /\ p.pc \notin Resting =>
        Current(p, account', session', apiKeys', container', CloudAgentBuildRevision)
  BY <1>1, <1>2, <1>a, <1>3 DEF Relies, WorkOk, Current, Held, Truth, Resting, Serving, Looking, Replacing, Preparing
<1>. QED BY <1>1, <1>2, <1>a, <1>3, <1>4, <1>5, <1>6, WorkGets DEF Relies, RowsOk, WorkOk, Serving, Looking, Replacing, Preparing

\* A failure leaves no account that says it runs.
LEMMA StepFailAccount ==
  ASSUME AInv, NEW r \in Requests, FailAccount(r)
  PROVE  AInv'
<1>. DEFINE w == work[r]
            p == work'[r]
<1>1. w.pc = "fail" /\ UNCHANGED <<session, apiKeys, container, build, release, mixed>> /\ account' \in {account, [w.acct EXCEPT !.status = "error"]}
  BY DEF FailAccount, records, worker
<1>2. Relies(r) /\ DOMAIN work = Requests
  BY <1>1, WorkRelies DEF Resting, AInv
<1>3. /\ Gets(r, p) /\ DOMAIN p = DOMAIN NoWork /\ p.kind = w.kind /\ p.acct = w.acct /\ p.sess = w.sess /\ p.key = w.key /\ p.row = w.row /\ p.rev = w.rev /\ p.quiet = w.quiet
      /\ p.pc = "failsession"
  <2>1. CASE Gets(r, [w EXCEPT !.pc = "failsession"])
    <3>1. Gets(r, p) /\ p = [w EXCEPT !.pc = "failsession"]
      BY <1>2, <2>1, GetsThere
    <3>. QED BY <1>1, <1>2, <2>1, <3>1 DEF Relies, WorkOk, NoWork
  <2>. QED BY <1>1, <2>1 DEF FailAccount
<1>a. DOMAIN account' = DOMAIN NoAccount /\ (account' = account \/ account'.status = "error")
  BY <1>1, <1>2 DEF Relies, WorkOk, RowsOk, NoAccount
<1>. HIDE DEF p
<1>4. WorkOk(p)
  BY <1>1, <1>2, <1>a, <1>3 DEF Relies, WorkOk, RowsOk, Serving, Looking, Replacing, Preparing
<1>5. ~mixed /\ w.kind \in Preparing => Truth(account', container') /\ (p.pc \notin Resting => Held(p, account', container'))
  BY <1>1, <1>2, <1>a, <1>3 DEF Relies, WorkOk, Held, Truth, Resting, Looking, Replacing, Preparing
<1>6. ~mixed /\ p.quiet /\ p.kind \in {"ensure", "force"} /\ p.pc \notin Resting =>
        Current(p, account', session', apiKeys', container', CloudAgentBuildRevision)
  BY <1>1, <1>2, <1>a, <1>3 DEF Relies, WorkOk, Current, Held, Truth, Resting, Serving, Looking, Replacing, Preparing
<1>. QED BY <1>1, <1>2, <1>a, <1>3, <1>4, <1>5, <1>6, WorkGets DEF Relies, RowsOk, WorkOk, Serving, Looking, Replacing, Preparing

\* The session of a failure is pending.
LEMMA StepFailSession ==
  ASSUME AInv, NEW r \in Requests, FailSession(r)
  PROVE  AInv'
<1>. DEFINE w == work[r]
            p == work'[r]
<1>1. w.pc = "failsession" /\ UNCHANGED <<account, apiKeys, container, build, release, mixed>>
  BY DEF FailSession, records, worker
<1>2. Relies(r) /\ DOMAIN work = Requests
  BY <1>1, WorkRelies DEF Resting, AInv
<1>3. /\ Gets(r, p) /\ DOMAIN p = DOMAIN NoWork /\ p.kind = w.kind /\ p.acct = w.acct /\ p.sess = w.sess /\ p.key = w.key /\ p.row = w.row /\ p.rev = w.rev /\ p.quiet = w.quiet
      /\ p.pc = "error"
  <2>1. CASE Gets(r, [w EXCEPT !.pc = "error"])
    <3>1. Gets(r, p) /\ p = [w EXCEPT !.pc = "error"]
      BY <1>2, <2>1, GetsThere
    <3>. QED BY <1>1, <1>2, <2>1, <3>1 DEF Relies, WorkOk, NoWork
  <2>. QED BY <1>1, <2>1 DEF FailSession
<1>. HIDE DEF p
<1>4. WorkOk(p)
  BY <1>1, <1>2, <1>3 DEF Relies, WorkOk, RowsOk, Serving, Looking, Replacing, Preparing
<1>5. ~mixed /\ w.kind \in Preparing => Truth(account', container') /\ (p.pc \notin Resting => Held(p, account', container'))
  BY <1>1, <1>2, <1>3 DEF Relies, WorkOk, Held, Truth, Resting, Looking, Replacing, Preparing
<1>6. ~mixed /\ p.quiet /\ p.kind \in {"ensure", "force"} /\ p.pc \notin Resting =>
        Current(p, account', session', apiKeys', container', CloudAgentBuildRevision)
  BY <1>1, <1>2, <1>3 DEF Relies, WorkOk, Current, Held, Truth, Resting, Serving, Looking, Replacing, Preparing
<1>. QED BY <1>1, <1>2, <1>3, <1>4, <1>5, <1>6, WorkGets DEF Relies, RowsOk, WorkOk, Serving, Looking, Replacing, Preparing

\* The tools may be written.
LEMMA StepSync ==
  ASSUME AInv, NEW r \in Requests, Sync(r)
  PROVE  AInv'
<1>. DEFINE w == work[r]
            p == work'[r]
<1>1. w.pc = "sync" /\ UNCHANGED <<account, session, apiKeys, container, build, release, mixed>>
  BY DEF Sync, records, worker
<1>2. Relies(r) /\ DOMAIN work = Requests
  BY <1>1, WorkRelies DEF Resting, AInv
<1>3. /\ Gets(r, p) /\ DOMAIN p = DOMAIN NoWork /\ p.kind = w.kind /\ p.acct = w.acct /\ p.sess = w.sess /\ p.key = w.key /\ p.row = w.row /\ p.rev = w.rev /\ p.quiet = w.quiet
      /\ p.pc \in {"write", "ready"}
  <2>1. CASE Gets(r, [w EXCEPT !.pc = IF BrowserEnabled THEN "write" ELSE "ready"])
    <3>1. Gets(r, p) /\ p = [w EXCEPT !.pc = IF BrowserEnabled THEN "write" ELSE "ready"]
      BY <1>2, <2>1, GetsThere
    <3>. QED BY <1>1, <1>2, <2>1, <3>1 DEF Relies, WorkOk, NoWork
  <2>. QED BY <1>1, <2>1 DEF Sync
<1>. HIDE DEF p
<1>4. WorkOk(p)
  BY <1>1, <1>2, <1>3 DEF Relies, WorkOk, RowsOk, Serving, Looking, Replacing, Preparing
<1>5. ~mixed /\ w.kind \in Preparing => Truth(account', container') /\ (p.pc \notin Resting => Held(p, account', container'))
  BY <1>1, <1>2, <1>3 DEF Relies, WorkOk, Held, Truth, Resting, Looking, Replacing, Preparing
<1>6. ~mixed /\ p.quiet /\ p.kind \in {"ensure", "force"} /\ p.pc \notin Resting =>
        Current(p, account', session', apiKeys', container', CloudAgentBuildRevision)
  BY <1>1, <1>2, <1>3 DEF Relies, WorkOk, Current, Held, Truth, Resting, Serving, Looking, Replacing, Preparing
<1>. QED BY <1>1, <1>2, <1>3, <1>4, <1>5, <1>6, WorkGets DEF Relies, RowsOk, WorkOk, Serving, Looking, Replacing, Preparing

\* The tools are written.
LEMMA StepWriteTools ==
  ASSUME AInv, NEW r \in Requests, WriteTools(r)
  PROVE  AInv'
<1>. DEFINE w == work[r]
            p == work'[r]
<1>1. w.pc \in {"write", "clear"} /\ UNCHANGED <<account, session, apiKeys, container, build, release, mixed>>
  BY DEF WriteTools, records, worker
<1>2. Relies(r) /\ DOMAIN work = Requests
  BY <1>1, WorkRelies DEF Resting, AInv
<1>3. /\ Gets(r, p) /\ DOMAIN p = DOMAIN NoWork /\ p.kind = w.kind /\ p.acct = w.acct /\ p.sess = w.sess /\ p.key = w.key /\ p.row = w.row /\ p.rev = w.rev /\ p.quiet = w.quiet
      /\ p.pc = "ready"
  <2>1. CASE Gets(r, [w EXCEPT !.pc = "ready"])
    <3>1. Gets(r, p) /\ p = [w EXCEPT !.pc = "ready"]
      BY <1>2, <2>1, GetsThere
    <3>. QED BY <1>1, <1>2, <2>1, <3>1 DEF Relies, WorkOk, NoWork
  <2>. QED BY <1>1, <2>1 DEF WriteTools
<1>. HIDE DEF p
<1>4. WorkOk(p)
  BY <1>1, <1>2, <1>3 DEF Relies, WorkOk, RowsOk, Serving, Looking, Replacing, Preparing
<1>5. ~mixed /\ w.kind \in Preparing => Truth(account', container') /\ (p.pc \notin Resting => Held(p, account', container'))
  BY <1>1, <1>2, <1>3 DEF Relies, WorkOk, Held, Truth, Resting, Looking, Replacing, Preparing
<1>6. ~mixed /\ p.quiet /\ p.kind \in {"ensure", "force"} /\ p.pc \notin Resting =>
        Current(p, account', session', apiKeys', container', CloudAgentBuildRevision)
  BY <1>1, <1>2, <1>3 DEF Relies, WorkOk, Current, Held, Truth, Resting, Serving, Looking, Replacing, Preparing
<1>. QED BY <1>1, <1>2, <1>3, <1>4, <1>5, <1>6, WorkGets DEF Relies, RowsOk, WorkOk, Serving, Looking, Replacing, Preparing

\* A shell, its state or the choice for the browser looks for an active session.
LEMMA StepResolveSession ==
  ASSUME AInv, NEW r \in Requests, ResolveSession(r)
  PROVE  AInv'
<1>. DEFINE w == work[r]
            p == work'[r]
<1>1. w.pc = "resolve" /\ UNCHANGED <<account, session, apiKeys, container, build, release, mixed>>
  BY DEF ResolveSession, records, worker
<1>2. Relies(r) /\ DOMAIN work = Requests
  BY <1>1, WorkRelies DEF Resting, AInv
<1>3. /\ Gets(r, p) /\ DOMAIN p = DOMAIN NoWork /\ p.kind = w.kind /\ p.acct = w.acct /\ p.key = w.key /\ p.row = w.row /\ p.rev = w.rev /\ p.quiet = w.quiet
      /\ p.pc \in {"resolveaccount", "done", "error"}
  <2>1. CASE session.status = "active" /\ Gets(r, [w EXCEPT !.pc = "resolveaccount", !.sess = session])
    <3>1. Gets(r, p) /\ p = [w EXCEPT !.pc = "resolveaccount", !.sess = session]
      BY <1>2, <2>1, GetsThere
    <3>. QED BY <1>1, <1>2, <2>1, <3>1 DEF Relies, WorkOk, NoWork
  <2>2. CASE Gets(r, [w EXCEPT !.pc = IF w.kind \in {"on", "off"} THEN "done" ELSE "error"])
    <3>1. Gets(r, p) /\ p = [w EXCEPT !.pc = IF w.kind \in {"on", "off"} THEN "done" ELSE "error"]
      BY <1>2, <2>2, GetsThere
    <3>. QED BY <1>1, <1>2, <2>2, <3>1 DEF Relies, WorkOk, NoWork
  <2>. QED BY <1>1, <2>1, <2>2 DEF ResolveSession
<1>. HIDE DEF p
<1>4. WorkOk(p)
  BY <1>1, <1>2, <1>3 DEF Relies, WorkOk, RowsOk, Serving, Looking, Replacing, Preparing
<1>5. ~mixed /\ w.kind \in Preparing => Truth(account', container') /\ (p.pc \notin Resting => Held(p, account', container'))
  BY <1>1, <1>2, <1>3 DEF Relies, WorkOk, Held, Truth, Resting, Looking, Replacing, Preparing
<1>6. ~mixed /\ p.quiet /\ p.kind \in {"ensure", "force"} /\ p.pc \notin Resting =>
        Current(p, account', session', apiKeys', container', CloudAgentBuildRevision)
  BY <1>1, <1>2, <1>3 DEF Relies, WorkOk, Current, Held, Truth, Resting, Serving, Looking, Replacing, Preparing
<1>. QED BY <1>1, <1>2, <1>3, <1>4, <1>5, <1>6, WorkGets DEF Relies, RowsOk, WorkOk, Serving, Looking, Replacing, Preparing

\* The state of the terminals is stored.
LEMMA StepSaveShellState ==
  ASSUME AInv, NEW r \in Requests, SaveShellState(r)
  PROVE  AInv'
<1>. DEFINE w == work[r]
            p == work'[r]
<1>1. w.pc = "save" /\ UNCHANGED <<account, apiKeys, container, build, release, mixed>>
  BY DEF SaveShellState, records, worker
<1>2. Relies(r) /\ DOMAIN work = Requests
  BY <1>1, WorkRelies DEF Resting, AInv
<1>3. /\ Gets(r, p) /\ DOMAIN p = DOMAIN NoWork /\ p.kind = w.kind /\ p.acct = w.acct /\ p.sess = w.sess /\ p.key = w.key /\ p.row = w.row /\ p.rev = w.rev /\ p.quiet = w.quiet
      /\ p.pc = "done"
  <2>1. CASE Gets(r, [w EXCEPT !.pc = "done"])
    <3>1. Gets(r, p) /\ p = [w EXCEPT !.pc = "done"]
      BY <1>2, <2>1, GetsThere
    <3>. QED BY <1>1, <1>2, <2>1, <3>1 DEF Relies, WorkOk, NoWork
  <2>. QED BY <1>1, <2>1 DEF SaveShellState
<1>. HIDE DEF p
<1>4. WorkOk(p)
  BY <1>1, <1>2, <1>3 DEF Relies, WorkOk, RowsOk, Serving, Looking, Replacing, Preparing
<1>5. ~mixed /\ w.kind \in Preparing => Truth(account', container') /\ (p.pc \notin Resting => Held(p, account', container'))
  BY <1>1, <1>2, <1>3 DEF Relies, WorkOk, Held, Truth, Resting, Looking, Replacing, Preparing
<1>6. ~mixed /\ p.quiet /\ p.kind \in {"ensure", "force"} /\ p.pc \notin Resting =>
        Current(p, account', session', apiKeys', container', CloudAgentBuildRevision)
  BY <1>1, <1>2, <1>3 DEF Relies, WorkOk, Current, Held, Truth, Resting, Serving, Looking, Replacing, Preparing
<1>. QED BY <1>1, <1>2, <1>3, <1>4, <1>5, <1>6, WorkGets DEF Relies, RowsOk, WorkOk, Serving, Looking, Replacing, Preparing

\* A session is closed.
LEMMA StepCloseSession ==
  ASSUME AInv, NEW r \in Requests, CloseSession(r)
  PROVE  AInv'
<1>. DEFINE w == work[r]
            p == work'[r]
<1>1. w.pc = "put" /\ UNCHANGED <<account, apiKeys, container, build, release, mixed>>
  BY DEF CloseSession, records, worker
<1>2. Relies(r) /\ DOMAIN work = Requests
  BY <1>1, WorkRelies DEF Resting, AInv
<1>3. /\ Gets(r, p) /\ DOMAIN p = DOMAIN NoWork /\ p.kind = w.kind /\ p.acct = w.acct /\ p.sess = w.sess /\ p.key = w.key /\ p.row = w.row /\ p.rev = w.rev /\ p.quiet = w.quiet
      /\ p.pc = "local"
  <2>1. CASE Gets(r, [w EXCEPT !.pc = "local"])
    <3>1. Gets(r, p) /\ p = [w EXCEPT !.pc = "local"]
      BY <1>2, <2>1, GetsThere
    <3>. QED BY <1>1, <1>2, <2>1, <3>1 DEF Relies, WorkOk, NoWork
  <2>. QED BY <1>1, <2>1 DEF CloseSession
<1>. HIDE DEF p
<1>4. WorkOk(p)
  BY <1>1, <1>2, <1>3 DEF Relies, WorkOk, RowsOk, Serving, Looking, Replacing, Preparing
<1>5. ~mixed /\ w.kind \in Preparing => Truth(account', container') /\ (p.pc \notin Resting => Held(p, account', container'))
  BY <1>1, <1>2, <1>3 DEF Relies, WorkOk, Held, Truth, Resting, Looking, Replacing, Preparing
<1>6. ~mixed /\ p.quiet /\ p.kind \in {"ensure", "force"} /\ p.pc \notin Resting =>
        Current(p, account', session', apiKeys', container', CloudAgentBuildRevision)
  BY <1>1, <1>2, <1>3 DEF Relies, WorkOk, Current, Held, Truth, Resting, Serving, Looking, Replacing, Preparing
<1>. QED BY <1>1, <1>2, <1>3, <1>4, <1>5, <1>6, WorkGets DEF Relies, RowsOk, WorkOk, Serving, Looking, Replacing, Preparing

\* The choice for the browser is stored.
LEMMA StepSetBrowserEnabled ==
  ASSUME AInv, NEW r \in Requests, SetBrowserEnabled(r)
  PROVE  AInv'
<1>. DEFINE w == work[r]
            p == work'[r]
<1>1. w.pc = "put" /\ UNCHANGED <<account, apiKeys, container, build, release, mixed>> /\ w.kind \in {"on", "off"}
  BY DEF SetBrowserEnabled, records, worker
<1>2. Relies(r) /\ DOMAIN work = Requests
  BY <1>1, WorkRelies DEF Resting, AInv
<1>3. /\ Gets(r, p) /\ DOMAIN p = DOMAIN NoWork /\ p.kind = w.kind /\ p.acct = w.acct /\ p.sess = w.sess /\ p.key = w.key /\ p.row = w.row /\ p.rev = w.rev /\ p.quiet = w.quiet
      /\ p.pc = "resolve"
  <2>1. CASE Gets(r, [w EXCEPT !.pc = "resolve"])
    <3>1. Gets(r, p) /\ p = [w EXCEPT !.pc = "resolve"]
      BY <1>2, <2>1, GetsThere
    <3>. QED BY <1>1, <1>2, <2>1, <3>1 DEF Relies, WorkOk, NoWork
  <2>. QED BY <1>1, <2>1 DEF SetBrowserEnabled
<1>. HIDE DEF p
<1>4. WorkOk(p)
  BY <1>1, <1>2, <1>3 DEF Relies, WorkOk, RowsOk, Serving, Looking, Replacing, Preparing
<1>5. ~mixed /\ w.kind \in Preparing => Truth(account', container') /\ (p.pc \notin Resting => Held(p, account', container'))
  BY <1>1, <1>2, <1>3 DEF Relies, WorkOk, Held, Truth, Resting, Looking, Replacing, Preparing
<1>6. ~mixed /\ p.quiet /\ p.kind \in {"ensure", "force"} /\ p.pc \notin Resting =>
        Current(p, account', session', apiKeys', container', CloudAgentBuildRevision)
  BY <1>1, <1>2, <1>3 DEF Relies, WorkOk, Current, Held, Truth, Resting, Serving, Looking, Replacing, Preparing
<1>. QED BY <1>1, <1>2, <1>3, <1>4, <1>5, <1>6, WorkGets DEF Relies, RowsOk, WorkOk, Serving, Looking, Replacing, Preparing

\* A request ends where the store fails.
LEMMA StepStoreError ==
  ASSUME AInv, NEW r \in Requests, StoreError(r)
  PROVE  AInv'
<1>. DEFINE w == work[r]
            p == work'[r]
<1>1. w.pc \notin Resting /\ UNCHANGED <<account, session, apiKeys, container, build, release, mixed>>
  BY DEF StoreError, records, worker, Resting
<1>2. Relies(r) /\ DOMAIN work = Requests
  BY <1>1, WorkRelies DEF Resting, AInv
<1>3. /\ Gets(r, p) /\ DOMAIN p = DOMAIN NoWork /\ p.kind = w.kind /\ p.acct = w.acct /\ p.sess = w.sess /\ p.key = w.key /\ p.row = w.row /\ p.rev = w.rev /\ p.quiet = w.quiet
      /\ p.pc = "error"
  <2>1. CASE Gets(r, [w EXCEPT !.pc = "error"])
    <3>1. Gets(r, p) /\ p = [w EXCEPT !.pc = "error"]
      BY <1>2, <2>1, GetsThere
    <3>. QED BY <1>1, <1>2, <2>1, <3>1 DEF Relies, WorkOk, NoWork
  <2>. QED BY <1>1, <2>1 DEF StoreError
<1>. HIDE DEF p
<1>4. WorkOk(p)
  BY <1>1, <1>2, <1>3 DEF Relies, WorkOk, RowsOk, Serving, Looking, Replacing, Preparing
<1>5. ~mixed /\ w.kind \in Preparing => Truth(account', container') /\ (p.pc \notin Resting => Held(p, account', container'))
  BY <1>1, <1>2, <1>3 DEF Relies, WorkOk, Held, Truth, Resting, Looking, Replacing, Preparing
<1>6. ~mixed /\ p.quiet /\ p.kind \in {"ensure", "force"} /\ p.pc \notin Resting =>
        Current(p, account', session', apiKeys', container', CloudAgentBuildRevision)
  BY <1>1, <1>2, <1>3 DEF Relies, WorkOk, Current, Held, Truth, Resting, Serving, Looking, Replacing, Preparing
<1>. QED BY <1>1, <1>2, <1>3, <1>4, <1>5, <1>6, WorkGets DEF Relies, RowsOk, WorkOk, Serving, Looking, Replacing, Preparing

\* A script without a console does what it does to the container.
LEMMA StepOrphan ==
  ASSUME AInv, NEW r \in Requests, Orphan(r)
  PROVE  AInv'
<1>. DEFINE w == work[r]
            p == work'[r]
<1>1. w.pc = "orphan" /\ UNCHANGED <<account, session, apiKeys, build, release, mixed>>
  BY DEF Orphan, records, worker
<1>2. Relies(r) /\ DOMAIN work = Requests
  BY <1>1, WorkRelies DEF Resting, AInv
<1>3. /\ Gets(r, p) /\ DOMAIN p = DOMAIN NoWork /\ p.kind = w.kind /\ p.acct = w.acct /\ p.sess = w.sess /\ p.key = w.key /\ p.row = w.row /\ p.rev = w.rev /\ p.quiet = w.quiet
      /\ p.pc = "error"
  <2>1. CASE Gets(r, [w EXCEPT !.pc = "error"])
    <3>1. Gets(r, p) /\ p = [w EXCEPT !.pc = "error"]
      BY <1>2, <2>1, GetsThere
    <3>. QED BY <1>1, <1>2, <2>1, <3>1 DEF Relies, WorkOk, NoWork
  <2>. QED BY <1>1, <2>1 DEF Orphan
<1>. HIDE DEF p
<1>4. WorkOk(p)
  BY <1>1, <1>2, <1>3 DEF Relies, WorkOk, RowsOk, Serving, Looking, Replacing, Preparing
<1>5. ~mixed /\ w.kind \in Preparing => Truth(account', container') /\ (p.pc \notin Resting => Held(p, account', container'))
  BY <1>1, <1>2, <1>3 DEF Relies, WorkOk, Held, Truth, Resting, Looking, Replacing, Preparing
<1>6. ~mixed /\ p.quiet /\ p.kind \in {"ensure", "force"} /\ p.pc \notin Resting =>
        Current(p, account', session', apiKeys', container', CloudAgentBuildRevision)
  BY <1>1, <1>2, <1>3 DEF Relies, WorkOk, Current, Held, Truth, Resting, Serving, Looking, Replacing, Preparing
<1>. QED BY <1>1, <1>2, <1>3, <1>4, <1>5, <1>6, WorkGets DEF Relies, RowsOk, WorkOk, Serving, Looking, Replacing, Preparing

\* The row that accepts the credential is looked up; the credential is its secret.
LEMMA StepFindKey ==
  ASSUME AInv, NEW r \in Requests, FindKey(r)
  PROVE  AInv'
<1>. DEFINE w == work[r]
            p == work'[r]
            found == FindAPIKeyByHash(w.acct.cred)
            k == CHOOSE x \in found : TRUE
            next == IF w.kind = "shell" THEN "starting" ELSE "options"
            to == IF ~apiKeys[k].active \/ apiKeys[k].models = "other" THEN "renew"
                  ELSE IF apiKeys[k].models = "unexpanded" THEN "complete" ELSE next
<1>1. w.pc = "key" /\ UNCHANGED <<account, session, apiKeys, container, build, release, mixed>>
  BY DEF FindKey, records, worker
<1>2. Relies(r) /\ DOMAIN work = Requests
  BY <1>1, WorkRelies DEF Resting, AInv
<1>3. /\ Gets(r, p) /\ DOMAIN p = DOMAIN NoWork /\ p.kind = w.kind /\ p.acct = w.acct /\ p.sess = w.sess /\ p.rev = w.rev /\ p.quiet = w.quiet
      /\ p.key \in Keys /\ DOMAIN p.row = DOMAIN NoKey
      /\ p.pc \in {"renew", "complete", next}
      /\ p.pc = "complete" => p.acct.cred # None /\ p.row.secret = p.acct.cred /\ p.row.active
      /\ p.pc = next => Admitted(p.acct.cred, apiKeys)
  <2>1. CASE found = {}
    <3>1. Gets(r, [w EXCEPT !.pc = "renew", !.key = r])
      BY <2>1 DEF FindKey
    <3>2. Gets(r, p) /\ p = [w EXCEPT !.pc = "renew", !.key = r]
      BY <1>2, <3>1, GetsThere
    <3>. QED BY <1>2, <3>2 DEF Relies, WorkOk, NoWork, Keys
  <2>2. CASE found # {}
    <3>1. k \in Keys /\ w.acct.cred # None /\ apiKeys[k].secret = w.acct.cred
      BY <2>2 DEF FindAPIKeyByHash
    <3>2. Gets(r, [w EXCEPT !.key = k, !.row = apiKeys[k], !.pc = to])
      BY <2>2 DEF FindKey
    <3>3. to = "renew" \/ (to = "complete" /\ apiKeys[k].active) \/ (to = next /\ apiKeys[k].active /\ apiKeys[k].models # "other")
      OBVIOUS
    <3>4. DOMAIN apiKeys[k] = DOMAIN NoKey
      BY <1>2, <3>1 DEF Relies, RowsOk
    <3>5. next \notin {"renew", "complete"}
      OBVIOUS
    <3>. HIDE DEF to, k, next
    <3>6. Gets(r, p) /\ p = [w EXCEPT !.key = k, !.row = apiKeys[k], !.pc = to]
      BY <1>2, <3>2, GetsThere
    <3>7. /\ DOMAIN p = DOMAIN NoWork /\ p.kind = w.kind /\ p.acct = w.acct /\ p.sess = w.sess /\ p.rev = w.rev /\ p.quiet = w.quiet
          /\ p.key = k /\ p.row = apiKeys[k] /\ p.pc = to
      BY <1>2, <3>6 DEF Relies, WorkOk, NoWork
    <3>. QED BY <3>1, <3>3, <3>4, <3>5, <3>6, <3>7 DEF Admitted
  <2>. QED BY <2>1, <2>2
<1>. HIDE DEF p, found, k, to
<1>4. WorkOk(p)
  BY <1>1, <1>2, <1>3 DEF Relies, WorkOk, RowsOk, Serving, Looking, Replacing, Preparing
<1>5. ~mixed /\ w.kind \in Preparing => Truth(account', container') /\ (p.pc \notin Resting => Held(p, account', container'))
  BY <1>1, <1>2, <1>3 DEF Relies, WorkOk, Held, Truth, Resting, Looking, Replacing, Preparing
<1>6. ~mixed /\ p.quiet /\ p.kind \in {"ensure", "force"} /\ p.pc \notin Resting =>
        Current(p, account', session', apiKeys', container', CloudAgentBuildRevision)
  BY <1>1, <1>2, <1>3 DEF Relies, WorkOk, Current, Held, Truth, Resting, Serving, Looking, Replacing, Preparing
<1>. QED BY <1>1, <1>2, <1>3, <1>4, <1>5, <1>6, WorkGets DEF Relies, RowsOk, WorkOk, Serving, Looking, Replacing, Preparing

\* The row that is completed accepts the credential.
LEMMA StepCompleteKey ==
  ASSUME AInv, NEW r \in Requests, CompleteKey(r)
  PROVE  AInv'
<1>. DEFINE w == work[r]
            p == work'[r]
            new == [w.row EXCEPT !.models = "wanted"]
<1>1. w.pc = "complete" /\ UNCHANGED <<account, session, container, build, release, mixed>> /\ apiKeys' = [apiKeys EXCEPT ![w.key] = new]
  BY DEF CompleteKey, records, worker
<1>2. Relies(r) /\ DOMAIN work = Requests
  BY <1>1, WorkRelies DEF Resting, AInv
<1>3. /\ Gets(r, p) /\ DOMAIN p = DOMAIN NoWork /\ p.kind = w.kind /\ p.acct = w.acct /\ p.sess = w.sess /\ p.key = w.key /\ p.row = w.row /\ p.rev = w.rev /\ p.quiet = w.quiet
      /\ p.pc = IF w.kind = "shell" THEN "starting" ELSE "options"
  <2>1. Gets(r, [w EXCEPT !.pc = IF w.kind = "shell" THEN "starting" ELSE "options"])
    BY DEF CompleteKey
  <2>2. Gets(r, p) /\ p = [w EXCEPT !.pc = IF w.kind = "shell" THEN "starting" ELSE "options"]
    BY <1>2, <2>1, GetsThere
  <2>. QED BY <1>2, <2>2 DEF Relies, WorkOk, NoWork
<1>a. RowsOk(account', apiKeys') /\ (w.key \in Keys /\ w.row.secret = w.acct.cred /\ w.row.active /\ w.acct.cred # None => Admitted(w.acct.cred, apiKeys'))
  <2>1. DOMAIN new = DOMAIN NoKey /\ new.secret = w.row.secret /\ new.active = w.row.active /\ new.models = "wanted"
    BY <1>2 DEF Relies, WorkOk, NoKey
  <2>2. DOMAIN apiKeys' = Keys /\ \A k \in Keys : apiKeys'[k] = IF k = w.key THEN new ELSE apiKeys[k]
    BY <1>1, <1>2 DEF Relies, RowsOk
  <2>. HIDE DEF new
  <2>. QED BY <1>1, <1>2, <2>1, <2>2 DEF Relies, RowsOk, Admitted
<1>. HIDE DEF p, new
<1>4. WorkOk(p)
  BY <1>1, <1>2, <1>3 DEF Relies, WorkOk, RowsOk, Serving, Looking, Replacing, Preparing
<1>5. ~mixed /\ w.kind \in Preparing => Truth(account', container') /\ (p.pc \notin Resting => Held(p, account', container'))
  BY <1>1, <1>2, <1>3 DEF Relies, WorkOk, Held, Truth, Resting, Looking, Replacing, Preparing
<1>6. ~mixed /\ p.quiet /\ p.kind \in {"ensure", "force"} /\ p.pc \notin Resting =>
        Current(p, account', session', apiKeys', container', CloudAgentBuildRevision)
  BY <1>1, <1>2, <1>a, <1>3 DEF Relies, WorkOk, Current, Held, Truth, Resting, Serving, Looking, Replacing, Preparing
<1>. QED BY <1>1, <1>2, <1>a, <1>3, <1>4, <1>5, <1>6, WorkGets DEF Relies, WorkOk, Serving, Looking, Replacing, Preparing

\* The row that is renewed accepts the new credential.
LEMMA StepRenewKey ==
  ASSUME AInv, NEW r \in Requests, RenewKey(r)
  PROVE  AInv'
<1>. DEFINE w == work[r]
            p == work'[r]
            new == [secret |-> r, active |-> TRUE, models |-> "unexpanded"]
<1>1. w.pc = "renew" /\ UNCHANGED <<account, session, container, build, release, mixed>> /\ apiKeys' = [apiKeys EXCEPT ![w.key] = new]
  BY DEF RenewKey, records, worker
<1>2. Relies(r) /\ DOMAIN work = Requests
  BY <1>1, WorkRelies DEF Resting, AInv
<1>3. /\ Gets(r, p) /\ DOMAIN p = DOMAIN NoWork /\ p.kind = w.kind /\ p.sess = w.sess /\ p.key = w.key /\ p.row = w.row /\ p.rev = w.rev /\ p.quiet = w.quiet
      /\ p.pc = IF w.kind = "shell" THEN "starting" ELSE "options"
      /\ DOMAIN p.acct = DOMAIN NoAccount /\ p.acct.cred = r /\ p.acct.status = w.acct.status /\ p.acct.built = w.acct.built
  <2>1. Gets(r, [w EXCEPT !.pc = IF w.kind = "shell" THEN "starting" ELSE "options", !.acct.cred = r])
    BY DEF RenewKey
  <2>2. Gets(r, p) /\ p = [w EXCEPT !.pc = IF w.kind = "shell" THEN "starting" ELSE "options", !.acct.cred = r]
    BY <1>2, <2>1, GetsThere
  <2>. QED BY <1>2, <2>2 DEF Relies, WorkOk, NoWork, NoAccount
<1>a. RowsOk(account', apiKeys') /\ (w.key \in Keys => Admitted(r, apiKeys'))
  <2>1. DOMAIN new = DOMAIN NoKey /\ new.secret = r /\ new.active = TRUE /\ new.models # "other" /\ r # None
    BY AgentAccountAssumption DEF NoKey
  <2>2. DOMAIN apiKeys' = Keys /\ \A k \in Keys : apiKeys'[k] = IF k = w.key THEN new ELSE apiKeys[k]
    BY <1>1, <1>2 DEF Relies, RowsOk
  <2>. HIDE DEF new
  <2>. QED BY <1>1, <1>2, <2>1, <2>2 DEF Relies, RowsOk, Admitted
<1>. HIDE DEF p, new
<1>4. WorkOk(p)
  BY <1>1, <1>2, <1>3 DEF Relies, WorkOk, RowsOk, Serving, Looking, Replacing, Preparing
<1>5. ~mixed /\ w.kind \in Preparing => Truth(account', container') /\ (p.pc \notin Resting => Held(p, account', container'))
  BY <1>1, <1>2, <1>3 DEF Relies, WorkOk, Held, Truth, Resting, Looking, Replacing, Preparing
<1>6. ~mixed /\ p.quiet /\ p.kind \in {"ensure", "force"} /\ p.pc \notin Resting =>
        Current(p, account', session', apiKeys', container', CloudAgentBuildRevision)
  BY <1>1, <1>2, <1>a, <1>3 DEF Relies, WorkOk, Current, Held, Truth, Resting, Serving, Looking, Replacing, Preparing
<1>. QED BY <1>1, <1>2, <1>a, <1>3, <1>4, <1>5, <1>6, WorkGets DEF Relies, WorkOk, Serving, Looking, Replacing, Preparing

\* The account is written when its container is what it says.
LEMMA StepApplyRelease ==
  ASSUME AInv, NEW r \in Requests, ApplyRelease(r)
  PROVE  AInv'
<1>. DEFINE w == work[r]
            p == work'[r]
            ran == [w.acct EXCEPT !.status = "running", !.named = TRUE, !.built = w.rev]
<1>1. w.pc = "apply" /\ UNCHANGED <<session, apiKeys, container, build, release, mixed>> /\ account' \in {ran, [ran EXCEPT !.sha = release]}
  BY DEF ApplyRelease, records, worker
<1>2. Relies(r) /\ DOMAIN work = Requests
  BY <1>1, WorkRelies DEF Resting, AInv
<1>3. /\ Gets(r, p) /\ DOMAIN p = DOMAIN NoWork /\ p.kind = w.kind /\ p.sess = w.sess /\ p.key = w.key /\ p.row = w.row /\ p.rev = w.rev /\ p.quiet = w.quiet
      /\ p.pc = "activate" /\ p.acct = account'
  <2>1. Gets(r, [w EXCEPT !.pc = "activate", !.acct = account'])
    BY DEF ApplyRelease
  <2>2. Gets(r, p) /\ p = [w EXCEPT !.pc = "activate", !.acct = account']
    BY <1>2, <2>1, GetsThere
  <2>. QED BY <1>2, <2>2 DEF Relies, WorkOk, NoWork
<1>a. DOMAIN account' = DOMAIN NoAccount /\ account'.status = "running" /\ account'.built = w.rev /\ account'.cred = w.acct.cred
  <2>1. DOMAIN ran = DOMAIN NoAccount /\ ran.status = "running" /\ ran.built = w.rev /\ ran.cred = w.acct.cred
    BY <1>2 DEF Relies, WorkOk, NoAccount
  <2>. HIDE DEF ran
  <2>. QED BY <1>1, <2>1 DEF NoAccount
<1>. HIDE DEF p, ran
<1>4. WorkOk(p)
  BY <1>1, <1>2, <1>a, <1>3 DEF Relies, WorkOk, RowsOk, Serving, Looking, Replacing, Preparing
<1>5. ~mixed /\ w.kind \in Preparing => Truth(account', container') /\ (p.pc \notin Resting => Held(p, account', container'))
  BY <1>1, <1>2, <1>a, <1>3 DEF Relies, WorkOk, Held, Truth, Resting, Looking, Replacing, Preparing
<1>6. ~mixed /\ p.quiet /\ p.kind \in {"ensure", "force"} /\ p.pc \notin Resting =>
        Current(p, account', session', apiKeys', container', CloudAgentBuildRevision)
  BY <1>1, <1>2, <1>a, <1>3 DEF Relies, WorkOk, Current, Held, Truth, Resting, Serving, Looking, Replacing, Preparing
<1>. QED BY <1>1, <1>2, <1>a, <1>3, <1>4, <1>5, <1>6, WorkGets DEF Relies, RowsOk, WorkOk, Serving, Looking, Replacing, Preparing

\* Only a shell prepares after this, and it has still to write that the agent is starting.
LEMMA StepResolveAccount ==
  ASSUME AInv, NEW r \in Requests, ResolveAccount(r)
  PROVE  AInv'
<1>. DEFINE w == work[r]
            p == work'[r]
            to == CASE ~account.named -> IF w.kind \in {"on", "off"} THEN "done" ELSE "error"
                    [] w.kind = "save" -> "save"
                    [] w.kind = "on" -> "sync"
                    [] w.kind = "off" -> "clear"
                    [] account.built # None /\ Reusable(account, None) /\ w.pass = 1 -> "ready"
                    [] OTHER -> IF w.pass = 1 THEN "resolve" ELSE "key"
<1>1. w.pc = "resolveaccount" /\ UNCHANGED <<account, session, apiKeys, container, build, release, mixed>>
  BY DEF ResolveAccount, records, worker
<1>2. Relies(r) /\ DOMAIN work = Requests
  BY <1>1, WorkRelies DEF Resting, AInv
<1>3. /\ Gets(r, p) /\ DOMAIN p = DOMAIN NoWork /\ p.kind = w.kind /\ p.acct = account /\ p.sess = w.sess /\ p.key = w.key /\ p.row = w.row /\ p.rev = w.rev /\ p.quiet = w.quiet
      /\ p.pc \in Resting \/ (w.kind \in {"save", "on", "off"} /\ p.pc \in {"save", "sync", "clear"}) \/ (w.kind = "shell" /\ p.pc \in {"resolve", "key"})
  <2>1. to \in Resting \/ (w.kind \in {"save", "on", "off"} /\ to \in {"save", "sync", "clear"}) \/ (w.kind = "shell" /\ to \in {"resolve", "key"})
    BY <1>1, <1>2 DEF Relies, WorkOk, Resting
  <2>2. Gets(r, [w EXCEPT !.acct = account, !.pass = 2, !.pc = to])
    BY DEF ResolveAccount
  <2>. HIDE DEF to
  <2>3. Gets(r, p) /\ p = [w EXCEPT !.acct = account, !.pass = 2, !.pc = to]
    BY <1>2, <2>2, GetsThere
  <2>. QED BY <1>2, <2>1, <2>3 DEF Relies, WorkOk, NoWork
<1>. HIDE DEF p
<1>4. WorkOk(p)
  BY <1>1, <1>2, <1>3 DEF Relies, WorkOk, RowsOk, Resting, Serving, Looking, Replacing, Preparing
<1>5. ~mixed /\ w.kind \in Preparing => Truth(account', container') /\ (p.pc \notin Resting => Held(p, account', container'))
  BY <1>1, <1>2, <1>3 DEF Relies, WorkOk, Held, Truth, Resting, Looking, Replacing, Preparing
<1>6. ~mixed /\ p.quiet /\ p.kind \in {"ensure", "force"} /\ p.pc \notin Resting =>
        Current(p, account', session', apiKeys', container', CloudAgentBuildRevision)
  BY <1>1, <1>2, <1>3 DEF Relies, WorkOk, Resting
<1>. QED BY <1>1, <1>2, <1>3, <1>4, <1>5, <1>6, WorkGets DEF Relies, RowsOk, WorkOk, Serving, Looking, Replacing, Preparing

\* The record of a session is looked up to be changed.
LEMMA StepGetRecord ==
  ASSUME AInv, NEW r \in Requests, GetRecord(r)
  PROVE  AInv'
<1>. DEFINE w == work[r]
            p == work'[r]
<1>1. w.pc = "record" /\ UNCHANGED <<account, session, apiKeys, container, build, release, mixed>>
  BY DEF GetRecord, records, worker
<1>2. Relies(r) /\ DOMAIN work = Requests
  BY <1>1, WorkRelies DEF Resting, AInv
<1>3. /\ Gets(r, p) /\ DOMAIN p = DOMAIN NoWork /\ p.kind = w.kind /\ p.acct = w.acct /\ p.key = w.key /\ p.row = w.row /\ p.rev = w.rev /\ p.quiet = w.quiet
      /\ p.pc \in {"put", "local", "error"}
  <2>1. CASE Gets(r, [w EXCEPT !.pc = "put", !.sess = session])
    <3>1. Gets(r, p) /\ p = [w EXCEPT !.pc = "put", !.sess = session]
      BY <1>2, <2>1, GetsThere
    <3>. QED BY <1>2, <3>1 DEF Relies, WorkOk, NoWork
  <2>2. CASE Gets(r, [w EXCEPT !.pc = "local"])
    <3>1. Gets(r, p) /\ p = [w EXCEPT !.pc = "local"]
      BY <1>2, <2>2, GetsThere
    <3>. QED BY <1>2, <3>1 DEF Relies, WorkOk, NoWork
  <2>3. CASE Gets(r, [w EXCEPT !.pc = "error"])
    <3>1. Gets(r, p) /\ p = [w EXCEPT !.pc = "error"]
      BY <1>2, <2>3, GetsThere
    <3>. QED BY <1>2, <3>1 DEF Relies, WorkOk, NoWork
  <2>. QED BY <2>1, <2>2, <2>3 DEF GetRecord
<1>. HIDE DEF p
<1>4. WorkOk(p)
  BY <1>1, <1>2, <1>3 DEF Relies, WorkOk, RowsOk, Serving, Looking, Replacing, Preparing
<1>5. ~mixed /\ w.kind \in Preparing => Truth(account', container') /\ (p.pc \notin Resting => Held(p, account', container'))
  BY <1>1, <1>2, <1>3 DEF Relies, WorkOk, Held, Truth, Resting, Looking, Replacing, Preparing
<1>6. ~mixed /\ p.quiet /\ p.kind \in {"ensure", "force"} /\ p.pc \notin Resting =>
        Current(p, account', session', apiKeys', container', CloudAgentBuildRevision)
  BY <1>1, <1>2, <1>3 DEF Relies, WorkOk, Current, Held, Truth, Resting, Serving, Looking, Replacing, Preparing
<1>. QED BY <1>1, <1>2, <1>3, <1>4, <1>5, <1>6, WorkGets DEF Relies, RowsOk, WorkOk, Serving, Looking, Replacing, Preparing

\* After what nobody has asked for, nobody may rely on having been alone; those that go on
\* rely on what they did.
LEMMA AllDisturbed ==
  ASSUME AInv, DOMAIN work' = Requests, UNCHANGED <<account, container, mixed>>, RowsOk(account', apiKeys'),
         build' \in Nat, release' \in Nat,
         \A q \in Requests :
           /\ WorkOk(work'[q]) /\ ~work'[q].quiet /\ work'[q].kind = work[q].kind
           /\ Active(q)' => Active(q)
           /\ Active(q)' /\ ~mixed /\ Held(work[q], account, container) => Held(work'[q], account, container)
  PROVE  AInv'
<1>1. \A q \in Requests : Prepares(q)' => Prepares(q)
  BY DEF Prepares
<1>2. \A q \in Requests : Prepares(q)' => Active(q)'
  BY DEF Prepares
<1>. HIDE DEF Prepares, Active
<1>. QED BY <1>1, <1>2 DEF AInv

\* The fields of a request that is disturbed.
LEMMA DisturbedWork ==
  ASSUME NEW w, WorkOk(w), NEW q \in Requests, work'[q] = [w EXCEPT !.quiet = FALSE]
  PROVE  /\ ~work'[q].quiet /\ DOMAIN work'[q] = DOMAIN NoWork
         /\ work'[q].pc = w.pc /\ work'[q].kind = w.kind /\ work'[q].acct = w.acct /\ work'[q].row = w.row /\ work'[q].rev = w.rev
BY DEF WorkOk, NoWork

LEMMA StepDisturbed ==
  ASSUME AInv, Disturbed, UNCHANGED <<account, container, mixed>>, RowsOk(account', apiKeys'), build' \in Nat, release' \in Nat
  PROVE  AInv'
<1>1. DOMAIN work' = Requests
  BY DEF Disturbed
<1>2. ASSUME NEW q \in Requests
      PROVE  /\ WorkOk(work'[q]) /\ ~work'[q].quiet /\ work'[q].kind = work[q].kind
             /\ Active(q)' => Active(q)
             /\ Active(q)' /\ ~mixed /\ Held(work[q], account, container) => Held(work'[q], account, container)
  <2>1. WorkOk(work[q]) /\ work'[q] = [work[q] EXCEPT !.quiet = FALSE]
    BY DEF AInv, Disturbed
  <2>2. /\ ~work'[q].quiet /\ DOMAIN work'[q] = DOMAIN NoWork
        /\ work'[q].pc = work[q].pc /\ work'[q].kind = work[q].kind /\ work'[q].acct = work[q].acct
        /\ work'[q].row = work[q].row /\ work'[q].rev = work[q].rev
    BY <2>1, DisturbedWork
  <2>3. WorkOk(work'[q])
    BY <2>1, <2>2 DEF WorkOk
  <2>. QED BY <2>2, <2>3 DEF Active, Held
<1>. QED BY <1>1, <1>2, AllDisturbed

\* The administrator changes rows of API keys, and nothing a preparation holds.
LEMMA StepAdminister ==
  ASSUME AInv, Administer
  PROVE  AInv'
<1>1. Disturbed /\ UNCHANGED <<account, container, build, release, mixed>>
  BY DEF Administer, worker
<1>2. DOMAIN apiKeys = Keys /\ \A k \in Keys : DOMAIN apiKeys[k] = DOMAIN NoKey
  BY DEF AInv, RowsOk
<1>3. DOMAIN apiKeys' = Keys /\ \A k \in Keys : DOMAIN apiKeys'[k] = DOMAIN NoKey
  <2>1. CASE \E k \in Keys : apiKeys' = [apiKeys EXCEPT ![k].active = FALSE]
    <3>1. PICK k \in Keys : apiKeys' = [apiKeys EXCEPT ![k].active = FALSE]
      BY <2>1
    <3>2. DOMAIN apiKeys' = Keys /\ \A x \in Keys : apiKeys'[x] = IF x = k THEN [apiKeys[k] EXCEPT !.active = FALSE] ELSE apiKeys[x]
      BY <1>2, <3>1
    <3>3. DOMAIN [apiKeys[k] EXCEPT !.active = FALSE] = DOMAIN NoKey
      BY <1>2
    <3>. QED BY <1>2, <3>2, <3>3
  <2>2. CASE apiKeys' = [k \in Keys |-> [apiKeys[k] EXCEPT !.models = "other"]]
    BY <1>2, <2>2
  <2>. QED BY <2>1, <2>2 DEF Administer
<1>. QED BY <1>1, <1>3, StepDisturbed DEF AInv, RowsOk

\* A release that is published leaves what was built as it is.
LEMMA StepPublish ==
  ASSUME AInv, Publish
  PROVE  AInv'
<1>1. Disturbed /\ UNCHANGED <<account, apiKeys, container, build, mixed>> /\ release' = release + 1
  BY DEF Publish, records, worker
<1>2. RowsOk(account', apiKeys') /\ build' \in Nat /\ release' \in Nat
  <2>1. RowsOk(account, apiKeys) /\ build \in Nat /\ release \in Nat
    BY DEF AInv
  <2>2. RowsOk(account', apiKeys')
    BY <1>1, <2>1
  <2>3. build' \in Nat /\ release' \in Nat
    BY <1>1, <2>1
  <2>. QED BY <2>2, <2>3
<1>. QED BY <1>1, <1>2, StepDisturbed

\* A console that is replaced leaves at most a script behind, and an account that is starting.
LEMMA StepUpgrade ==
  ASSUME AInv, Upgrade
  PROVE  AInv'
<1>1. /\ UNCHANGED <<account, apiKeys, container, release, mixed>> /\ build' = build + 1
      /\ DOMAIN work' = Requests
      /\ \A q \in Requests : work'[q] = [work[q] EXCEPT !.quiet = FALSE,
                                                        !.pc = IF ~Active(q) THEN @ ELSE IF @ = "script" THEN "orphan" ELSE "error"]
  BY DEF Upgrade, records, worker
<1>2. RowsOk(account', apiKeys') /\ build' \in Nat /\ release' \in Nat
  <2>1. RowsOk(account, apiKeys) /\ build \in Nat /\ release \in Nat
    BY DEF AInv
  <2>2. RowsOk(account', apiKeys')
    BY <1>1, <2>1
  <2>3. build' = build + 1 /\ release' = release
    BY <1>1
  <2>4. build' \in Nat /\ release' \in Nat
    BY <2>1, <2>3
  <2>. QED BY <2>2, <2>4
<1>3. ASSUME NEW q \in Requests
      PROVE  /\ WorkOk(work'[q]) /\ ~work'[q].quiet /\ work'[q].kind = work[q].kind
             /\ Active(q)' => Active(q)
             /\ Active(q)' /\ ~mixed /\ Held(work[q], account, container) => Held(work'[q], account, container)
  <2>1. WorkOk(work[q])
    BY DEF AInv
  <2>2. /\ ~work'[q].quiet /\ DOMAIN work'[q] = DOMAIN NoWork /\ work'[q].kind = work[q].kind /\ work'[q].acct = work[q].acct
        /\ work'[q].row = work[q].row /\ work'[q].rev = work[q].rev
        /\ work'[q].pc = IF ~Active(q) THEN work[q].pc ELSE IF work[q].pc = "script" THEN "orphan" ELSE "error"
    <3>1. PICK label : label = IF ~Active(q) THEN work[q].pc ELSE IF work[q].pc = "script" THEN "orphan" ELSE "error"
      OBVIOUS
    <3>2. DOMAIN work[q] = DOMAIN NoWork
      BY <2>1 DEF WorkOk
    <3>3. work'[q] = [work[q] EXCEPT !.quiet = FALSE, !.pc = label]
      BY <1>1, <3>1
    <3>4. /\ ~work'[q].quiet /\ DOMAIN work'[q] = DOMAIN NoWork /\ work'[q].kind = work[q].kind /\ work'[q].acct = work[q].acct
          /\ work'[q].row = work[q].row /\ work'[q].rev = work[q].rev /\ work'[q].pc = label
      BY <3>2, <3>3 DEF NoWork
    <3>. QED BY <3>1, <3>4
  <2>3. WorkOk(work'[q])
    BY <2>1, <2>2 DEF WorkOk, Active, Serving, Looking, Replacing, Preparing
  <2>. QED BY <2>1, <2>2, <2>3 DEF Active, Held, WorkOk, Looking, Replacing, Serving
<1>. QED BY <1>1, <1>2, <1>3, AllDisturbed

\* Whoever asks while nobody is under way is alone; a preparation that asks while another is
\* under way overlaps it.
LEMMA StepAsk ==
  ASSUME AInv, NEW r \in Requests, Ask(r)
  PROVE  AInv'
<1>1. PICK kind \in Wishes :
        /\ work' = [q \in Requests |->
                     IF q # r THEN [work[q] EXCEPT !.quiet = FALSE]
                     ELSE [NoWork EXCEPT !.kind = kind, !.quiet = \A o \in Requests : ~Active(o),
                                       !.pc = CASE kind \in {"ensure", "force"} -> "account"
                                                [] kind \in {"shell", "save"} -> "resolve"
                                                [] OTHER -> "record"]]
        /\ mixed' = (mixed \/ (kind \in Preparing /\ \E o \in Requests : Prepares(o)))
  BY DEF Ask
<1>2. work[r].pc = "idle" /\ UNCHANGED <<account, session, apiKeys, container, build, release>>
  BY DEF Ask, records, worker
<1>. DEFINE alone == \A o \in Requests : ~Active(o)
            to == CASE kind \in {"ensure", "force"} -> "account" [] kind \in {"shell", "save"} -> "resolve" [] OTHER -> "record"
            p == work'[r]
<1>3. to = IF kind \in {"ensure", "force"} THEN "account" ELSE IF kind \in {"shell", "save"} THEN "resolve" ELSE "record"
  OBVIOUS
<1>. HIDE DEF to
<1>4. p = [NoWork EXCEPT !.kind = kind, !.quiet = alone, !.pc = to]
  BY <1>1 DEF to
<1>5. DOMAIN p = DOMAIN NoWork /\ p.pc = to /\ p.kind = kind /\ p.acct = NoAccount /\ p.row = NoKey /\ p.quiet = alone
  <2>. HIDE DEF p, alone
  <2>. QED BY <1>4 DEF NoWork
<1>6. ~Active(r) /\ DOMAIN work' = Requests /\ p.quiet = alone
  BY <1>1, <1>2, <1>5 DEF Active
<1>. HIDE DEF p
<1>7. WorkOk(p)
  BY <1>3, <1>5 DEF WorkOk, Serving, Looking, Replacing, Preparing
<1>8. ASSUME NEW q \in Requests, q # r
      PROVE  /\ WorkOk(work'[q]) /\ ~work'[q].quiet /\ work'[q].kind = work[q].kind /\ (Active(q)' <=> Active(q)) /\ (Prepares(q)' <=> Prepares(q))
             /\ Held(work[q], account, container) => Held(work'[q], account, container)
  <2>1. WorkOk(work[q]) /\ work'[q] = [work[q] EXCEPT !.quiet = FALSE]
    BY <1>1, <1>8 DEF AInv
  <2>2. /\ ~work'[q].quiet /\ DOMAIN work'[q] = DOMAIN NoWork
        /\ work'[q].pc = work[q].pc /\ work'[q].kind = work[q].kind /\ work'[q].acct = work[q].acct
        /\ work'[q].row = work[q].row /\ work'[q].rev = work[q].rev
    BY <2>1, DisturbedWork
  <2>3. WorkOk(work'[q])
    BY <2>1, <2>2 DEF WorkOk
  <2>. QED BY <2>2, <2>3 DEF Active, Prepares, Held
<1>9. \A q \in Requests : WorkOk(work'[q])
  BY <1>7, <1>8 DEF p
<1>10. RowsOk(account', apiKeys') /\ build' \in Nat /\ release' \in Nat
  BY <1>2 DEF AInv
<1>11. ASSUME ~mixed'
       PROVE  /\ Truth(account', container')
              /\ \A q, s \in Requests : Prepares(q)' /\ Prepares(s)' => q = s
              /\ \A q \in Requests : Prepares(q)' => Held(work'[q], account', container')
  <2>1. ~mixed /\ (kind \in Preparing => \A o \in Requests : ~Prepares(o))
    BY <1>1, <1>11
  <2>2. Prepares(r)' => kind \in Preparing
    BY <1>5 DEF Prepares, p
  <2>3. Held(p, account', container')
    BY <1>3, <1>5 DEF Held, Looking, Replacing
  <2>4. Truth(account', container')
    BY <1>2, <2>1 DEF AInv
  <2>5. ASSUME NEW q \in Requests, NEW s \in Requests, Prepares(q)', Prepares(s)'
        PROVE  q = s
    BY <1>8, <2>1, <2>2, <2>5 DEF AInv
  <2>6. ASSUME NEW q \in Requests, Prepares(q)'
        PROVE  Held(work'[q], account', container')
    BY <1>2, <1>8, <2>1, <2>3, <2>6 DEF AInv, p
  <2>. QED BY <2>4, <2>5, <2>6
<1>12. \A q \in Requests : work'[q].quiet => q = r /\ alone
  BY <1>6, <1>8 DEF p
<1>13. \A q, s \in Requests : work'[s].quiet /\ Active(s)' /\ Active(q)' => q = s
  BY <1>8, <1>12
<1>14. ASSUME NEW q \in Requests, ~mixed', work'[q].quiet, work'[q].kind \in {"ensure", "force"}, Active(q)'
       PROVE  Current(work'[q], account', session', apiKeys', container', CloudAgentBuildRevision')
  <2>1. q = r
    BY <1>12, <1>14
  <2>2. p.pc = "account"
    BY <1>3, <1>5, <1>14, <2>1 DEF p
  <2>3. Current(p, account', session', apiKeys', container', CloudAgentBuildRevision')
    BY <2>2 DEF Current, Serving, Looking, Replacing
  <2>. QED BY <2>1, <2>3 DEF p
<1>. QED BY <1>6, <1>9, <1>10, <1>11, <1>13, <1>14 DEF AInv

\* Every step keeps the invariant.
LEMMA StepAInv == AInv /\ [ANext]_avars => AInv'
<1>. SUFFICES ASSUME AInv, [ANext]_avars PROVE AInv'
  OBVIOUS
<1>1. CASE UNCHANGED avars
  BY <1>1 DEF AInv, avars, records, worker, WorkOk, RowsOk, Truth, Held, Current, Admitted, Active, Prepares, CloudAgentBuildRevision
<1>2. ASSUME NEW r \in Requests,
             \/ Ask(r) \/ GetAccount(r) \/ FindKey(r) \/ CompleteKey(r) \/ RenewKey(r) \/ StartOptions(r)
             \/ ExpectedBuildRevision(r) \/ CheckReuse(r) \/ CheckSession(r) \/ TouchAccount(r) \/ TouchSession(r)
             \/ Starting(r) \/ ResolveChecksum(r) \/ ContainerKept(r) \/ Created(r) \/ Removed(r) \/ ScriptFails(r)
             \/ ApplyRelease(r) \/ Activate(r) \/ FailAccount(r) \/ FailSession(r) \/ Sync(r) \/ WriteTools(r)
             \/ ResolveSession(r) \/ ResolveAccount(r) \/ SaveShellState(r) \/ GetRecord(r) \/ CloseSession(r)
             \/ SetBrowserEnabled(r) \/ StoreError(r) \/ Orphan(r)
      PROVE  AInv'
  BY <1>2, StepAsk, StepGetAccount, StepFindKey, StepCompleteKey, StepRenewKey, StepStartOptions, StepExpect, StepCheckReuse,
     StepCheckSession, StepTouchAccount, StepTouchSession, StepStarting, StepResolveChecksum, StepContainerKept, StepCreated,
     StepRemoved, StepScriptFails, StepApplyRelease, StepActivate, StepFailAccount, StepFailSession, StepSync, StepWriteTools,
     StepResolveSession, StepResolveAccount, StepSaveShellState, StepGetRecord, StepCloseSession, StepSetBrowserEnabled,
     StepStoreError, StepOrphan
<1>. QED BY <1>1, <1>2, StepAdminister, StepPublish, StepUpgrade DEF ANext

\* An account that says it runs has a container, of the revision it names, whatever has failed
\* on the way: an account is said to be starting before the script that may replace its
\* container, and to run only after it (ensureConsoleChatEnvironmentWithEvents, around
\* ensureCloudAgent).
THEOREM RunningTrue == ASpec => []RunningIsTrue
<1>1. AInv => RunningIsTrue
  BY DEF AInv, RunningIsTrue, Truth
<1>. QED BY <1>1, InitAInv, StepAInv, PTL DEF ASpec

\* Only the last step of a preparation answers that the agent is ready.
LEMMA OnlyReady ==
  ASSUME AInv, NEW q \in Requests, NEW r \in Requests, NEW x, Gets(q, x), work'[r].pc = "ready", work[r].pc # "ready"
  PROVE  q = r /\ x.pc = "ready" /\ WorkOk(work[r])
BY DEF AInv, Gets

LEMMA ReadyAtTheEnd ==
  ASSUME AInv, ANext, NEW r \in Requests, work'[r].pc = "ready", work[r].pc # "ready", work[r].kind \in {"ensure", "force"}
  PROVE  Sync(r) \/ WriteTools(r)
<1>. SUFFICES ASSUME ~Sync(r), ~WriteTools(r) PROVE FALSE
  OBVIOUS
<1>1. DOMAIN work = Requests /\ \A q \in Requests : DOMAIN work[q] = DOMAIN NoWork
  BY DEF AInv, WorkOk
<1>2. WorkOk(work[r])
  BY DEF AInv
<1>3. CASE Administer \/ Publish
  <2>1. work'[r] = [work[r] EXCEPT !.quiet = FALSE]
    BY <1>3 DEF Administer, Publish, Disturbed
  <2>. QED BY <1>1, <2>1 DEF NoWork
<1>4. CASE Upgrade
  <2>1. work'[r] = [work[r] EXCEPT !.quiet = FALSE, !.pc = IF ~Active(r) THEN @ ELSE IF @ = "script" THEN "orphan" ELSE "error"]
    BY <1>4 DEF Upgrade
  <2>. QED BY <1>1, <2>1 DEF NoWork
<1>5. ASSUME NEW q \in Requests, Ask(q)
      PROVE  FALSE
  <2>1. CASE q # r
    <3>1. work'[r] = [work[r] EXCEPT !.quiet = FALSE]
      BY <1>5, <2>1 DEF Ask
    <3>. QED BY <1>1, <3>1 DEF NoWork
  <2>2. CASE q = r
    <3>1. PICK kind \in Wishes :
            work' = [o \in Requests |->
                       IF o # q THEN [work[o] EXCEPT !.quiet = FALSE]
                       ELSE [NoWork EXCEPT !.kind = kind, !.quiet = \A s \in Requests : ~Active(s),
                                         !.pc = CASE kind \in {"ensure", "force"} -> "account"
                                                  [] kind \in {"shell", "save"} -> "resolve"
                                                  [] OTHER -> "record"]]
      BY <1>5 DEF Ask
    <3>. DEFINE to == CASE kind \in {"ensure", "force"} -> "account" [] kind \in {"shell", "save"} -> "resolve" [] OTHER -> "record"
                alone == \A s \in Requests : ~Active(s)
    <3>2. to # "ready"
      OBVIOUS
    <3>3. work'[r] = [NoWork EXCEPT !.kind = kind, !.quiet = alone, !.pc = to]
      BY <2>2, <3>1
    <3>. HIDE DEF to, alone
    <3>. QED BY <3>2, <3>3 DEF NoWork
  <2>. QED BY <2>1, <2>2
<1>6. ASSUME NEW q \in Requests, GetAccount(q)
      PROVE  FALSE
  <2>1. Gets(q, [work[q] EXCEPT !.pc = "key", !.acct = account])
    BY <1>6 DEF GetAccount
  <2>2. [work[q] EXCEPT !.pc = "key", !.acct = account].pc # "ready"
    BY <1>1 DEF NoWork
  <2>. QED BY <2>1, <2>2, OnlyReady
<1>7. ASSUME NEW q \in Requests, FindKey(q)
      PROVE  FALSE
  <2>. DEFINE w == work[q]
              k == CHOOSE x \in FindAPIKeyByHash(w.acct.cred) : TRUE
              to == IF ~apiKeys[k].active \/ apiKeys[k].models = "other" THEN "renew"
                    ELSE IF apiKeys[k].models = "unexpanded" THEN "complete" ELSE IF w.kind = "shell" THEN "starting" ELSE "options"
  <2>1. Gets(q, [w EXCEPT !.pc = "renew", !.key = q]) \/ Gets(q, [w EXCEPT !.key = k, !.row = apiKeys[k], !.pc = to])
    BY <1>7 DEF FindKey
  <2>2. to # "ready"
    OBVIOUS
  <2>. HIDE DEF to, k
  <2>3. [w EXCEPT !.pc = "renew", !.key = q].pc # "ready" /\ [w EXCEPT !.key = k, !.row = apiKeys[k], !.pc = to].pc # "ready"
    BY <1>1, <2>2 DEF NoWork
  <2>. QED BY <2>1, <2>3, OnlyReady
<1>8. ASSUME NEW q \in Requests, CompleteKey(q)
      PROVE  FALSE
  BY <1>1, <1>8, OnlyReady DEF CompleteKey, NoWork
<1>9. ASSUME NEW q \in Requests, RenewKey(q)
      PROVE  FALSE
  <2>1. \/ Gets(q, [work[q] EXCEPT !.pc = "starting", !.acct.cred = q])
        \/ Gets(q, [work[q] EXCEPT !.pc = "options", !.acct.cred = q])
    BY <1>9 DEF RenewKey
  <2>2. /\ [work[q] EXCEPT !.pc = "starting", !.acct.cred = q].pc # "ready"
        /\ [work[q] EXCEPT !.pc = "options", !.acct.cred = q].pc # "ready"
    BY <1>1 DEF NoWork
  <2>. QED BY <2>1, <2>2, OnlyReady
<1>10. ASSUME NEW q \in Requests, StartOptions(q)
      PROVE  FALSE
  <2>1. Gets(q, [work[q] EXCEPT !.pc = "expect", !.browser = BrowserEnabled])
    BY <1>10 DEF StartOptions
  <2>2. [work[q] EXCEPT !.pc = "expect", !.browser = BrowserEnabled].pc # "ready"
    BY <1>1 DEF NoWork
  <2>. QED BY <2>1, <2>2, OnlyReady
<1>11. ASSUME NEW q \in Requests, ExpectedBuildRevision(q)
      PROVE  FALSE
  <2>1. \/ Gets(q, [work[q] EXCEPT !.pc = AfterExpect(q), !.rev = CloudAgentBuildRevision])
        \/ Gets(q, [work[q] EXCEPT !.pc = AfterExpect(q), !.rev = None, !.quiet = FALSE])
    BY <1>11 DEF ExpectedBuildRevision
  <2>2. AfterExpect(q) # "ready"
    BY DEF AfterExpect
  <2>3. /\ [work[q] EXCEPT !.pc = AfterExpect(q), !.rev = CloudAgentBuildRevision].pc # "ready"
        /\ [work[q] EXCEPT !.pc = AfterExpect(q), !.rev = None, !.quiet = FALSE].pc # "ready"
    BY <1>1, <2>2 DEF NoWork
  <2>. QED BY <2>1, <2>3, OnlyReady
<1>12. ASSUME NEW q \in Requests, CheckReuse(q)
      PROVE  FALSE
  <2>1. \/ Gets(q, [work[q] EXCEPT !.pc = "session"])
        \/ Gets(q, [work[q] EXCEPT !.pc = "starting"])
        \/ Gets(q, [work[q] EXCEPT !.pc = "starting", !.quiet = FALSE])
    BY <1>12 DEF CheckReuse
  <2>2. /\ [work[q] EXCEPT !.pc = "session"].pc # "ready"
        /\ [work[q] EXCEPT !.pc = "starting"].pc # "ready"
        /\ [work[q] EXCEPT !.pc = "starting", !.quiet = FALSE].pc # "ready"
    BY <1>1 DEF NoWork
  <2>. QED BY <2>1, <2>2, OnlyReady
<1>13. ASSUME NEW q \in Requests, CheckSession(q)
      PROVE  FALSE
  <2>1. \/ Gets(q, [work[q] EXCEPT !.pc = "touch", !.sess = [NoRecord EXCEPT !.status = "active"]])
        \/ Gets(q, [work[q] EXCEPT !.pc = "touch", !.sess = session])
        \/ Gets(q, [work[q] EXCEPT !.pc = "starting"])
    BY <1>13 DEF CheckSession
  <2>2. /\ [work[q] EXCEPT !.pc = "touch", !.sess = [NoRecord EXCEPT !.status = "active"]].pc # "ready"
        /\ [work[q] EXCEPT !.pc = "touch", !.sess = session].pc # "ready"
        /\ [work[q] EXCEPT !.pc = "starting"].pc # "ready"
    BY <1>1 DEF NoWork
  <2>. QED BY <2>1, <2>2, OnlyReady
<1>14. ASSUME NEW q \in Requests, TouchAccount(q)
      PROVE  FALSE
  BY <1>1, <1>14, OnlyReady DEF TouchAccount, NoWork
<1>15. ASSUME NEW q \in Requests, TouchSession(q)
      PROVE  FALSE
  BY <1>1, <1>15, OnlyReady DEF TouchSession, NoWork
<1>16. ASSUME NEW q \in Requests, Starting(q)
      PROVE  FALSE
  BY <1>1, <1>16, OnlyReady DEF Starting, NoWork
<1>17. ASSUME NEW q \in Requests, ResolveChecksum(q)
      PROVE  FALSE
  <2>1. \/ Gets(q, [work[q] EXCEPT !.pc = "script", !.rev = CloudAgentBuildRevision])
        \/ Gets(q, [work[q] EXCEPT !.pc = "fail"])
    BY <1>17 DEF ResolveChecksum
  <2>2. /\ [work[q] EXCEPT !.pc = "script", !.rev = CloudAgentBuildRevision].pc # "ready"
        /\ [work[q] EXCEPT !.pc = "fail"].pc # "ready"
    BY <1>1 DEF NoWork
  <2>. QED BY <2>1, <2>2, OnlyReady
<1>18. ASSUME NEW q \in Requests, ContainerKept(q)
      PROVE  FALSE
  BY <1>1, <1>18, OnlyReady DEF ContainerKept, NoWork
<1>19. ASSUME NEW q \in Requests, Created(q)
      PROVE  FALSE
  BY <1>1, <1>19, OnlyReady DEF Created, NoWork
<1>20. ASSUME NEW q \in Requests, Removed(q)
      PROVE  FALSE
  BY <1>1, <1>20, OnlyReady DEF Removed, NoWork
<1>21. ASSUME NEW q \in Requests, ScriptFails(q)
      PROVE  FALSE
  BY <1>1, <1>21, OnlyReady DEF ScriptFails, NoWork
<1>22. ASSUME NEW q \in Requests, ApplyRelease(q)
      PROVE  FALSE
  <2>1. Gets(q, [work[q] EXCEPT !.pc = "activate", !.acct = account'])
    BY <1>22 DEF ApplyRelease
  <2>2. [work[q] EXCEPT !.pc = "activate", !.acct = account'].pc # "ready"
    BY <1>1 DEF NoWork
  <2>. QED BY <2>1, <2>2, OnlyReady
<1>23. ASSUME NEW q \in Requests, Activate(q)
      PROVE  FALSE
  BY <1>1, <1>23, OnlyReady DEF Activate, NoWork
<1>24. ASSUME NEW q \in Requests, FailAccount(q)
      PROVE  FALSE
  BY <1>1, <1>24, OnlyReady DEF FailAccount, NoWork
<1>25. ASSUME NEW q \in Requests, FailSession(q)
      PROVE  FALSE
  BY <1>1, <1>25, OnlyReady DEF FailSession, NoWork
<1>26. ASSUME NEW q \in Requests, ResolveSession(q)
      PROVE  FALSE
  <2>1. q = r /\ work[q].pc = "resolve"
    BY <1>26, OnlyReady DEF ResolveSession
  <2>. QED BY <1>2, <2>1 DEF WorkOk
<1>27. ASSUME NEW q \in Requests, ResolveAccount(q)
      PROVE  FALSE
  <2>1. q = r /\ work[q].pc = "resolveaccount"
    BY <1>27, OnlyReady DEF ResolveAccount
  <2>. QED BY <1>2, <2>1 DEF WorkOk
<1>28. ASSUME NEW q \in Requests, SaveShellState(q)
      PROVE  FALSE
  BY <1>1, <1>28, OnlyReady DEF SaveShellState, NoWork
<1>29. ASSUME NEW q \in Requests, GetRecord(q)
      PROVE  FALSE
  <2>1. q = r /\ work[q].pc = "record"
    BY <1>29, OnlyReady DEF GetRecord
  <2>. QED BY <1>2, <2>1 DEF WorkOk
<1>30. ASSUME NEW q \in Requests, CloseSession(q)
      PROVE  FALSE
  BY <1>1, <1>30, OnlyReady DEF CloseSession, NoWork
<1>31. ASSUME NEW q \in Requests, SetBrowserEnabled(q)
      PROVE  FALSE
  BY <1>1, <1>31, OnlyReady DEF SetBrowserEnabled, NoWork
<1>32. ASSUME NEW q \in Requests, StoreError(q)
      PROVE  FALSE
  BY <1>1, <1>32, OnlyReady DEF StoreError, NoWork
<1>33. ASSUME NEW q \in Requests, Orphan(q)
      PROVE  FALSE
  BY <1>1, <1>33, OnlyReady DEF Orphan, NoWork
<1>34. ASSUME NEW q \in Requests, Sync(q) \/ WriteTools(q)
      PROVE  FALSE
  BY <1>34, OnlyReady DEF Sync, WriteTools
<1>. QED BY <1>3, <1>4, <1>5, <1>6, <1>7, <1>8, <1>9, <1>10, <1>11, <1>12, <1>13, <1>14, <1>15, <1>16, <1>17, <1>18, <1>19, <1>20, <1>21, <1>22, <1>23, <1>24, <1>25, <1>26, <1>27, <1>28, <1>29, <1>30, <1>31, <1>32, <1>33, <1>34 DEF ANext

LEMMA StepReady == AInv /\ [ANext]_avars => ReadyStep
<1>. SUFFICES ASSUME AInv, [ANext]_avars, NEW r \in Requests, work'[r].pc = "ready", work[r].pc # "ready",
                     work[r].kind \in {"ensure", "force"}, work[r].quiet, ~mixed
              PROVE  /\ container' = CloudAgentBuildRevision
                     /\ account'.status = "running" /\ account'.built = container'
                     /\ \E k \in FindAPIKeyByHash(account'.cred) : apiKeys[k].active /\ apiKeys[k].models # "other"
                     /\ session'.status = "active" /\ RestoreEnvironment(session', account') = "agent"
  BY DEF ReadyStep
<1>1. ANext
  BY DEF avars
<1>2. Sync(r) \/ WriteTools(r)
  BY <1>1, ReadyAtTheEnd
<1>3. work[r].pc \in {"sync", "write", "clear"} /\ UNCHANGED <<account, session, container>>
  BY <1>2 DEF Sync, WriteTools, records, worker
<1>4. Relies(r)
  BY <1>3, WorkRelies DEF Resting
<1>5. work[r].pc \in {"sync", "write"}
  BY <1>3, <1>4 DEF Relies, WorkOk
<1>6. /\ account = work[r].acct /\ account.status = "running" /\ account.built = CloudAgentBuildRevision
      /\ container = CloudAgentBuildRevision /\ session.status = "active" /\ Admitted(work[r].acct.cred, apiKeys)
  BY <1>4, <1>5 DEF Relies, Current, Serving, Looking, Replacing
<1>7. \E k \in FindAPIKeyByHash(account'.cred) : apiKeys[k].active /\ apiKeys[k].models # "other"
  BY <1>3, <1>6 DEF Admitted, FindAPIKeyByHash
<1>8. RestoreEnvironment(session', account') = "agent"
  BY <1>3, <1>6 DEF RestoreEnvironment, NoRecord
<1>. QED BY <1>3, <1>6, <1>7, <1>8

\* Nothing else having happened since it came, a preparation that answers ready leaves an agent of
\* the console's current build and the published release, whose stored credential an API key for
\* the wanted models accepts, and whose session a page that comes back is offered
\* (ensureConsoleChatEnvironmentWithEvents, whichever of its ways the preparation took).
THEOREM ReadyCurrent == ASpec => ReadyIsCurrent
BY InitAInv, StepAInv, StepReady, PTL DEF ASpec, ReadyIsCurrent
=============================================================================
