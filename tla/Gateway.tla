------------------------------- MODULE Gateway -------------------------------
(***************************************************************************)
(* The gateway's handler of a compatible model request, from the API key   *)
(* to the usage ledger, for requests that run concurrently with each other *)
(* and with an administrator who edits the catalogue: authentication, the  *)
(* response cache, resolution of the models to candidates, the quota       *)
(* reservation, the attempts on upstreams and the failover between them,   *)
(* the copy of the answer, settlement and the usage record.                *)
(*                                                                         *)
(* The quota store is one step per call here; QuotaStore has its           *)
(* transactions.  Every request uses one unit of tokens, or none, so that  *)
(* what it costs is a price.                                               *)
(***************************************************************************)
EXTENDS Routing, RequestForm

CONSTANTS
  Requests,  \* handler goroutines
  Keys,      \* API keys
  Models,    \* public model names
  Allowed,   \* Allowed[k]: the models key k may use
  Catalogs,  \* what the catalogue may hold: [Models -> route with provider and prices]
  Unbuilt,   \* models whose provider has a base URL that does not parse
  Asks,      \* what a client may send: [key, body, use, clear, ttl]
  Answers,   \* what upstreams may answer
  Faults,    \* what else may happen in this instance
  MaxTime,   \* bound on the clock
  None       \* nothing there

\* What the handler makes of an upstream's status: success, 404/405, a status
\* that may be retried elsewhere (408, 429, 502, 503, 504), any other error.
Statuses == {"ok", "missing", "retryable", "rejected"}

ASSUME GatewayAssumption ==
  /\ \A a \in Asks : a.key \in Keys /\ ToSet(Aliases(a.body)) \subseteq Models /\ WellTyped(a.body)
  /\ Allowed \in [Keys -> SUBSET Models]
  /\ \A c \in Catalogs, m \in Models :
       {c[m].prompt, c[m].completion, c[m].priority, c[m].weight} \subseteq Int
  /\ Faults \subseteq {"leave", "interrupt", "disable", "settleError", "insertError"}
  /\ Answers \subseteq Statuses
  /\ MaxTime \in Nat
  /\ None \notin Statuses /\ None # [kind |-> "upstreamError"]

VARIABLES
  now,      \* the clock
  catalog,  \* routes, with their providers and prices
  disabled, \* models whose provider is disabled
  cache,    \* Handler.cache
  here,     \* requests whose client is still connected
  pc,       \* where each handler is
  req,      \* its local state, and what it has replied
  quota,    \* the request's reservation: "none", "open" or "closed"
  ledger    \* its rows in the usage ledger: [model, cost, estimated]

books == <<quota, ledger>>
world == <<now, catalog, disabled>>
vars == <<world, cache, here, pc, req, books>>

Slots == {<<a.key, a.body>> : a \in Asks}
Slot(r) == <<req[r].ask.key, req[r].ask.body>>

Idle ==
  [ask |-> None,      \* what it asks for
   form |-> None,     \* the models it names and its preferences, as they were parsed
   found |-> <<>>,    \* candidates as they were resolved
   chain |-> <<>>,    \* candidates in the order of attempts
   next |-> 1,        \* index of the alias to resolve, then of the candidate to try
   tried |-> 0,       \* attempts so far, failed ones and the final one
   answer |-> None,   \* status of the upstream answer in hand
   spent |-> 0,       \* tokens in the usage parsed from it
   entry |-> None,    \* the cache entry that was loaded
   reply |-> None]    \* what the client has been sent

Init ==
  /\ now = 0
  /\ catalog \in Catalogs
  /\ disabled = {}
  /\ cache = [s \in Slots |-> None]
  /\ here = Requests
  /\ pc = [r \in Requests |-> "new"]
  /\ req = [r \in Requests |-> Idle]
  /\ quota = [r \in Requests |-> "none"]
  /\ ledger = [r \in Requests |-> {}]

Goto(r, label) == pc' = [pc EXCEPT ![r] = label]

\* The handler writes an error and returns.
Reject(r, code) ==
  /\ Goto(r, "done")
  /\ req' = [req EXCEPT ![r].reply = [kind |-> code]]

-----------------------------------------------------------------------------
(* The API key and the response cache *)

\* authorizeAdditionalModels: the key may use every model, not just the first.
Permitted(a) == ToSet(Aliases(a.body)) \subseteq Allowed[a.key]

\* What a request may be refused with: an administrator may disable a key at any time.
Refusals(a) ==
  IF ~Acceptable(a.body) THEN {"invalid"}
  ELSE IF Permitted(a) THEN {"unauthorized"} ELSE {"unauthorized", "forbidden"}

Authenticate(r, a) ==
  /\ pc[r] = "new"
  /\ \/ /\ Acceptable(a.body) /\ Permitted(a)
        /\ Goto(r, "clear")
        /\ req' = [req EXCEPT ![r] = [@ EXCEPT !.ask = a, !.form = Parsed(a.body)]]
     \/ \E code \in Refusals(a) :
          /\ Goto(r, "done")
          /\ req' = [req EXCEPT ![r] = [@ EXCEPT !.ask = a, !.reply = [kind |-> code]]]
  /\ UNCHANGED <<world, cache, here, books>>

\* Streams are never cached.
Clears(a) == a.clear /\ ~a.body.stream
Uses(a) == a.use /\ ~a.body.stream

ClearCache(r) ==
  /\ pc[r] = "clear"
  /\ cache' = IF Clears(req[r].ask) THEN [cache EXCEPT ![Slot(r)] = None] ELSE cache
  /\ Goto(r, IF Uses(req[r].ask) THEN "load" ELSE "resolve")
  /\ UNCHANGED <<world, here, req, books>>

\* An entry is still good at the very instant its TTL ends.
LoadCache(r) ==
  LET e == cache[Slot(r)]
  IN  /\ pc[r] = "load"
      /\ \/ e = None /\ Goto(r, "resolve") /\ UNCHANGED req
         \/ e # None /\ e.at + e.ttl < now /\ Goto(r, "drop") /\ UNCHANGED req
         \/ /\ e # None /\ e.at + e.ttl >= now
            /\ Goto(r, "hit")
            /\ req' = [req EXCEPT ![r].entry = e]
      /\ UNCHANGED <<world, cache, here, books>>

\* The lock was released in between: this may delete a newer entry.
DropExpired(r) ==
  /\ pc[r] = "drop"
  /\ cache' = [cache EXCEPT ![Slot(r)] = None]
  /\ Goto(r, "resolve")
  /\ UNCHANGED <<world, here, req, books>>

\* The cached answer is sent, and recorded as usage that cost nothing.
Hit(r) ==
  /\ pc[r] = "hit"
  /\ Goto(r, "done")
  /\ req' = [req EXCEPT ![r].reply = [kind |-> "cached", entry |-> req[r].entry]]
  /\ \/ ledger' = [ledger EXCEPT ![r] = {[model |-> req[r].entry.model, cost |-> 0, estimated |-> FALSE]}]
     \/ "insertError" \in Faults /\ UNCHANGED ledger
  /\ UNCHANGED <<world, cache, here, quota>>

-----------------------------------------------------------------------------
(* Candidates and quota *)

Protocol(endpoint) == IF endpoint \in {"messages", "count_tokens"} THEN "anthropic" ELSE "openai"

\* Both the route and its provider must allow the protocol.
Speaks(route, protocol) == protocol \in AllowedProtocols(route) \cap route.served

\* resolveRoute: a model whose provider is disabled is not there.
Reachable(m) == m \notin disabled

\* resolveCandidate: a model with its route, provider, proxy profile and price.
Candidate(m, i) ==
  [model |-> m, index |-> i, provider |-> catalog[m].provider, served |-> catalog[m].served,
   prompt |-> catalog[m].prompt, completion |-> catalog[m].completion, priority |-> catalog[m].priority,
   weight |-> catalog[m].weight, protocols |-> catalog[m].protocols]

\* One alias is looked up.  Only the requested model must be there and speak the
\* protocol; fallback models may be missing.
Resolve(r) ==
  LET models == req[r].form.models
      i      == req[r].next
      m      == models[i]
      found  == IF Reachable(m) /\ Speaks(catalog[m], Protocol(req[r].ask.body.endpoint))
                THEN Append(req[r].found, Candidate(m, i))
                ELSE req[r].found
      chain  == Select(found, req[r].form.prefs)
  IN  /\ pc[r] = "resolve"
      /\ \/ found = <<>> /\ Reject(r, IF Reachable(m) THEN "mismatch" ELSE "notFound")
         \/ /\ found # <<>> /\ i < Len(models)
            /\ req' = [req EXCEPT ![r] = [@ EXCEPT !.next = i + 1, !.found = found]]
            /\ UNCHANGED pc
         \/ /\ found # <<>> /\ i = Len(models) /\ chain = <<>>
            /\ Reject(r, "noRoutes")
         \/ /\ found # <<>> /\ i = Len(models) /\ chain # <<>>
            /\ Goto(r, "reserve")
            /\ req' = [req EXCEPT ![r] = [@ EXCEPT !.next = 1, !.found = found, !.chain = chain]]
      /\ UNCHANGED <<world, cache, here, books>>

\* Endpoints that only count tokens are free.
CostAt(r, c, tokens) ==
  IF req[r].ask.body.endpoint = "count_tokens" THEN 0 ELSE tokens * Price(c)

Reserve(r) ==
  /\ pc[r] = "reserve"
  /\ \/ /\ r \in here
        /\ quota' = [quota EXCEPT ![r] = "open"]
        /\ Goto(r, "attempt")
        /\ UNCHANGED req
     \/ Reject(r, "quotaExceeded") /\ UNCHANGED quota
  /\ UNCHANGED <<world, cache, here, ledger>>

-----------------------------------------------------------------------------
(* Attempts *)

Current(r) == req[r].chain[req[r].next]

\* The attempt failed: try the next candidate, or give up with no answer.
NoAnswer(r) ==
  /\ pc[r] \in {"attempt", "upstream", "chat"}
  /\ LET last == req[r].next = Len(req[r].chain)
         next == IF last THEN req[r].next ELSE req[r].next + 1
     IN  /\ Goto(r, IF last THEN "settle" ELSE "attempt")
         /\ req' = [req EXCEPT ![r] = [@ EXCEPT !.next = next, !.tried = req[r].tried + 1]]
  /\ UNCHANGED <<world, cache, here, books>>

\* The handler returns at once when the upstream URL cannot be built.
BuildFails(r) ==
  /\ pc[r] = "attempt"
  /\ Current(r).model \in Unbuilt
  /\ Reject(r, "buildFailed")
  /\ UNCHANGED <<world, cache, here, books>>

Send(r) ==
  /\ pc[r] = "attempt"
  /\ Current(r).model \notin Unbuilt
  /\ Goto(r, "upstream")
  /\ UNCHANGED <<world, cache, here, req, books>>

\* A status that may be retried moves on to the next candidate, if there is one.
Judge(r, s) ==
  LET retry == s = "retryable" /\ req[r].next < Len(req[r].chain)
  IN  /\ Goto(r, IF retry THEN "attempt" ELSE "copy")
      /\ req' = [req EXCEPT ![r] =
                   [@ EXCEPT !.next = IF retry THEN req[r].next + 1 ELSE req[r].next,
                             !.answer = IF retry THEN None ELSE s,
                             !.tried = req[r].tried + 1]]

\* An upstream without /v1/responses is asked again as a chat completion.
Answer(r, s) ==
  /\ pc[r] = "upstream" /\ r \in here
  /\ IF req[r].ask.body.endpoint = "responses" /\ s = "missing"
     THEN Goto(r, "chat") /\ UNCHANGED req
     ELSE Judge(r, s)
  /\ UNCHANGED <<world, cache, here, books>>

\* Mutant: a chat endpoint that is missing sends the request back to the other.
ChatAnswerAgain(r, s) ==
  /\ pc[r] = "chat" /\ r \in here
  /\ IF s = "missing" THEN Goto(r, "upstream") /\ UNCHANGED req ELSE Judge(r, s)
  /\ UNCHANGED <<world, cache, here, books>>

ChatAnswer(r, s) ==
  /\ pc[r] = "chat" /\ r \in here
  /\ Judge(r, s)
  /\ UNCHANGED <<world, cache, here, books>>

-----------------------------------------------------------------------------
(* The answer *)

Upstream(r) == [kind |-> "upstream", model |-> Current(r).model, status |-> req[r].answer]

\* The status and the first bytes of a stream reach the client.
StartStream(r) ==
  /\ pc[r] = "copy" /\ req[r].ask.body.stream
  /\ Goto(r, "streaming")
  /\ req' = [req EXCEPT ![r].reply = Upstream(r)]
  /\ UNCHANGED <<world, cache, here, books>>

\* The usage that an answer may have reported by its end: a success some, or none; a
\* stream may have reported it although it breaks off, and not have although it does not.
Reported(r) == IF req[r].answer = "ok" THEN {0, 1} ELSE {0}

\* Mutant: a stream that breaks is tried again on the next candidate.
EndStreamRetry(r) ==
  /\ pc[r] = "streaming"
  /\ \/ /\ Goto(r, "settle")
        /\ \E n \in Reported(r) : req' = [req EXCEPT ![r].spent = n]
     \/ /\ r \notin here \/ "interrupt" \in Faults
        /\ IF req[r].next < Len(req[r].chain)
           THEN /\ Goto(r, "attempt")
                /\ req' = [req EXCEPT ![r].next = @ + 1]
           ELSE Goto(r, "settle") /\ UNCHANGED req
  /\ UNCHANGED <<world, cache, here, books>>

\* Whole, or broken off on either side: what the events have reported until then is
\* merged and kept, and the error is only logged.
EndStream(r) ==
  /\ pc[r] = "streaming"
  /\ Goto(r, "settle")
  /\ \E n \in Reported(r) : req' = [req EXCEPT ![r].spent = n]
  /\ UNCHANGED <<world, cache, here, books>>

\* A whole answer is read and written; only a successful one that was written
\* may be cached.
CopyAnswer(r) ==
  /\ pc[r] = "copy" /\ ~req[r].ask.body.stream
  /\ \E written \in BOOLEAN, n \in Reported(r) :
       /\ written \/ r \notin here
       /\ Goto(r, IF written /\ Uses(req[r].ask) /\ req[r].answer = "ok" THEN "store" ELSE "settle")
       /\ req' = [req EXCEPT ![r] =
                    [@ EXCEPT !.spent = n,
                              !.reply = IF written THEN Upstream(r) ELSE None]]
  /\ UNCHANGED <<world, cache, here, books>>

\* Reading the answer fails: nothing has been written, and nothing will be.
ReadFails(r) ==
  /\ pc[r] = "copy"
  /\ r \notin here \/ "interrupt" \in Faults
  /\ Goto(r, "settle")
  /\ UNCHANGED <<world, cache, here, req, books>>

\* Mutant: the key of the entry leaves out the API key.
StoreShared(r) ==
  LET e == [key |-> req[r].ask.key, body |-> req[r].ask.body, model |-> Current(r).model,
            status |-> req[r].answer, at |-> now, ttl |-> req[r].ask.ttl]
  IN  /\ pc[r] = "store"
      /\ cache' = [s \in Slots |-> IF s[2] = req[r].ask.body THEN e ELSE cache[s]]
      /\ Goto(r, "settle")
      /\ UNCHANGED <<world, here, req, books>>

StoreCache(r) ==
  /\ pc[r] = "store"
  /\ cache' = [cache EXCEPT ![Slot(r)] =
       [key |-> req[r].ask.key, body |-> req[r].ask.body, model |-> Current(r).model,
        status |-> req[r].answer, at |-> now, ttl |-> req[r].ask.ttl]]
  /\ Goto(r, "settle")
  /\ UNCHANGED <<world, here, req, books>>

-----------------------------------------------------------------------------
(* Settlement and usage *)

\* Mutant: settled in the client's context, which is canceled when it leaves.
SettleWhileHere(r) ==
  /\ pc[r] = "settle"
  /\ quota' = IF r \in here THEN [quota EXCEPT ![r] = "closed"] ELSE quota
  /\ Goto(r, "record")
  /\ UNCHANGED <<world, cache, here, req, ledger>>

\* Mutant: usage is recorded before the reservation is settled.
SettleLater(r) ==
  /\ pc[r] = "settle"
  /\ Goto(r, "record")
  /\ UNCHANGED <<world, cache, here, req, books>>

\* An error is logged and forgotten.  The client's leaving does not matter.
Settle(r) ==
  /\ pc[r] = "settle"
  /\ \/ quota' = [quota EXCEPT ![r] = "closed"]
     \/ "settleError" \in Faults /\ UNCHANGED quota
  /\ Goto(r, "record")
  /\ UNCHANGED <<world, cache, here, req, ledger>>

\* What the client has when the handler returns: the error if no upstream
\* answered, else what was written; the server fills in an empty success.
FinalReply(r) ==
  IF req[r].answer = None THEN [kind |-> "upstreamError"]
  ELSE IF req[r].reply = None THEN [kind |-> "empty"]
  ELSE req[r].reply

\* A success without any usage is marked as an estimate; none is made.
Estimated(r) == req[r].answer = "ok" /\ req[r].spent = 0

\* Mutant: the price is that of the catalogue at the end of the request.
RecordAtPresentPrice(r) ==
  /\ pc[r] = "record"
  /\ ledger' = [ledger EXCEPT ![r] =
       {[model |-> Current(r).model,
         cost |-> CostAt(r, catalog[Current(r).model], req[r].spent), estimated |-> Estimated(r)]}]
  /\ Goto(r, "done")
  /\ req' = [req EXCEPT ![r].reply = FinalReply(r)]
  /\ UNCHANGED <<world, cache, here, quota>>

\* Usage is priced with the candidate as it was resolved.
Record(r) ==
  /\ pc[r] = "record"
  /\ \/ ledger' = [ledger EXCEPT ![r] =
          {[model |-> Current(r).model, cost |-> CostAt(r, Current(r), req[r].spent),
            estimated |-> Estimated(r)]}]
     \/ "insertError" \in Faults /\ UNCHANGED ledger
  /\ Goto(r, "done")
  /\ req' = [req EXCEPT ![r].reply = FinalReply(r)]
  /\ UNCHANGED <<world, cache, here, quota>>

-----------------------------------------------------------------------------
(* The rest of the world *)

Leave(r) ==
  /\ "leave" \in Faults
  /\ pc[r] \notin {"new", "done"}
  /\ here' = here \ {r}
  /\ UNCHANGED <<world, cache, pc, req, books>>

\* An administrator changes routes and prices, or disables a provider.
Edit(c) ==
  /\ catalog' = c
  /\ UNCHANGED <<now, disabled, cache, here, pc, req, books>>

Disable(m) ==
  /\ "disable" \in Faults
  /\ disabled' = disabled \cup {m}
  /\ UNCHANGED <<now, catalog, cache, here, pc, req, books>>

Tick ==
  /\ now < MaxTime
  /\ now' = now + 1
  /\ UNCHANGED <<catalog, disabled, cache, here, pc, req, books>>

Handle(r) ==
  \/ ClearCache(r) \/ LoadCache(r) \/ DropExpired(r) \/ Hit(r)
  \/ Resolve(r) \/ Reserve(r)
  \/ NoAnswer(r) \/ BuildFails(r) \/ Send(r)
  \/ \E s \in Answers : Answer(r, s) \/ ChatAnswer(r, s)
  \/ StartStream(r) \/ EndStream(r) \/ CopyAnswer(r) \/ ReadFails(r) \/ StoreCache(r)
  \/ Settle(r) \/ Record(r)

Next ==
  \/ \E r \in Requests : (\E a \in Asks : Authenticate(r, a)) \/ Handle(r) \/ Leave(r)
  \/ \E c \in Catalogs : Edit(c)
  \/ \E m \in Models : Disable(m)
  \/ Tick

Spec == Init /\ [][Next]_vars

\* Store calls return, and upstream calls and streams end: every client has a
\* timeout, and every stream an idle timeout and a last event.
FairSpec == Spec /\ \A r \in Requests : WF_vars(Handle(r))

-----------------------------------------------------------------------------
(* Properties *)

PC == {"new", "clear", "load", "drop", "hit", "resolve", "reserve", "attempt", "upstream",
       "chat", "copy", "streaming", "store", "settle", "record", "done"}

\* The candidates that are tried are those the client's preferences allow, in
\* the order it asked for, whatever was edited while they were resolved.
ChainHonoursPreferences ==
  \A r \in Requests : req[r].chain # <<>> =>
    Honours(req[r].chain, req[r].found, Preferences(req[r].ask.body))

\* A request ends with a bad gateway error only after every candidate was tried.
GivesUpLast ==
  \A r \in Requests :
    req[r].reply = [kind |-> "upstreamError"] => req[r].tried = Len(req[r].chain)

\* Once a byte has been sent to the client no other upstream is tried.
NoFailoverAfterReply ==
  [][\A r \in Requests : req[r].reply # None => req'[r].tried = req[r].tried]_vars

Accounted(r) == quota[r] = "closed" /\ ledger[r] # {}

\* A request that held quota has given it back and is in the ledger when its
\* handler returns, wherever its client left, unless an upstream URL could not
\* be built.
EveryEndAccounted ==
  \A r \in Requests :
    pc[r] = "done" /\ quota[r] # "none" /\ req[r].reply # [kind |-> "buildFailed"]
      => Accounted(r)

\* Every admitted request ends in the ledger.  The code does not have this
\* property: a candidate whose URL cannot be built ends the handler at once.
AlwaysRecorded ==
  \A r \in Requests : pc[r] = "done" /\ quota[r] # "none" => Accounted(r)

\* Who is recorded is who answered, at the price that was in force when the request was
\* resolved; an answer is free only if it was an error, or came without usage and is
\* marked for it.
BilledAsServed ==
  \A r \in Requests :
    ledger[r] # {} /\ req[r].reply.kind = "upstream" =>
      \A e \in ledger[r] :
        /\ e.model = req[r].reply.model
        /\ \/ \E c \in ToSet(req[r].found) : c.model = req[r].reply.model /\ e.cost = CostAt(r, c, 1)
           \/ e.cost = 0 /\ (e.estimated \/ req[r].reply.status # "ok")

\* A cached answer is a success that was given to the same API key for the same
\* request, and it is not a stream.
CacheServesOwn ==
  \A r \in Requests : req[r].entry # None =>
    /\ req[r].entry.key = req[r].ask.key /\ req[r].entry.body = req[r].ask.body
    /\ req[r].entry.status = "ok"
    /\ ~req[r].ask.body.stream

\* In the books a request is admitted, settled and recorded in this order, and
\* one that was never admitted costs nothing.
Books == INSTANCE Accounting WITH
  bills <- [r \in Requests |-> {e.cost : e \in ledger[r]}]
BooksSpec == Books!Spec

\* Every request is answered, and its handler returns.
Returns == \A r \in Requests : pc[r] = "clear" ~> pc[r] = "done"
=============================================================================
