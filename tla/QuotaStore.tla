------------------------------ MODULE QuotaStore ------------------------------
(***************************************************************************)
(* The quota transactions of the gateway's PostgreSQL store, statement by  *)
(* statement, for requests that run concurrently.  A request reserves      *)
(* quota in a transaction that takes the API key's advisory lock, is       *)
(* served by an upstream, settles its reservation in a second transaction  *)
(* under the same lock, and then appends its usage to the ledger in a      *)
(* statement of its own that takes no lock.                                *)
(*                                                                         *)
(* Transactions run at READ COMMITTED: a statement sees what had committed *)
(* when it started.  The rows a transaction writes are written at its      *)
(* commit; nobody else can touch them in between, since the lock is held.  *)
(***************************************************************************)
EXTENDS QuotaTables

CONSTANTS
  Requests,  \* handler goroutines, one per HTTP request
  Calls,     \* what a client may ask for: [key, id, tokens, cost] (estimates)
  FreshId,   \* no x-request-id header: the gateway generates an id
  Outcomes,  \* what an upstream may answer: [tokens, cost, failed]
  Faults,    \* failures that may happen in this instance
  NoRequest  \* holder of a lock that is free

ASSUME QuotaStoreAssumption ==
  /\ Requests \subseteq IDs
  /\ Calls \subseteq [key : Keys, id : IDs \cup {FreshId}, tokens : Amounts, cost : Amounts]
  /\ Outcomes \subseteq [tokens : Amounts, cost : Amounts, failed : BOOLEAN]
  /\ Faults \subseteq {"abort", "ambiguous", "abandon", "settleError", "insertError", "crash"}
  /\ NoRequest \notin Requests

VARIABLES
  policy,  \* the limits stored with each API key
  pc,      \* where each request is
  call,    \* its key, id, estimates, the limits it was authenticated with, and its Now
  outcome, \* its usage record
  lock,    \* pg_advisory_xact_lock(hashtext(key)): the request that holds it
  blind    \* keys whose budget check has missed money already spent or committed (history)

tables == <<reservations, windows, ledger>>
vars == <<now, tables, policy, pc, call, outcome, lock, blind>>

ReserveSteps == {"countActive", "countWindow", "checkDaily", "checkMonthly", "commit"}
Locked == ReserveSteps \cup {"settle"}
Ended == {"done", "lost", "refused", "failed", "dead"}
PC == {"idle", "lockReserve", "serving", "lockSettle", "insertUsage"} \cup Locked \cup Ended

CallRecord ==
  [key : Keys, id : IDs, tokens : Amounts, cost : Amounts, at : Time, policy : Policies]

NoCall(r) ==
  [key |-> Absent, id |-> r, tokens |-> 0, cost |-> 0, at |-> 0,
   policy |-> [rpm |-> 0, tpm |-> 0, concurrent |-> 0, daily |-> 0, monthly |-> 0]]

Outcome == [tokens : Amounts, cost : Amounts, failed : BOOLEAN, at : Time]

NoOutcome == [tokens |-> 0, cost |-> 0, failed |-> FALSE, at |-> 0]

Init ==
  /\ TablesInit
  /\ policy \in [Keys -> Policies]
  /\ pc = [r \in Requests |-> "idle"]
  /\ call = [r \in Requests |-> NoCall(r)]
  /\ outcome = [r \in Requests |-> NoOutcome]
  /\ lock = [k \in Keys |-> NoRequest]
  /\ blind = {}

Goto(r, label) == pc' = [pc EXCEPT ![r] = label]
Unlock(r) == lock' = [lock EXCEPT ![call[r].key] = NoRequest]

\* Mutant: the transaction is left open.
RollbackForgotten(r, label) ==
  /\ Goto(r, label)
  /\ UNCHANGED <<now, tables, policy, call, outcome, lock, blind>>

\* The transaction ends without effect: the deferred Rollback.
Rollback(r, label) ==
  /\ Goto(r, label)
  /\ Unlock(r)
  /\ UNCHANGED <<now, tables, policy, call, outcome, blind>>

\* The next statement of the same transaction.
Continue(r, label) ==
  /\ Goto(r, label)
  /\ UNCHANGED <<now, tables, policy, call, outcome, lock, blind>>

-----------------------------------------------------------------------------
(* ReserveQuota *)

\* The gateway has authenticated the request, which fixes its limits, and
\* calls ReserveQuota, which fixes Now and opens the transaction.
Call(r, c) ==
  /\ pc[r] = "idle"
  /\ Goto(r, "lockReserve")
  /\ call' = [call EXCEPT ![r] =
       [key |-> c.key, id |-> IF c.id = FreshId THEN r ELSE c.id, tokens |-> c.tokens,
        cost |-> c.cost, at |-> now, policy |-> policy[c.key]]]
  /\ UNCHANGED <<now, tables, policy, outcome, lock, blind>>

\* Mutant: no advisory lock.
TakeNoLock(r, label) ==
  /\ Goto(r, label)
  /\ UNCHANGED <<now, tables, policy, call, outcome, lock, blind>>

TakeLock(r, label) ==
  /\ lock[call[r].key] = NoRequest
  /\ lock' = [lock EXCEPT ![call[r].key] = r]
  /\ Goto(r, label)
  /\ UNCHANGED <<now, tables, policy, call, outcome, blind>>

LockReserve(r) == pc[r] = "lockReserve" /\ TakeLock(r, "countActive")

CountActive(r) ==
  /\ pc[r] = "countActive"
  /\ IF OverConcurrent(call[r].key, call[r].at, call[r].policy)
     THEN Rollback(r, "refused")
     ELSE Continue(r, "countWindow")

CountWindow(r) ==
  /\ pc[r] = "countWindow"
  /\ IF OverWindow(call[r].key, call[r].at, call[r].policy, call[r].tokens)
     THEN Rollback(r, "refused")
     ELSE Continue(r, "checkDaily")

\* Requests of key k whose cost counts, or will count, after an instant, but
\* is in no row the budget query looks at: settled and not yet in the ledger,
\* never to be in the ledger, or reserved before that instant.
Unseen(k, since) ==
  {r \in Requests :
     /\ call[r].key = k
     /\ pc[r] = "serving" \/ outcome[r].cost > 0
     /\ ledger[call[r].id].key = Absent
     /\ reservations[call[r].id].status # "reserved" \/ call[r].at < since}

Budget(r, since, budget, next) ==
  /\ IF OverBudget(call[r].key, since, budget, call[r].cost)
     THEN Goto(r, "refused") /\ Unlock(r)
     ELSE Goto(r, next) /\ UNCHANGED lock
  /\ blind' = IF Unseen(call[r].key, since) = {} THEN blind ELSE blind \cup {call[r].key}
  /\ UNCHANGED <<now, tables, policy, call, outcome>>

CheckDaily(r) ==
  /\ pc[r] = "checkDaily"
  /\ Budget(r, StartOfDay(call[r].at), call[r].policy.daily, "checkMonthly")

CheckMonthly(r) ==
  /\ pc[r] = "checkMonthly"
  /\ Budget(r, StartOfMonth(call[r].at), call[r].policy.monthly, "commit")

\* The row and the window counter become visible.  The error of a commit whose
\* answer was lost ("ambiguous") leaves them in place.
Commit(r) ==
  /\ pc[r] = "commit"
  /\ WriteAdmission(call[r].id, call[r].key, call[r].at, call[r].policy,
                    call[r].tokens, call[r].cost)
  /\ Unlock(r)
  /\ \/ Goto(r, "serving")
     \/ "ambiguous" \in Faults /\ Goto(r, "failed")
  /\ UNCHANGED <<now, ledger, policy, call, outcome, blind>>

\* The INSERT violates the primary key: this request id was used before.
DuplicateId(r) ==
  /\ pc[r] = "commit"
  /\ reservations[call[r].id].status # Absent
  /\ Rollback(r, "failed")

\* The client goes away, which cancels the transaction, or a statement fails.
Abort(r) ==
  /\ "abort" \in Faults
  /\ \/ pc[r] = "lockReserve" /\ Continue(r, "failed")
     \/ pc[r] \in ReserveSteps /\ Rollback(r, "failed")

-----------------------------------------------------------------------------
(* SettleQuota and InsertUsage *)

\* The upstream call is over; the usage record and its CreatedAt are made.
Finish(r, o) ==
  /\ pc[r] = "serving"
  /\ Goto(r, "lockSettle")
  /\ outcome' = [outcome EXCEPT ![r] =
       [tokens |-> o.tokens, cost |-> o.cost, failed |-> o.failed, at |-> now]]
  /\ UNCHANGED <<now, tables, policy, call, lock, blind>>

\* The handler returns early, without a word to the quota store.
Abandon(r) ==
  /\ "abandon" \in Faults
  /\ pc[r] = "serving"
  /\ Continue(r, "failed")

LockSettle(r) == pc[r] = "lockSettle" /\ TakeLock(r, "settle")

\* Mutant: the handler stops after a settlement of a failed request.
SettleFailedUnbilled(r) ==
  /\ pc[r] = "settle"
  /\ WriteSettlement(call[r].id, outcome[r].tokens, outcome[r].failed)
  /\ Goto(r, IF outcome[r].failed THEN "lost" ELSE "insertUsage")
  /\ Unlock(r)
  /\ UNCHANGED <<now, ledger, policy, call, outcome, blind>>

SettleCommit(r) ==
  /\ pc[r] = "settle"
  /\ IF reservations[call[r].id].status = "reserved"
     THEN WriteSettlement(call[r].id, outcome[r].tokens, outcome[r].failed)
     ELSE UNCHANGED <<reservations, windows>>
  /\ Goto(r, "insertUsage")
  /\ Unlock(r)
  /\ UNCHANGED <<now, ledger, policy, call, outcome, blind>>

\* An error is logged and the request goes on to InsertUsage.
SettleError(r) ==
  /\ "settleError" \in Faults
  /\ \/ pc[r] = "lockSettle" /\ Continue(r, "insertUsage")
     \/ pc[r] = "settle" /\ Rollback(r, "insertUsage")

InsertUsage(r) ==
  LET i == call[r].id
  IN  /\ pc[r] = "insertUsage"
      /\ IF ledger[i].key = Absent
         THEN /\ ledger' = [ledger EXCEPT ![i] =
                   [key |-> call[r].key, at |-> outcome[r].at, cost |-> outcome[r].cost]]
              /\ Goto(r, "done")
         ELSE UNCHANGED ledger /\ Goto(r, "lost")
      /\ UNCHANGED <<now, reservations, windows, policy, call, outcome, lock, blind>>

\* An error is logged and the usage is gone.
InsertError(r) ==
  /\ "insertError" \in Faults
  /\ pc[r] = "insertUsage"
  /\ Continue(r, "lost")

-----------------------------------------------------------------------------
(* The rest of the world *)

\* The gateway process dies: its transactions roll back, its requests are gone.
Crash ==
  /\ "crash" \in Faults
  /\ \E r \in Requests : pc[r] \notin Ended \cup {"idle"}
  /\ pc' = [r \in Requests |-> IF pc[r] \in Ended \cup {"idle"} THEN pc[r] ELSE "dead"]
  /\ lock' = [k \in Keys |-> NoRequest]
  /\ UNCHANGED <<now, tables, policy, call, outcome, blind>>

\* An administrator edits the key's limits.
SetPolicy(k, p) ==
  /\ policy[k] # p
  /\ policy' = [policy EXCEPT ![k] = p]
  /\ UNCHANGED <<now, tables, pc, call, outcome, lock, blind>>

Tick ==
  /\ now < MaxTime
  /\ now' = now + 1
  /\ UNCHANGED <<tables, policy, pc, call, outcome, lock, blind>>

ReserveNext(r) ==
  \/ LockReserve(r) \/ CountActive(r) \/ CountWindow(r) \/ CheckDaily(r)
  \/ CheckMonthly(r) \/ Commit(r) \/ DuplicateId(r)

SettleNext(r) == LockSettle(r) \/ SettleCommit(r) \/ InsertUsage(r)

Fault(r) == Abort(r) \/ Abandon(r) \/ SettleError(r) \/ InsertError(r)

Next ==
  \/ \E r \in Requests :
       \/ \E c \in Calls : Call(r, c)
       \/ ReserveNext(r)
       \/ \E o \in Outcomes : Finish(r, o)
       \/ SettleNext(r)
       \/ Fault(r)
  \/ Crash
  \/ \E k \in Keys, p \in Policies : SetPolicy(k, p)
  \/ Tick

Spec == Init /\ [][Next]_vars

\* Statements return, the advisory lock is granted in turn, and upstream calls
\* end (every HTTP client has a timeout).
Fairness ==
  \A r \in Requests :
    /\ WF_vars(ReserveNext(r) /\ pc[r] # "lockReserve")
    /\ WF_vars(SettleNext(r) /\ pc[r] # "lockSettle")
    /\ SF_vars(LockReserve(r))
    /\ SF_vars(LockSettle(r))
    /\ WF_vars(\E o \in Outcomes : Finish(r, o))

-----------------------------------------------------------------------------
(* Properties *)

TypeOK ==
  /\ TablesTypeOK
  /\ policy \in [Keys -> Policies]
  /\ pc \in [Requests -> PC]
  /\ call \in [Requests -> CallRecord \cup {NoCall(r) : r \in Requests}]
  /\ \A r \in Requests : pc[r] # "idle" => call[r] \in CallRecord
  /\ outcome \in [Requests -> Outcome]
  /\ lock \in [Keys -> Requests \cup {NoRequest}]
  /\ blind \subseteq Keys

\* Every request of key k was let in under a limit on f, and none above this one
\* (0 is no limit).
LimitedTo(k, f, limit) ==
  \A r \in Requests : pc[r] # "idle" /\ call[r].key = k => call[r].policy[f] \in 1 .. limit

\* No request was let in under more than key k has now.
NotLowered(k, f) == LimitedTo(k, f, policy[k][f])

\* An API key never has more requests in flight than its concurrent limit
\* allows, whatever requests raced for the last slot, unless it was lowered.
ConcurrencyBound ==
  \A k \in Keys : policy[k].concurrent > 0 /\ NotLowered(k, "concurrent")
                   => Cardinality(Active(k, now)) <= policy[k].concurrent

\* The reservations made in the minute of key k that starts at t.
RowsOf(k, t) ==
  {i \in IDs : /\ reservations[i].status # Absent
               /\ reservations[i].key = k
               /\ WindowStart(reservations[i].at) = t}

\* What a reservation counts for: its estimate while open, its actual tokens after.
Charged ==
  [i \in IDs |-> IF reservations[i].status = "reserved"
                 THEN reservations[i].tokens
                 ELSE reservations[i].actual]

\* The counters of a key whose requests are all counted are exactly what its
\* reservations add up to: estimates while open, actual tokens once settled, and
\* nothing from a request that was refused or rolled back.
WindowsExact ==
  \A k \in Keys :
    (\A r \in Requests : pc[r] # "idle" /\ call[r].key = k => Counted(call[r].policy))
      => \A t \in Time :
           windows[k][t] = [requests |-> Cardinality(RowsOf(k, t)),
                            tokens   |-> SumFunctionOnSet(Charged, RowsOf(k, t))]

\* The requests of key k that have finished since an instant, and the
\* reservations made since then whose requests have not.
Finished(k, since) ==
  {r \in Requests : /\ call[r].key = k
                    /\ outcome[r] # NoOutcome
                    /\ outcome[r].at >= since}

Open(k, since) ==
  {i \in IDs : /\ reservations[i].status = "reserved"
               /\ reservations[i].key = k
               /\ reservations[i].at >= since
               /\ \A r \in Finished(k, since) : call[r].id # i}

\* What key k has really spent since an instant, or is committed to spend:
\* the cost of its finished requests and the estimates of the others.
Exposure(k, since) ==
  SumFunctionOnSet([r \in Requests |-> outcome[r].cost], Finished(k, since))
    + SumFunctionOnSet([i \in IDs |-> reservations[i].cost], Open(k, since))

WithinBudget(k, f, since) == policy[k][f] > 0 => Exposure(k, since) <= policy[k][f]

\* Concurrent requests never overdraw a budget together (given that none costs
\* more than its estimate).  The code does not have this property: between
\* SettleQuota and InsertUsage the cost of a request is in neither table.
NeverOverdrawn ==
  \A k \in Keys : /\ WithinBudget(k, "daily", StartOfDay(now))
                  /\ WithinBudget(k, "monthly", StartOfMonth(now))

\* No request has cost more than its estimate.
EstimatesHold == \A r \in Requests : outcome[r].cost <= call[r].cost

\* While estimates hold and budgets are not lowered, that gap, usage lost for
\* good, and requests in flight over midnight are the only ways to overdraw.
OnlyUnseenOverdraws ==
  EstimatesHold =>
    \A k \in Keys \ blind :
      /\ NotLowered(k, "daily") => WithinBudget(k, "daily", StartOfDay(now))
      /\ NotLowered(k, "monthly") => WithinBudget(k, "monthly", StartOfMonth(now))

\* A closed reservation never changes again: a request is settled at most once.
SettledOnce ==
  [][\A i \in IDs : reservations[i].status \in {"settled", "failed"}
                      => reservations'[i] = reservations[i]]_vars

\* The transactions are indivisible: together they are one admission or one
\* settlement of the abstract specification.
Atomic == INSTANCE Admission
AtomicSpec == Atomic!Spec

\* Every reservation attempt is answered, however many requests of the key are
\* in line for its lock.
Answered ==
  \A r \in Requests :
    pc[r] = "lockReserve" ~> pc[r] \notin ReserveSteps \cup {"lockReserve"}

\* The reservation of a request is settled, and its usage is in the ledger.
IsBilled(r) ==
  /\ reservations[call[r].id].status \in {"settled", "failed"}
  /\ ledger[call[r].id].key = call[r].key
=============================================================================
