-------------------------- MODULE QuotaStore_proofs --------------------------
(***************************************************************************)
(* What holds of the quota transactions for every number of requests, keys *)
(* and limits: their types, the concurrency limit, that each of them is    *)
(* one indivisible step of Admission, that counters are exact, and that    *)
(* budgets are kept where checks miss nothing.                             *)
(*                                                                         *)
(* The argument is the advisory lock.  A request inside a transaction      *)
(* holds its key's lock (LockHeld); only a holder writes rows of its key   *)
(* (RowOwned says a settlement writes a row of the settler's own key); so  *)
(* what a request has read about its key stays true until it commits       *)
(* (StillRoom).                                                            *)
(*                                                                         *)
(* Counters and budgets are sums over finite sets, which have a section of *)
(* lemmas; for budgets, Books and Affordable are added to the invariant.   *)
(***************************************************************************)
EXTENDS QuotaStore, FiniteSetTheorems, TLAPS

\* A request inside a transaction holds the lock of its key.
LockHeld == \A r \in Requests : pc[r] \in Locked => lock[call[r].key] = r

\* Past the concurrency check, and past the window check.
Budgeting == {"checkDaily", "checkMonthly", "commit"}
Counting == Budgeting \cup {"countWindow"}

\* The row of an admitted request is a row of its key.
RowOwned ==
  \A r \in Requests : pc[r] \in {"serving", "lockSettle", "settle"} =>
    /\ reservations[call[r].id].status # Absent
    /\ reservations[call[r].id].key = call[r].key

\* A check that a reserving request has passed would still pass.
StillRoom ==
  \A r \in Requests : \A c \in CallRecord : call[r] = c =>
    /\ c.at <= now
    /\ pc[r] \in Counting => ~OverConcurrent(c.key, c.at, c.policy)
    /\ pc[r] \in Budgeting => ~OverWindow(c.key, c.at, c.policy, c.tokens)

IInv == TypeOK /\ LockHeld /\ RowOwned /\ StillRoom

-----------------------------------------------------------------------------
\* What a truncated instant is cut by is not more than the instant.
LEMMA RemainderBound ==
  ASSUME NEW t \in Nat, NEW len \in Nat \ {0}
  PROVE  t % len \in 0 .. t
<1>1. t = len * (t \div len) + (t % len)
  OBVIOUS
<1>2. t \div len \in Int /\ t % len \in 0 .. (len - 1)
  OBVIOUS
<1>3. t \div len >= 0
  BY <1>1, <1>2, SMTT(30)
<1>4. ASSUME NEW q \in Nat PROVE len * q >= 0
  BY SMTT(30)
<1>5. len * (t \div len) >= 0
  BY <1>2, <1>3, <1>4
<1>. QED BY <1>1, <1>2, <1>5

\* The window of an instant starts at an instant.
LEMMA WindowStartTime == \A t \in Time : WindowStart(t) \in Time
BY RemainderBound, QuotaAssumption DEF WindowStart, Time

-----------------------------------------------------------------------------
(* Type correctness *)

\* The writes of ReserveQuota keep the tables' types.
LEMMA AdmissionTypes ==
  ASSUME TablesTypeOK,
         NEW i \in IDs, NEW k \in Keys, NEW t \in Time, NEW p \in Policies,
         NEW tokens \in Amounts, NEW cost \in Amounts,
         WriteAdmission(i, k, t, p, tokens, cost)
  PROVE  /\ reservations' \in [IDs -> Reservation]
         /\ windows' \in [Keys -> [Time -> Window]]
<1>1. WindowStart(t) \in Time
  BY WindowStartTime
<1>2. reservations' \in [IDs -> Reservation]
  BY QuotaAssumption DEF WriteAdmission, TablesTypeOK, Reservation
<1>3. windows' \in [Keys -> [Time -> Window]]
  BY <1>1, QuotaAssumption DEF WriteAdmission, TablesTypeOK, Window
<1>. QED BY <1>2, <1>3

\* The writes of SettleQuota keep the tables' types.
LEMMA SettlementTypes ==
  ASSUME TablesTypeOK,
         NEW i \in IDs, NEW actual \in Amounts, NEW failed \in BOOLEAN,
         reservations[i].key \in Keys,
         WriteSettlement(i, actual, failed)
  PROVE  /\ reservations' \in [IDs -> Reservation]
         /\ windows' \in [Keys -> [Time -> Window]]
<1>1. reservations[i] \in Reservation
  BY DEF TablesTypeOK
<1>2. WindowStart(reservations[i].at) \in Time
  BY <1>1, WindowStartTime DEF Reservation
<1>3. reservations' \in [IDs -> Reservation]
  BY <1>1 DEF WriteSettlement, TablesTypeOK, Reservation
<1>4. windows' \in [Keys -> [Time -> Window]]
  <2>. DEFINE row == reservations[i]
              t == WindowStart(row.at)
              n == windows[row.key][t].tokens + (actual - row.tokens)
              tokens == IF n < 0 THEN 0 ELSE n
  <2>1. t \in Time /\ row.key \in Keys /\ row.tokens \in Nat /\ actual \in Nat
    BY <1>1, <1>2, QuotaAssumption DEF Reservation
  <2>2. windows' = windows \/ windows' = [windows EXCEPT ![row.key][t].tokens = tokens]
    BY DEF WriteSettlement
  <2>. HIDE DEF row, t
  <2>3. windows[row.key][t].tokens \in Nat
    BY <2>1 DEF TablesTypeOK, Window
  <2>4. tokens \in Nat
    BY <2>1, <2>3
  <2>. HIDE DEF n, tokens
  <2>5. CASE windows' = [windows EXCEPT ![row.key][t].tokens = tokens]
    <3>1. windows[row.key][t] \in Window
      BY <2>1 DEF TablesTypeOK
    <3>. DEFINE cell == [windows[row.key][t] EXCEPT !.tokens = tokens]
    <3>2. cell \in Window
      BY <2>4, <3>1 DEF Window
    <3>3. windows' = [windows EXCEPT ![row.key] = [windows[row.key] EXCEPT ![t] = cell]]
      BY <2>5
    <3>. HIDE DEF cell
    <3>. QED BY <2>1, <3>2, <3>3 DEF TablesTypeOK
  <2>. QED BY <2>2, <2>5 DEF TablesTypeOK
<1>. QED BY <1>3, <1>4

\* The inductive invariant holds before any request.
LEMMA InitIInv == Init => IInv
<1>. SUFFICES ASSUME Init PROVE IInv
  OBVIOUS
<1>. USE QuotaAssumption, QuotaStoreAssumption
<1>1. TablesTypeOK
  BY DEF Init, TablesInit, TablesTypeOK, Reservation, NoReservation, Window, Entry, NoEntry, Time
<1>2. TypeOK
  <2>1. pc \in [Requests -> PC] BY DEF Init, PC
  <2>2. outcome \in [Requests -> Outcome] BY DEF Init, Outcome, NoOutcome, Time
  <2>. QED BY <1>1, <2>1, <2>2 DEF Init, TypeOK
<1>3. LockHeld /\ RowOwned
  BY DEF Init, LockHeld, RowOwned, Locked, ReserveSteps
<1>4. StillRoom
  BY DEF Init, TablesInit, StillRoom, NoCall, Counting, Budgeting
<1>. QED BY <1>2, <1>3, <1>4 DEF IInv

-----------------------------------------------------------------------------
(* One lemma per kind of step.  Most steps move one request and leave the   *)
(* tables, and so everything the invariant says of them, alone.             *)

\* A request goes to a label that asks nothing of it.
LEMMA SameRoom ==
  ASSUME UNCHANGED <<reservations, windows>>
  PROVE  \A c \in CallRecord :
           /\ OverConcurrent(c.key, c.at, c.policy)' <=> OverConcurrent(c.key, c.at, c.policy)
           /\ OverWindow(c.key, c.at, c.policy, c.tokens)'
                <=> OverWindow(c.key, c.at, c.policy, c.tokens)
<1>1. \A k, t : Active(k, t)' = Active(k, t)
  BY DEF Active
<1>2. \A k, t, p : OverConcurrent(k, t, p)' <=> OverConcurrent(k, t, p)
  BY <1>1 DEF OverConcurrent
<1>3. \A k, t, p, n : OverWindow(k, t, p, n)' <=> OverWindow(k, t, p, n)
  BY DEF OverWindow
<1>. QED BY <1>2, <1>3

\* A step that moves one request, takes or frees its key's lock, and leaves
\* reservations and windows alone.
LEMMA MoveStep ==
  ASSUME IInv, NEW r \in Requests, NEW label \in PC,
         pc[r] # "idle",
         Goto(r, label),
         label \in Locked => pc[r] \in Locked \/ lock'[call[r].key] = r,
         \/ lock' = lock
         \/ Unlock(r) /\ label \notin Locked /\ pc[r] \in Locked
         \/ lock[call[r].key] = NoRequest /\ lock' = [lock EXCEPT ![call[r].key] = r],
         label \in {"serving", "lockSettle", "settle"} =>
           pc[r] \in {"serving", "lockSettle", "settle"},
         label \in Counting =>
           ~OverConcurrent(call[r].key, call[r].at, call[r].policy),
         label \in Budgeting =>
           ~OverWindow(call[r].key, call[r].at, call[r].policy, call[r].tokens),
         outcome' \in [Requests -> Outcome],
         blind' \subseteq Keys,
         ledger' \in [IDs -> Entry],
         UNCHANGED <<now, reservations, windows, policy, call>>
  PROVE  IInv'
<1>. USE QuotaStoreAssumption DEF IInv
<1>1. call[r] \in CallRecord
  BY DEF TypeOK
<1>2. pc' = [pc EXCEPT ![r] = label] /\ pc \in [Requests -> PC]
  BY DEF Goto, TypeOK
<1>3. TypeOK'
  <2>1. lock' \in [Keys -> Requests \cup {NoRequest}]
    BY <1>1 DEF TypeOK, Unlock, CallRecord
  <2>2. \A q \in Requests : pc'[q] # "idle" => call'[q] \in CallRecord
    BY <1>1, <1>2 DEF TypeOK
  <2>. QED BY <1>2, <2>1, <2>2 DEF TypeOK, TablesTypeOK
<1>4. LockHeld'
  <2>. SUFFICES ASSUME NEW q \in Requests, pc'[q] \in Locked
                PROVE  lock'[call[q].key] = q
    BY DEF LockHeld
  <2>1. call[q] \in CallRecord /\ lock \in [Keys -> Requests \cup {NoRequest}]
    BY <1>1, <1>2 DEF TypeOK, Locked, ReserveSteps
  <2>2. CASE q = r
    BY <1>1, <1>2, <2>1, <2>2 DEF LockHeld, Unlock, CallRecord
  <2>3. CASE q # r
    BY <1>1, <1>2, <2>1, <2>3 DEF LockHeld, Unlock, CallRecord
  <2>. QED BY <2>2, <2>3
<1>5. RowOwned'
  BY <1>2 DEF RowOwned
<1>6. StillRoom'
  BY <1>2, SameRoom DEF StillRoom
<1>. QED BY <1>3, <1>4, <1>5, <1>6

\* The steps that move one request and leave reservations and windows alone.
LEMMA QuietSteps ==
  ASSUME IInv, NEW r \in Requests,
         \/ LockReserve(r) \/ CountActive(r) \/ CountWindow(r) \/ CheckDaily(r)
         \/ CheckMonthly(r) \/ DuplicateId(r) \/ \E o \in Outcomes : Finish(r, o)
         \/ LockSettle(r) \/ InsertUsage(r) \/ Fault(r)
  PROVE  IInv'
<1>. USE QuotaAssumption, QuotaStoreAssumption
         DEF PC, Locked, ReserveSteps, Ended, Counting, Budgeting
<1>1. /\ TypeOK
      /\ pc[r] # "idle" => call[r] \in CallRecord
      /\ call[r] \in CallRecord =>
           /\ pc[r] \in Counting => ~OverConcurrent(call[r].key, call[r].at, call[r].policy)
           /\ pc[r] \in Budgeting =>
                ~OverWindow(call[r].key, call[r].at, call[r].policy, call[r].tokens)
      /\ lock \in [Keys -> Requests \cup {NoRequest}]
  BY DEF IInv, TypeOK, StillRoom
<1>2. outcome \in [Requests -> Outcome] /\ blind \subseteq Keys /\ ledger \in [IDs -> Entry]
  BY <1>1 DEF TypeOK, TablesTypeOK
<1>3. CASE LockReserve(r) \/ LockSettle(r)
  <2>1. lock'[call[r].key] = r
    BY <1>1, <1>3 DEF LockReserve, LockSettle, TakeLock, CallRecord
  <2>. QED BY <1>1, <1>2, <1>3, <2>1, MoveStep
           DEF LockReserve, LockSettle, TakeLock, tables
<1>4. CASE CountActive(r) \/ CountWindow(r)
  BY <1>1, <1>2, <1>4, MoveStep DEF CountActive, CountWindow, Rollback, Continue, tables
<1>5. CASE CheckDaily(r) \/ CheckMonthly(r)
  <2>1. blind' \subseteq Keys
    BY <1>1, <1>2, <1>5 DEF CheckDaily, CheckMonthly, Budget, CallRecord
  <2>. QED BY <1>1, <1>2, <1>5, <2>1, MoveStep DEF CheckDaily, CheckMonthly, Budget, tables
<1>6. CASE DuplicateId(r)
  BY <1>1, <1>2, <1>6, MoveStep DEF DuplicateId, Rollback, tables
<1>7. ASSUME NEW o \in Outcomes, Finish(r, o) PROVE IInv'
  <2>1. now \in Time
    BY <1>1 DEF TypeOK, TablesTypeOK
  <2>2. outcome' \in [Requests -> Outcome]
    BY <1>2, <1>7, <2>1 DEF Finish, Outcome
  <2>. QED BY <1>1, <1>2, <1>7, <2>2, MoveStep DEF Finish, tables
<1>8. CASE InsertUsage(r)
  <2>1. ledger' \in [IDs -> Entry]
    BY <1>1, <1>2, <1>8 DEF InsertUsage, Entry, CallRecord, Outcome
  <2>. QED BY <1>1, <1>2, <1>8, <2>1, MoveStep DEF InsertUsage
<1>9. CASE Fault(r)
  BY <1>1, <1>2, <1>9, MoveStep
     DEF Fault, Abort, Abandon, SettleError, InsertError, Rollback, Continue, tables
<1>. QED BY <1>3, <1>4, <1>5, <1>6, <1>7, <1>8, <1>9

\* A request that starts asks nothing of the tables yet.
LEMMA CallStep ==
  ASSUME IInv, NEW r \in Requests, NEW c \in Calls, Call(r, c)
  PROVE  IInv'
<1>. USE QuotaAssumption, QuotaStoreAssumption DEF IInv
<1>1. /\ pc' = [pc EXCEPT ![r] = "lockReserve"]
      /\ UNCHANGED <<now, reservations, windows, ledger, policy, outcome, lock, blind>>
      /\ pc \in [Requests -> PC] /\ now \in Time /\ policy \in [Keys -> Policies]
  BY DEF Call, Goto, tables, TypeOK, TablesTypeOK
<1>2. PICK d \in CallRecord : call' = [call EXCEPT ![r] = d] /\ d.at = now
  <2>. DEFINE d == [key |-> c.key, id |-> IF c.id = FreshId THEN r ELSE c.id,
                    tokens |-> c.tokens, cost |-> c.cost, at |-> now, policy |-> policy[c.key]]
  <2>1. d \in CallRecord /\ d.at = now
    BY <1>1 DEF CallRecord
  <2>2. call' = [call EXCEPT ![r] = d]
    BY DEF Call
  <2>. QED BY <2>1, <2>2
<1>3. TypeOK'
  BY <1>1, <1>2 DEF TypeOK, TablesTypeOK, PC
<1>4. LockHeld' /\ RowOwned'
  BY <1>1, <1>2 DEF LockHeld, RowOwned, Locked, ReserveSteps, TypeOK
<1>5. StillRoom'
  BY <1>1, <1>2, SameRoom DEF StillRoom, TypeOK, Counting, Budgeting, Time
<1>. QED BY <1>3, <1>4, <1>5

\* Writing rows of one key leaves the room of the other keys alone.
LEMMA OtherKeysRoom ==
  ASSUME TablesTypeOK, NEW k \in Keys,
         reservations' \in [IDs -> Reservation],
         \A j \in IDs : reservations'[j] # reservations[j] =>
                          /\ reservations'[j].key = k
                          /\ reservations[j].key = k \/ reservations[j].status = Absent,
         \A l \in Keys \ {k} : windows'[l] = windows[l]
  PROVE  \A c \in CallRecord : c.key # k =>
           /\ OverConcurrent(c.key, c.at, c.policy)' <=> OverConcurrent(c.key, c.at, c.policy)
           /\ OverWindow(c.key, c.at, c.policy, c.tokens)'
                <=> OverWindow(c.key, c.at, c.policy, c.tokens)
<1>1. \A l \in Keys \ {k} : \A t : Active(l, t)' = Active(l, t)
  BY DEF Active, Absent
<1>2. \A l \in Keys \ {k} : \A t, p : OverConcurrent(l, t, p)' <=> OverConcurrent(l, t, p)
  BY <1>1 DEF OverConcurrent
<1>3. \A l \in Keys \ {k} : \A t, p, n : OverWindow(l, t, p, n)' <=> OverWindow(l, t, p, n)
  BY DEF OverWindow
<1>. QED BY <1>2, <1>3 DEF CallRecord

\* A transaction that writes rows of its own key and ends.
LEMMA WriteStep ==
  ASSUME IInv, NEW r \in Requests, NEW label \in PC \ (Locked \cup {"idle"}),
         pc[r] \in Locked,
         Goto(r, label), Unlock(r),
         reservations' \in [IDs -> Reservation],
         windows' \in [Keys -> [Time -> Window]],
         \A j \in IDs : reservations'[j] # reservations[j] =>
                          /\ j = call[r].id
                          /\ reservations'[j].key = call[r].key
                          /\ reservations'[j].status # Absent
                          /\ reservations[j].key = call[r].key \/ reservations[j].status = Absent,
         label = "serving" => /\ reservations'[call[r].id].status # Absent
                              /\ reservations'[call[r].id].key = call[r].key,
         label # "lockSettle",
         \A l \in Keys \ {call[r].key} : windows'[l] = windows[l],
         UNCHANGED <<now, ledger, policy, call, outcome, blind>>
  PROVE  IInv'
<1>. USE QuotaAssumption, QuotaStoreAssumption DEF IInv
<1>1. /\ call[r] \in CallRecord /\ pc \in [Requests -> PC] /\ pc' = [pc EXCEPT ![r] = label]
      /\ lock' = [lock EXCEPT ![call[r].key] = NoRequest]
      /\ lock \in [Keys -> Requests \cup {NoRequest}]
      /\ lock[call[r].key] = r
      /\ call[r].key \in Keys
  BY DEF TypeOK, LockHeld, Locked, ReserveSteps, Goto, Unlock, CallRecord
<1>2. ASSUME NEW q \in Requests, q # r, pc[q] \in Locked
      PROVE  call[q] \in CallRecord /\ call[q].key # call[r].key /\ lock'[call[q].key] = q
  <2>1. call[q] \in CallRecord
    BY <1>2 DEF TypeOK, Locked, ReserveSteps
  <2>. QED BY <1>1, <1>2, <2>1 DEF LockHeld, CallRecord
<1>3. TypeOK'
  BY <1>1 DEF TypeOK, TablesTypeOK
<1>4. LockHeld'
  BY <1>1, <1>2 DEF LockHeld
<1>5. RowOwned'
  <2>. SUFFICES ASSUME NEW q \in Requests, pc'[q] \in {"serving", "lockSettle", "settle"}
                PROVE  /\ reservations'[call[q].id].status # Absent
                       /\ reservations'[call[q].id].key = call[q].key
    BY DEF RowOwned
  <2>1. CASE q = r
    BY <1>1, <2>1 DEF Locked
  <2>2. CASE q # r
    <3>1. /\ call[q].id \in IDs
          /\ reservations[call[q].id].status # Absent
          /\ reservations[call[q].id].key = call[q].key
      BY <1>1, <2>2 DEF RowOwned, TypeOK, CallRecord
    <3>. QED BY <3>1
  <2>. QED BY <2>1, <2>2
<1>6. StillRoom'
  <2>1. TablesTypeOK
    BY DEF TypeOK
  <2>2. \A c \in CallRecord : c.key # call[r].key =>
           /\ OverConcurrent(c.key, c.at, c.policy)' <=> OverConcurrent(c.key, c.at, c.policy)
           /\ OverWindow(c.key, c.at, c.policy, c.tokens)'
                <=> OverWindow(c.key, c.at, c.policy, c.tokens)
    BY <1>1, <2>1, OtherKeysRoom
  <2>. SUFFICES ASSUME NEW q \in Requests, NEW c \in CallRecord, call[q] = c
                PROVE  /\ c.at <= now
                       /\ pc'[q] \in Counting => ~OverConcurrent(c.key, c.at, c.policy)'
                       /\ pc'[q] \in Budgeting => ~OverWindow(c.key, c.at, c.policy, c.tokens)'
    BY DEF StillRoom
  <2>3. c.at <= now
    BY DEF StillRoom
  <2>4. CASE q = r
    BY <1>1, <2>3, <2>4 DEF Locked, ReserveSteps, Counting, Budgeting
  <2>5. CASE q # r
    BY <1>1, <1>2, <2>2, <2>3, <2>5 DEF StillRoom, Locked, ReserveSteps, Counting, Budgeting
  <2>. QED BY <2>4, <2>5
<1>. QED BY <1>3, <1>4, <1>5, <1>6

\* ReserveQuota's commit keeps the inductive invariant.
LEMMA CommitStep ==
  ASSUME IInv, NEW r \in Requests, Commit(r)
  PROVE  IInv'
<1>. USE QuotaAssumption, QuotaStoreAssumption DEF IInv
<1>1. /\ pc[r] = "commit" /\ call[r] \in CallRecord /\ TablesTypeOK
      /\ WriteAdmission(call[r].id, call[r].key, call[r].at, call[r].policy,
                        call[r].tokens, call[r].cost)
      /\ Unlock(r)
      /\ \E label \in {"serving", "failed"} : Goto(r, label)
      /\ UNCHANGED <<now, ledger, policy, call, outcome, blind>>
  BY DEF Commit, TypeOK
<1>2. reservations' \in [IDs -> Reservation] /\ windows' \in [Keys -> [Time -> Window]]
  BY <1>1, AdmissionTypes DEF CallRecord
<1>3. /\ \A j \in IDs : j # call[r].id => reservations'[j] = reservations[j]
      /\ reservations[call[r].id].status = Absent
      /\ reservations'[call[r].id].key = call[r].key
      /\ reservations'[call[r].id].status # Absent
      /\ \A l \in Keys \ {call[r].key} : windows'[l] = windows[l]
  BY <1>1 DEF WriteAdmission, TablesTypeOK, CallRecord, Absent
<1>4. PICK label \in {"serving", "failed"} : Goto(r, label)
  BY <1>1
<1>5. label \in PC \ (Locked \cup {"idle"}) /\ pc[r] \in Locked
  BY <1>1 DEF PC, Locked, ReserveSteps, Ended
<1>. QED BY <1>1, <1>2, <1>3, <1>4, <1>5, WriteStep

\* SettleQuota's commit keeps the inductive invariant.
LEMMA SettleStep ==
  ASSUME IInv, NEW r \in Requests, SettleCommit(r)
  PROVE  IInv'
<1>. USE QuotaAssumption, QuotaStoreAssumption DEF IInv
<1>1. /\ pc[r] = "settle" /\ call[r] \in CallRecord /\ TablesTypeOK
      /\ outcome[r] \in Outcome
      /\ reservations[call[r].id].key = call[r].key
      /\ Goto(r, "insertUsage") /\ Unlock(r)
      /\ UNCHANGED <<now, ledger, policy, call, outcome, blind>>
  BY DEF SettleCommit, TypeOK, RowOwned
<1>2. "insertUsage" \in PC \ (Locked \cup {"idle"}) /\ pc[r] \in Locked
  BY <1>1 DEF PC, Locked, ReserveSteps, Ended
<1>3. CASE WriteSettlement(call[r].id, outcome[r].tokens, outcome[r].failed)
  <2>1. /\ call[r].id \in IDs /\ call[r].key \in Keys
        /\ outcome[r].tokens \in Amounts /\ outcome[r].failed \in BOOLEAN
    BY <1>1 DEF CallRecord, Outcome
  <2>2. reservations' \in [IDs -> Reservation] /\ windows' \in [Keys -> [Time -> Window]]
    BY <1>1, <1>3, <2>1, SettlementTypes
  <2>3. /\ \A j \in IDs : j # call[r].id => reservations'[j] = reservations[j]
        /\ reservations'[call[r].id].key = call[r].key
        /\ reservations'[call[r].id].status # Absent
    <3>. DEFINE i == call[r].id
                status == IF outcome[r].failed THEN "failed" ELSE "settled"
                row == [reservations[i] EXCEPT !.status = status, !.actual = outcome[r].tokens]
    <3>1. reservations \in [IDs -> Reservation] /\ reservations[i] \in Reservation
      BY <1>1, <2>1 DEF TablesTypeOK
    <3>2. reservations' = [reservations EXCEPT ![i] = row]
      BY <1>3, <3>1 DEF WriteSettlement
    <3>3. status \in {"failed", "settled"}
      OBVIOUS
    <3>. HIDE DEF status
    <3>4. row.key = call[r].key /\ row.status # Absent
      BY <1>1, <3>1, <3>3 DEF Reservation, Absent
    <3>. HIDE DEF row
    <3>. QED BY <2>1, <3>1, <3>2, <3>4
  <2>4. \A l \in Keys \ {call[r].key} : windows'[l] = windows[l]
    BY <1>1, <1>3, <2>1 DEF WriteSettlement, TablesTypeOK
  <2>. QED BY <1>1, <1>2, <2>1, <2>2, <2>3, <2>4, WriteStep
<1>4. CASE UNCHANGED <<reservations, windows>>
  BY <1>1, <1>2, <1>4, WriteStep DEF TablesTypeOK
<1>. QED BY <1>3, <1>4 DEF SettleCommit

\* A crash, an edit of the limits and the clock keep the inductive invariant.
LEMMA WorldStep ==
  ASSUME IInv, Crash \/ (\E k \in Keys, p \in Policies : SetPolicy(k, p)) \/ Tick
  PROVE  IInv'
<1>. USE QuotaAssumption, QuotaStoreAssumption DEF IInv
<1>1. UNCHANGED <<reservations, windows, ledger, call, outcome, blind>>
  BY DEF Crash, SetPolicy, Tick, tables
<1>2. now' \in Time /\ now \in Time /\ now <= now'
  BY DEF Crash, SetPolicy, Tick, Time, TypeOK, TablesTypeOK
<1>3. /\ pc' \in [Requests -> PC]
      /\ \A r \in Requests : pc'[r] = pc[r] \/ (pc'[r] = "dead" /\ pc[r] # "idle")
  BY DEF Crash, SetPolicy, Tick, TypeOK, PC, Ended
<1>4. lock' \in [Keys -> Requests \cup {NoRequest}] /\ policy' \in [Keys -> Policies]
  BY DEF Crash, SetPolicy, Tick, TypeOK
<1>5. TypeOK'
  BY <1>1, <1>2, <1>3, <1>4 DEF TypeOK, TablesTypeOK
<1>6. LockHeld'
  BY <1>1 DEF LockHeld, Crash, SetPolicy, Tick, Locked, ReserveSteps, Ended, TypeOK, PC
<1>7. RowOwned'
  BY <1>1, <1>3 DEF RowOwned
<1>8. StillRoom'
  BY <1>1, <1>2, <1>3, SameRoom
     DEF StillRoom, Counting, Budgeting, CallRecord, Time
<1>. QED BY <1>5, <1>6, <1>7, <1>8

\* Every step keeps the inductive invariant.
LEMMA NextIInv == IInv /\ [Next]_vars => IInv'
<1>. SUFFICES ASSUME IInv, [Next]_vars PROVE IInv'
  OBVIOUS
<1>1. CASE UNCHANGED vars
  BY <1>1, SameRoom
     DEF IInv, vars, tables, TypeOK, TablesTypeOK, LockHeld, RowOwned, StillRoom
<1>2. ASSUME NEW r \in Requests,
             \/ \E c \in Calls : Call(r, c)
             \/ ReserveNext(r)
             \/ \E o \in Outcomes : Finish(r, o)
             \/ SettleNext(r)
             \/ Fault(r)
      PROVE  IInv'
  BY <1>2, CallStep, QuietSteps, CommitStep, SettleStep DEF ReserveNext, SettleNext
<1>. QED BY <1>1, <1>2, WorldStep DEF Next

-----------------------------------------------------------------------------
\* Every table row, request record and lock keeps its type (postgres.go
\* ReserveQuota and SettleQuota, handlers.go forwardCompatible).
THEOREM TypeCorrect == Spec => []TypeOK
<1>1. IInv => TypeOK
  BY DEF IInv
<1>. QED BY <1>1, InitIInv, NextIInv, PTL DEF Spec

\* A transaction holds its key's lock, writes rows of its own key only, and finds
\* at its commit every limit it has checked still respected (postgres.go
\* ReserveQuota and SettleQuota): the inductive invariant of the transactions.
THEOREM Invariance == Spec => []IInv
BY InitIInv, NextIInv, PTL DEF Spec

-----------------------------------------------------------------------------
(* Refinement: every step is one step of Admission, or none.                *)

\* The abstract specification is instantiated with the tables as they are, so
\* its operators are those of QuotaTables.
LEMMA SameOperators ==
  /\ \A k, t, p : Atomic!OverConcurrent(k, t, p) <=> OverConcurrent(k, t, p)
  /\ \A k, t, p, n : Atomic!OverWindow(k, t, p, n) <=> OverWindow(k, t, p, n)
  /\ \A i, k, t, p, n, c : Atomic!WriteAdmission(i, k, t, p, n, c) <=> WriteAdmission(i, k, t, p, n, c)
  /\ \A i, n, f : Atomic!WriteSettlement(i, n, f) <=> WriteSettlement(i, n, f)
<1>1. \A k, t : Atomic!Active(k, t) = Active(k, t)
  BY DEF Atomic!Active, Active
<1>2. \A k, t, p : Atomic!OverConcurrent(k, t, p) <=> OverConcurrent(k, t, p)
  BY <1>1 DEF Atomic!OverConcurrent, OverConcurrent, Atomic!Cardinality, Cardinality
<1>3. \A k, t, p, n : Atomic!OverWindow(k, t, p, n) <=> OverWindow(k, t, p, n)
  BY DEF Atomic!OverWindow, OverWindow, Atomic!Counted, Counted,
         Atomic!WindowStart, WindowStart
<1>4. \A i, k, t, p, n, c : Atomic!WriteAdmission(i, k, t, p, n, c) <=> WriteAdmission(i, k, t, p, n, c)
  BY DEF Atomic!WriteAdmission, WriteAdmission, Atomic!Counted, Counted,
         Atomic!WindowStart, WindowStart, Atomic!Absent, Absent
<1>5. \A i, n, f : Atomic!WriteSettlement(i, n, f) <=> WriteSettlement(i, n, f)
  BY DEF Atomic!WriteSettlement, WriteSettlement, Atomic!WindowStart, WindowStart
<1>. QED BY <1>2, <1>3, <1>4, <1>5

\* The detailed and the abstract specification start alike.
LEMMA InitAtomic == Init => Atomic!Init
BY DEF Init, Atomic!Init, TablesInit, Atomic!TablesInit, NoReservation, Atomic!NoReservation,
       NoEntry, Atomic!NoEntry, Absent, Atomic!Absent, Time, Atomic!Time

\* Every step of the transactions is an admission, a settlement, a tick of the
\* clock, or nothing at all to the tables.
LEMMA StepAtomic == IInv /\ [Next]_vars => [Atomic!Next]_(Atomic!avars)
<1>. SUFFICES ASSUME IInv, [Next]_vars PROVE [Atomic!Next]_(Atomic!avars)
  OBVIOUS
<1>. USE QuotaAssumption, QuotaStoreAssumption
<1>1. CASE UNCHANGED <<now, reservations, windows>>
  BY <1>1 DEF Atomic!avars
<1>2. CASE Tick
  BY <1>2 DEF Tick, Atomic!Next, Atomic!Tick, tables
<1>3. ASSUME NEW r \in Requests, Commit(r) PROVE Atomic!Next
  <2>1. /\ call[r] \in CallRecord
        /\ call[r].at <= now
        /\ ~OverConcurrent(call[r].key, call[r].at, call[r].policy)
        /\ ~OverWindow(call[r].key, call[r].at, call[r].policy, call[r].tokens)
    BY <1>3 DEF IInv, TypeOK, StillRoom, Commit, Counting, Budgeting
  <2>2. Atomic!Admit(call[r].id, call[r].key, call[r].at, call[r].policy,
                     call[r].tokens, call[r].cost)
    BY <1>3, <2>1, SameOperators DEF Commit, Atomic!Admit
  <2>3. /\ call[r].id \in IDs /\ call[r].key \in Keys /\ call[r].at \in Time
        /\ call[r].policy \in Policies /\ call[r].tokens \in Amounts /\ call[r].cost \in Amounts
    BY <2>1 DEF CallRecord
  <2>. QED BY <2>2, <2>3 DEF Atomic!Next, Atomic!Time, Time
<1>4. ASSUME NEW r \in Requests, SettleCommit(r), ~UNCHANGED <<reservations, windows>>
      PROVE  Atomic!Next
  <2>1. call[r] \in CallRecord /\ outcome[r] \in Outcome
    BY <1>4 DEF IInv, TypeOK, SettleCommit
  <2>2. call[r].id \in IDs /\ outcome[r].tokens \in Amounts /\ outcome[r].failed \in BOOLEAN
    BY <2>1 DEF CallRecord, Outcome
  <2>3. Atomic!Settle(call[r].id, outcome[r].tokens, outcome[r].failed)
    BY <1>4, SameOperators DEF SettleCommit, Atomic!Settle
  <2>. QED BY <2>2, <2>3 DEF Atomic!Next
<1>5. ASSUME NEW r \in Requests,
             \/ \E c \in Calls : Call(r, c)
             \/ LockReserve(r) \/ CountActive(r) \/ CountWindow(r)
             \/ CheckDaily(r) \/ CheckMonthly(r) \/ DuplicateId(r)
             \/ \E o \in Outcomes : Finish(r, o)
             \/ LockSettle(r) \/ InsertUsage(r) \/ Fault(r)
      PROVE  UNCHANGED <<now, reservations, windows>>
  BY <1>5 DEF Call, LockReserve, CountActive, CountWindow, CheckDaily, CheckMonthly, DuplicateId,
              Finish, LockSettle, InsertUsage, Fault, Abort, Abandon, SettleError, InsertError,
              TakeLock, Rollback, Continue, Budget, tables
<1>6. ASSUME Crash \/ \E k \in Keys, p \in Policies : SetPolicy(k, p)
      PROVE  UNCHANGED <<now, reservations, windows>>
  BY <1>6 DEF Crash, SetPolicy, tables
<1>7. ASSUME NEW r \in Requests, SettleCommit(r), UNCHANGED <<reservations, windows>>
      PROVE  UNCHANGED <<now, reservations, windows>>
  BY <1>7 DEF SettleCommit
<1>8. CASE UNCHANGED vars
  BY <1>1, <1>8 DEF vars, tables
<1>. QED BY <1>1, <1>2, <1>3, <1>4, <1>5, <1>6, <1>7, <1>8 DEF Next, ReserveNext, SettleNext

\* The interleaved statements of ReserveQuota and SettleQuota (postgres.go) are
\* indivisible admissions and settlements, whatever fails or races.
THEOREM Refinement == Spec => AtomicSpec
<1>. QED BY Invariance, InitAtomic, StepAtomic, PTL DEF Spec, AtomicSpec, Atomic!Spec

-----------------------------------------------------------------------------
(* The concurrency limit, and reservations that are closed.                 *)

\* A request that has started stays what it is.
Onward == \A r \in Requests : pc[r] # "idle" => pc'[r] # "idle" /\ call'[r] = call[r]

\* No step takes a started request back, or changes what it asked for.
LEMMA NextOnward == IInv /\ [Next]_vars => Onward
<1>. SUFFICES ASSUME IInv, [Next]_vars PROVE Onward
  OBVIOUS
<1>1. pc \in [Requests -> PC] /\ DOMAIN call = Requests
  BY DEF IInv, TypeOK
<1>2. CASE Crash \/ Tick \/ UNCHANGED vars \/ (\E k \in Keys, p \in Policies : SetPolicy(k, p))
  BY <1>2 DEF Crash, Tick, SetPolicy, vars, Onward
<1>3. ASSUME NEW r \in Requests, \E c \in Calls : Call(r, c)
      PROVE  Onward
  BY <1>1, <1>3 DEF Call, Goto, Onward
<1>4. ASSUME NEW r \in Requests, ReserveNext(r) \/ SettleNext(r) \/ Fault(r)
                                  \/ (\E o \in Outcomes : Finish(r, o))
      PROVE  Onward
  <2>1. UNCHANGED call
    BY <1>4
       DEF ReserveNext, SettleNext, LockReserve, CountActive, CountWindow, CheckDaily, CheckMonthly,
           Budget, Commit, DuplicateId, LockSettle, SettleCommit, InsertUsage, Finish,
           Fault, Abort, Abandon, SettleError, InsertError, TakeLock, Rollback, Continue
  <2>2. \E label : label # "idle" /\ pc' = [pc EXCEPT ![r] = label]
    BY <1>4
       DEF ReserveNext, SettleNext, LockReserve, CountActive, CountWindow, CheckDaily, CheckMonthly,
           Budget, Commit, DuplicateId, LockSettle, SettleCommit, InsertUsage, Finish,
           Fault, Abort, Abandon, SettleError, InsertError, TakeLock, Rollback, Continue, Goto
  <2>. QED BY <1>1, <2>1, <2>2 DEF Onward
<1>. QED BY <1>2, <1>3, <1>4 DEF Next

\* A settlement opens no row.
LEMMA SettlementCloses ==
  ASSUME IInv, NEW r \in Requests, SettleCommit(r)
  PROVE  \A i \in IDs : reservations'[i] = reservations[i] \/ reservations'[i].status # "reserved"
<1>. DEFINE i == call[r].id
            status == IF outcome[r].failed THEN "failed" ELSE "settled"
            row == [reservations[i] EXCEPT !.status = status, !.actual = outcome[r].tokens]
<1>1. UNCHANGED reservations \/ reservations' = [reservations EXCEPT ![i] = row]
  BY DEF SettleCommit, WriteSettlement
<1>2. status # "reserved"
  OBVIOUS
<1>3. reservations \in [IDs -> Reservation] /\ call[r] \in CallRecord
  BY DEF SettleCommit, IInv, TypeOK, TablesTypeOK
<1>4. i \in IDs
  BY <1>3 DEF CallRecord
<1>5. reservations[i] \in Reservation
  BY <1>3, <1>4
<1>. HIDE DEF status
<1>6. row.status # "reserved"
  BY <1>2, <1>5 DEF Reservation
<1>. HIDE DEF row, i
<1>. QED BY <1>1, <1>3, <1>4, <1>6

\* A key whose requests were all let in under at most a limit stays within it.
SlotsKept ==
  \A k \in Keys, limit \in Nat :
    LimitedTo(k, "concurrent", limit) => Cardinality(Active(k, now)) <= limit

\* An admission adds one reservation to fewer than the limit; a settlement and
\* the clock only take reservations away.
LEMMA BoundStep == IInv /\ SlotsKept /\ [Next]_vars => SlotsKept'
<1>. SUFFICES ASSUME IInv, SlotsKept, [Next]_vars, NEW k \in Keys, NEW limit \in Nat,
                     LimitedTo(k, "concurrent", limit)'
              PROVE  Cardinality(Active(k, now)') <= limit
  BY DEF SlotsKept
<1>. USE QuotaAssumption
<1>0. Onward
  BY NextOnward
<1>1. /\ reservations \in [IDs -> Reservation] /\ now \in Time
      /\ Cardinality(Active(k, now)) <= limit
  <2>1. LimitedTo(k, "concurrent", limit)
    BY <1>0 DEF LimitedTo, Onward
  <2>. QED BY <2>1 DEF IInv, TypeOK, TablesTypeOK, SlotsKept
<1>2. \A t : IsFiniteSet(Active(k, t)) /\ Cardinality(Active(k, t)) \in Nat
  BY FS_Subset, FS_CardinalityType DEF Active
<1>3. ASSUME now <= now', now' \in Int,
             \A i \in IDs : reservations'[i] = reservations[i] \/ reservations'[i].status # "reserved"
      PROVE  Cardinality(Active(k, now)') <= limit
  <2>1. Active(k, now)' \subseteq Active(k, now)
    BY <1>1, <1>3 DEF Active, Time, Reservation
  <2>2. Cardinality(Active(k, now)') <= Cardinality(Active(k, now))
    BY <1>2, <2>1, FS_Subset
  <2>3. Cardinality(Active(k, now)') \in Nat
    BY <1>2, <2>1, FS_Subset, FS_CardinalityType
  <2>. QED BY <1>1, <1>2, <2>2, <2>3
<1>4. ASSUME NEW r \in Requests, Commit(r)
      PROVE  Cardinality(Active(k, now)') <= limit
  <2>1. PICK c \in CallRecord : c = call[r]
    BY <1>4 DEF IInv, TypeOK, Commit
  <2>2. /\ c.id \in IDs /\ c.key \in Keys /\ c.at \in Time /\ c.policy \in Policies
        /\ c.policy.concurrent \in Nat
    BY <2>1 DEF CallRecord
  <2>3. ~OverConcurrent(c.key, c.at, c.policy) /\ c.at <= now
    BY <1>4, <2>1 DEF IInv, StillRoom, Commit, Counting, Budgeting
  <2>4. /\ now' = now
        /\ \A j \in IDs \ {c.id} : reservations'[j] = reservations[j]
        /\ reservations'[c.id].key = c.key
    BY <1>1, <1>4, <2>1, <2>2 DEF Commit, WriteAdmission
  <2>5. CASE k # c.key
    <3>1. Active(k, now)' \subseteq Active(k, now)
      BY <2>4, <2>5 DEF Active
    <3>2. Cardinality(Active(k, now)') <= Cardinality(Active(k, now))
      BY <1>2, <3>1, FS_Subset
    <3>3. Cardinality(Active(k, now)') \in Nat
      BY <1>2, <3>1, FS_Subset, FS_CardinalityType
    <3>. QED BY <1>1, <1>2, <3>2, <3>3
  <2>6. CASE k = c.key
    <3>1. Active(k, now)' \subseteq Active(k, c.at) \cup {c.id}
      BY <1>1, <2>2, <2>3, <2>4 DEF Active, Reservation, Time
    <3>2. c.policy.concurrent \in 1 .. limit
      BY <1>0, <1>4, <2>1, <2>6 DEF LimitedTo, Onward, Commit
    <3>3. Cardinality(Active(k, c.at)) < limit
      BY <1>2, <2>2, <2>3, <2>6, <3>2 DEF OverConcurrent
    <3>4. /\ IsFiniteSet(Active(k, c.at) \cup {c.id})
          /\ Cardinality(Active(k, c.at) \cup {c.id}) <= Cardinality(Active(k, c.at)) + 1
      <4>. DEFINE A == Active(k, c.at)
      <4>1. IsFiniteSet(A) /\ Cardinality(A) \in Nat
        BY <1>2
      <4>. HIDE DEF A
      <4>2. /\ IsFiniteSet(A \cup {c.id})
            /\ \/ Cardinality(A \cup {c.id}) = Cardinality(A)
               \/ Cardinality(A \cup {c.id}) = Cardinality(A) + 1
        BY <4>1, FS_AddElement
      <4>. QED BY <4>1, <4>2 DEF A
    <3>5. Cardinality(Active(k, now)') <= Cardinality(Active(k, c.at) \cup {c.id})
      BY <3>1, <3>4, FS_Subset
    <3>6. /\ Cardinality(Active(k, now)') \in Nat
          /\ Cardinality(Active(k, c.at) \cup {c.id}) \in Nat
      BY <3>1, <3>4, FS_Subset, FS_CardinalityType
    <3>. QED BY <1>2, <3>3, <3>4, <3>5, <3>6
  <2>. QED BY <2>5, <2>6
<1>5. ASSUME NEW r \in Requests, SettleCommit(r)
      PROVE  Cardinality(Active(k, now)') <= limit
  <2>1. now' = now
    BY <1>5 DEF SettleCommit
  <2>. QED BY <1>1, <1>3, <1>5, <2>1, SettlementCloses DEF Time
<1>6. ASSUME NEW r \in Requests,
             \/ \E c \in Calls : Call(r, c)
             \/ LockReserve(r) \/ CountActive(r) \/ CountWindow(r)
             \/ CheckDaily(r) \/ CheckMonthly(r) \/ DuplicateId(r)
             \/ \E o \in Outcomes : Finish(r, o)
             \/ LockSettle(r) \/ InsertUsage(r) \/ Fault(r)
      PROVE  Cardinality(Active(k, now)') <= limit
  <2>1. UNCHANGED <<now, reservations>>
    BY <1>6 DEF Call, LockReserve, CountActive, CountWindow, CheckDaily, CheckMonthly, DuplicateId,
                Finish, LockSettle, InsertUsage, Fault, Abort, Abandon, SettleError, InsertError,
                TakeLock, Rollback, Continue, Budget, tables
  <2>. QED BY <1>1, <1>3, <2>1 DEF Time
<1>7. CASE Crash \/ Tick \/ UNCHANGED vars \/ (\E l \in Keys, p \in Policies : SetPolicy(l, p))
  <2>1. UNCHANGED reservations /\ (now' = now \/ now' = now + 1)
    BY <1>7 DEF Crash, Tick, SetPolicy, tables, vars
  <2>. QED BY <1>1, <1>3, <2>1 DEF Time
<1>. QED BY <1>4, <1>5, <1>6, <1>7 DEF Next, ReserveNext, SettleNext

\* No interleaving of the reservations of a key (postgres.go ReserveQuota) lets
\* more requests in flight than its concurrent limit, unless that was lowered
\* below what a request was let in under.
THEOREM Concurrency == Spec => []ConcurrencyBound
<1>1. Init => SlotsKept
  <2>. SUFFICES ASSUME Init, NEW k \in Keys, NEW limit \in Nat
                PROVE  Cardinality(Active(k, now)) <= limit
    BY DEF SlotsKept
  <2>1. Active(k, now) = {}
    BY DEF Init, TablesInit, NoReservation, Active, Absent
  <2>. QED BY <2>1, FS_EmptySet
<1>2. IInv /\ SlotsKept /\ [Next]_vars => SlotsKept'
  BY BoundStep
<1>3. IInv /\ SlotsKept => ConcurrencyBound
  <2>. SUFFICES ASSUME IInv, SlotsKept, NEW k \in Keys, NotLowered(k, "concurrent")
                PROVE  Cardinality(Active(k, now)) <= policy[k].concurrent
    BY DEF ConcurrencyBound
  <2>1. policy[k].concurrent \in Nat
    BY QuotaAssumption DEF IInv, TypeOK
  <2>. QED BY <2>1 DEF SlotsKept, NotLowered
<1>. QED BY <1>1, <1>2, <1>3, Invariance, PTL DEF Spec

\* A reservation that SettleQuota (postgres.go) has closed never changes again,
\* whoever settles or reuses its request id.
THEOREM Settled == Spec => SettledOnce
<1>1. IInv /\ [Next]_vars =>
        [\A i \in IDs : reservations[i].status \in {"settled", "failed"}
                          => reservations'[i] = reservations[i]]_vars
  <2>. SUFFICES ASSUME IInv, [Next]_vars, NEW i \in IDs,
                       reservations[i].status \in {"settled", "failed"}
                PROVE  reservations'[i] = reservations[i]
    OBVIOUS
  <2>1. [Atomic!Next]_(Atomic!avars)
    BY StepAtomic
  <2>2. reservations \in [IDs -> Reservation]
    BY DEF IInv, TypeOK, TablesTypeOK
  <2>3. CASE UNCHANGED Atomic!avars \/ Atomic!Tick
    BY <2>3 DEF Atomic!avars, Atomic!Tick
  <2>4. ASSUME NEW j \in IDs, NEW actual \in Amounts, NEW failed \in BOOLEAN,
               Atomic!Settle(j, actual, failed)
        PROVE  reservations'[i] = reservations[i]
    BY <2>2, <2>4, SameOperators DEF Atomic!Settle, WriteSettlement
  <2>5. ASSUME NEW j \in IDs, NEW k \in Keys, NEW t \in Time, NEW p \in Policies,
               NEW tokens \in Amounts, NEW cost \in Amounts,
               Atomic!Admit(j, k, t, p, tokens, cost)
        PROVE  reservations'[i] = reservations[i]
    BY <2>2, <2>5, SameOperators DEF Atomic!Admit, WriteAdmission, Absent
  <2>6. Atomic!Time = Time
    BY DEF Atomic!Time, Time
  <2>. QED BY <2>1, <2>3, <2>4, <2>5, <2>6 DEF Atomic!Next
<1>. QED BY <1>1, Invariance, PTL DEF Spec, SettledOnce

-----------------------------------------------------------------------------
(* Sums over finite sets *)

\* A set of numbers has a least one.
LEMMA LeastNumber ==
  ASSUME NEW T, T \subseteq Nat, T # {}
  PROVE  \E n \in T : \A m \in T : n <= m
<1>1. IsWellFoundedOn(OpToRel(<, Nat), Nat) BY NatLessThanWellFounded
<1>2. PICK n \in T : \A m \in T : ~(<<m, n>> \in OpToRel(<, Nat)) BY <1>1, WFMin
<1>3. ASSUME NEW m \in T PROVE n <= m
  <2>1. m \in Nat /\ n \in Nat OBVIOUS
  <2>2. ~(m < n) BY <1>2, <2>1 DEF OpToRel
  <2>. QED BY <2>1, <2>2
<1>. QED BY <1>3

\* Sets of parts of a finite set have a least part.
LEMMA LeastPart ==
  ASSUME NEW U, IsFiniteSet(U), NEW B, B \subseteq SUBSET U, B # {}
  PROVE  \E s \in B : \A t \in SUBSET s : t # s => t \notin B
<1>1. IsWellFoundedOn(StrictSubsetOrdering(U), FiniteSubsetsOf(U)) BY FS_StrictSubsetOrderingWellFounded
<1>2. FiniteSubsetsOf(U) = SUBSET U BY FS_FiniteSubsetsOfFinite
<1>3. PICK s \in B : \A t \in B : ~(<<t, s>> \in StrictSubsetOrdering(U)) BY <1>1, <1>2, WFMin
<1>4. ASSUME NEW t \in SUBSET s, t # s, t \in B PROVE FALSE
  <2>1. <<t, s>> \in (SUBSET U) \X (SUBSET U) BY <1>4
  <2>2. <<t, s>> \in StrictSubsetOrdering(U) BY <1>4, <2>1 DEF StrictSubsetOrdering
  <2>. QED BY <1>3, <1>4, <2>2
<1>. QED BY <1>4

\* The member that a sum takes first, and the sum with it taken first.
First(s) == CHOOSE x \in s : TRUE
Added(f, w, s) == IF s = {} THEN 0 ELSE w[First(s)] + f[s \ {First(s)}]

\* It is a member.
LEMMA TakeOne ==
  ASSUME NEW s, s # {}
  PROVE  First(s) \in s
BY DEF First

\* Such sums are what they are wherever they are taken.
LEMMA SumIsOne ==
  ASSUME NEW S, IsFiniteSet(S), NEW f, NEW g, NEW w, NEW v,
         \A s \in SUBSET S : f[s] = Added(f, w, s),
         \A s \in SUBSET S : g[s] = Added(g, v, s),
         \A x \in S : w[x] = v[x]
  PROVE  f[S] = g[S]
<1>. DEFINE B == {s \in SUBSET S : f[s] # g[s]}
<1>1. SUFFICES ASSUME B # {} PROVE FALSE OBVIOUS
<1>2. PICK s \in B : \A t \in SUBSET s : t # s => t \notin B BY <1>1, LeastPart
<1>3. s \in SUBSET S /\ f[s] # g[s] OBVIOUS
<1>4. s # {} BY <1>3 DEF Added
<1>5. First(s) \in s BY <1>4, TakeOne
<1>6. f[s \ {First(s)}] = g[s \ {First(s)}] BY <1>2, <1>3, <1>5
<1>7. w[First(s)] = v[First(s)] BY <1>3, <1>5
<1>. HIDE DEF B
<1>8. f[s] = w[First(s)] + f[s \ {First(s)}] BY <1>3, <1>4 DEF Added
<1>9. g[s] = v[First(s)] + g[s \ {First(s)}] BY <1>3, <1>4 DEF Added
<1>. QED BY <1>3, <1>6, <1>7, <1>8, <1>9

\* f sums w over every part of U, and w is numbers there.
Sums(f, w, U) == \A s \in SUBSET U : f[s] = Added(f, w, s)
Numbers(w, U) == \A x \in U : w[x] \in Nat

\* There is such a sum.
LEMMA SumExists ==
  ASSUME NEW U, IsFiniteSet(U), NEW w, Numbers(w, U)
  PROVE  \E f \in [SUBSET U -> Nat] : Sums(f, w, U)
<1>. USE DEF Sums, Numbers
<1>. DEFINE Upto(f, n) == \A s \in SUBSET U : Cardinality(s) <= n => f[s] = Added(f, w, s)
           B == {n \in Nat : ~\E f \in [SUBSET U -> Nat] : Upto(f, n)}
<1>1. \A s \in SUBSET U : IsFiniteSet(s) /\ Cardinality(s) \in Nat /\ Cardinality(s) <= Cardinality(U)
  BY FS_Subset, FS_CardinalityType
<1>2. B = {}
  <2>. SUFFICES ASSUME B # {} PROVE FALSE OBVIOUS
  <2>1. PICK n \in B : \A m \in B : n <= m BY LeastNumber
  <2>2. n # 0
    <3>. DEFINE z == [s \in SUBSET U |-> 0]
    <3>1. Upto(z, 0)
      <4>. SUFFICES ASSUME NEW s \in SUBSET U, Cardinality(s) <= 0 PROVE z[s] = Added(z, w, s) OBVIOUS
      <4>1. s = {} BY <1>1, FS_EmptySet
      <4>. QED BY <4>1 DEF Added
    <3>2. z \in [SUBSET U -> Nat] OBVIOUS
    <3>. HIDE DEF z
    <3>3. \E f \in [SUBSET U -> Nat] : Upto(f, 0) BY <3>1, <3>2
    <3>. QED BY <3>3
  <2>3. n \in Nat /\ n - 1 \in Nat /\ ~(n <= n - 1) BY <2>2
  <2>4. n - 1 \notin B BY <2>1, <2>3
  <2>5. PICK f \in [SUBSET U -> Nat] : Upto(f, n - 1) BY <2>3, <2>4
  <2>. DEFINE g == [s \in SUBSET U |-> Added(f, w, s)]
  <2>6. g \in [SUBSET U -> Nat]
    <3>. SUFFICES ASSUME NEW s \in SUBSET U PROVE Added(f, w, s) \in Nat OBVIOUS
    <3>1. CASE s = {} BY <3>1 DEF Added
    <3>2. CASE s # {}
      <4>1. First(s) \in U /\ s \ {First(s)} \in SUBSET U BY <3>2, TakeOne
      <4>2. w[First(s)] \in Nat /\ f[s \ {First(s)}] \in Nat BY <4>1
      <4>. QED BY <3>2, <4>2 DEF Added
    <3>. QED BY <3>1, <3>2
  <2>7. Upto(g, n)
    <3>. SUFFICES ASSUME NEW s \in SUBSET U, Cardinality(s) <= n PROVE g[s] = Added(g, w, s) OBVIOUS
    <3>1. g[s] = Added(f, w, s) OBVIOUS
    <3>2. CASE s = {} BY <3>1, <3>2 DEF Added
    <3>3. CASE s # {}
      <4>. DEFINE t == s \ {First(s)}
      <4>1. t \in SUBSET U /\ Cardinality(t) = Cardinality(s) - 1 BY <1>1, <3>3, TakeOne, FS_RemoveElement
      <4>2. Cardinality(t) <= n - 1 BY <1>1, <2>3, <4>1
      <4>3. f[t] = Added(f, w, t) /\ g[t] = Added(f, w, t) BY <2>5, <4>1, <4>2
      <4>. QED BY <3>1, <3>3, <4>3 DEF Added
    <3>. QED BY <3>2, <3>3
  <2>. HIDE DEF g
  <2>8. \E h \in [SUBSET U -> Nat] : Upto(h, n) BY <2>6, <2>7
  <2>. QED BY <2>1, <2>8
<1>3. Cardinality(U) \in Nat BY FS_CardinalityType
<1>4. PICK f \in [SUBSET U -> Nat] : Upto(f, Cardinality(U)) BY <1>2, <1>3
<1>5. \A s \in SUBSET U : f[s] = Added(f, w, s) BY <1>1, <1>4
<1>. QED BY <1>5

\* SumFunctionOnSet is one.
LEMMA SumIsAdded ==
  ASSUME NEW U, IsFiniteSet(U), NEW w, Numbers(w, U)
  PROVE  \E f \in [SUBSET U -> Nat] : Sums(f, w, U) /\ SumFunctionOnSet(w, U) = f[U]
<1>. DEFINE IsIter(h) == h = [s \in SUBSET U |-> Added(h, w, s)]
           c == CHOOSE h : IsIter(h)
<1>1. PICK g \in [SUBSET U -> Nat] : Sums(g, w, U)
  <2>. HIDE DEF c, IsIter
  <2>. QED BY SumExists
<1>2. IsIter(g)
  <2>. HIDE DEF c
  <2>. QED BY <1>1 DEF Sums
<1>3. IsIter(c)
  <2>1. \E h : IsIter(h) BY <1>2
  <2>. HIDE DEF IsIter
  <2>. QED BY <2>1
<1>4. SumFunctionOnSet(w, U) = c[U]
  BY DEF SumFunctionOnSet, FoldFunctionOnSet, MapThenFoldSet, Added, First
<1>5. Sums(c, w, U)
  <2>. HIDE DEF c
  <2>. QED BY <1>3 DEF Sums
<1>. HIDE DEF c, IsIter
<1>6. c[U] = g[U] BY <1>1, <1>5, SumIsOne DEF Sums
<1>7. SumFunctionOnSet(w, U) = g[U] BY <1>4, <1>6
<1>. QED BY <1>1, <1>7

\* The sum over s is the number at y and the sum over the others.
Takes(f, w, s, y) == f[s] = w[y] + f[s \ {y}]


\* Any member of a part can be the one taken away.
LEMMA SumTakes ==
  ASSUME NEW U, IsFiniteSet(U), NEW w, Numbers(w, U),
         NEW f \in [SUBSET U -> Nat], Sums(f, w, U), NEW s \in SUBSET U, NEW y \in s
  PROVE  Takes(f, w, s, y)
<1>. USE DEF Takes
<1>. DEFINE TakesAll(t) == \A x \in t : Takes(f, w, t, x)
           B == {t \in SUBSET U : ~TakesAll(t)}
<1>1. SUFFICES ASSUME B # {} PROVE FALSE
  OBVIOUS
<1>2. PICK t \in B : \A u \in SUBSET t : u # t => u \notin B
  <2>. HIDE DEF TakesAll
  <2>. QED BY <1>1, LeastPart
<1>3. t \in SUBSET U /\ ~TakesAll(t)
  OBVIOUS
<1>4. PICK x \in t : f[t] # w[x] + f[t \ {x}]
  BY <1>3
<1>. DEFINE z == First(t)
           a == t \ {x}
           b == t \ {z}
<1>5. z \in t
  BY <1>4, TakeOne
<1>. HIDE DEF z
<1>6. f[t] = w[z] + f[b]
  BY <1>3, <1>4 DEF Sums, Added, z
<1>7. x # z
  BY <1>4, <1>6
<1>8. a \in SUBSET U /\ b \in SUBSET U /\ z \in a /\ x \in b /\ a \ {z} = b \ {x}
  BY <1>3, <1>4, <1>5, <1>7
<1>9. TakesAll(a) /\ TakesAll(b)
  <2>1. a \in SUBSET t /\ a # t /\ b \in SUBSET t /\ b # t
    BY <1>4, <1>5
  <2>2. a \notin B /\ b \notin B
    BY <1>2, <2>1
  <2>. QED BY <1>8, <2>2
<1>10. f[a] = w[z] + f[a \ {z}] /\ f[b] = w[x] + f[b \ {x}]
  BY <1>8, <1>9
<1>11. w[x] \in Nat /\ w[z] \in Nat /\ f[a \ {z}] \in Nat
  <2>1. x \in U /\ z \in U /\ a \ {z} \in SUBSET U
    BY <1>3, <1>4, <1>5
  <2>. QED BY <2>1 DEF Numbers
<1>. HIDE DEF a, b
<1>12. f[t] # w[x] + f[a]
  BY <1>4 DEF a
<1>13. w[z] + (w[x] + f[a \ {z}]) = w[x] + (w[z] + f[a \ {z}])
  BY <1>11
<1>. QED BY <1>6, <1>8, <1>10, <1>12, <1>13

\* A sum of numbers is a number, and of none it is zero.
LEMMA SumType ==
  ASSUME NEW U, IsFiniteSet(U), NEW w, Numbers(w, U)
  PROVE  SumFunctionOnSet(w, U) \in Nat /\ (U = {} => SumFunctionOnSet(w, U) = 0)
<1>1. PICK f \in [SUBSET U -> Nat] : Sums(f, w, U) /\ SumFunctionOnSet(w, U) = f[U]
  BY SumIsAdded
<1>2. f[U] \in Nat
  OBVIOUS
<1>3. U = {} => f[U] = 0
  BY <1>1 DEF Sums, Added
<1>. QED BY <1>1, <1>2, <1>3

\* A sum depends on the summed numbers only.
LEMMA SumSame ==
  ASSUME NEW U, IsFiniteSet(U), NEW w, NEW v, Numbers(w, U), \A x \in U : w[x] = v[x]
  PROVE  SumFunctionOnSet(w, U) = SumFunctionOnSet(v, U)
<1>1. Numbers(v, U)
  BY DEF Numbers
<1>2. PICK f \in [SUBSET U -> Nat] : Sums(f, w, U) /\ SumFunctionOnSet(w, U) = f[U]
  BY SumIsAdded
<1>3. PICK g \in [SUBSET U -> Nat] : Sums(g, v, U) /\ SumFunctionOnSet(v, U) = g[U]
  BY <1>1, SumIsAdded
<1>4. f[U] = g[U]
  BY <1>2, <1>3, SumIsOne DEF Sums
<1>. QED BY <1>2, <1>3, <1>4

\* A sum is any of its numbers and the sum of the others.
LEMMA SumMember ==
  ASSUME NEW U, IsFiniteSet(U), NEW w, Numbers(w, U), NEW y \in U
  PROVE  SumFunctionOnSet(w, U) = w[y] + SumFunctionOnSet(w, U \ {y})
<1>. DEFINE V == U \ {y}
<1>1. IsFiniteSet(V) /\ V \in SUBSET U /\ Numbers(w, V)
  BY FS_Subset DEF Numbers
<1>2. PICK f \in [SUBSET U -> Nat] : Sums(f, w, U) /\ SumFunctionOnSet(w, U) = f[U]
  BY SumIsAdded
<1>. HIDE DEF V
<1>3. PICK g \in [SUBSET V -> Nat] : Sums(g, w, V) /\ SumFunctionOnSet(w, V) = g[V]
  BY <1>1, SumIsAdded
<1>4. Sums(f, w, V)
  BY <1>1, <1>2 DEF Sums
<1>5. f[V] = g[V]
  BY <1>1, <1>3, <1>4, SumIsOne DEF Sums
<1>6. f[U] = w[y] + f[V]
  <2>1. U \in SUBSET U
    OBVIOUS
  <2>2. Takes(f, w, U, y)
    BY <1>2, <2>1, SumTakes
  <2>. QED BY <2>2 DEF V, Takes
<1>. QED BY <1>2, <1>3, <1>5, <1>6 DEF V

\* The sum over s is the number at y and the sum over the rest, all of them numbers.
Splits(w, s, y) ==
  /\ w[y] \in Nat /\ s \ {y} \in SUBSET s /\ s \ {y} # s
  /\ SumFunctionOnSet(w, s \ {y}) \in Nat
  /\ SumFunctionOnSet(w, s) = w[y] + SumFunctionOnSet(w, s \ {y})

\* Any part of a finite set splits.
LEMMA SumSplits ==
  ASSUME NEW U, IsFiniteSet(U), NEW w, Numbers(w, U), NEW s \in SUBSET U, NEW y \in s
  PROVE  Splits(w, s, y)
<1>1. \A t \in SUBSET U : IsFiniteSet(t) /\ Numbers(w, t)
  BY FS_Subset DEF Numbers
<1>2. w[y] \in Nat /\ s \ {y} \in SUBSET s /\ s \ {y} # s
  BY DEF Numbers
<1>3. SumFunctionOnSet(w, s \ {y}) \in Nat
  BY <1>1, SumType
<1>4. SumFunctionOnSet(w, s) = w[y] + SumFunctionOnSet(w, s \ {y})
  BY <1>1, SumMember
<1>. QED BY <1>2, <1>3, <1>4 DEF Splits

\* Not greater numbers have a not greater sum.
LEMMA SumMono ==
  ASSUME NEW U, IsFiniteSet(U), NEW w, NEW v, Numbers(w, U), Numbers(v, U),
         \A x \in U : w[x] <= v[x]
  PROVE  SumFunctionOnSet(w, U) <= SumFunctionOnSet(v, U)
<1>. DEFINE Holds(s) == SumFunctionOnSet(w, s) <= SumFunctionOnSet(v, s)
            B == {s \in SUBSET U : ~Holds(s)}
<1>1. SUFFICES ASSUME B # {} PROVE FALSE
  OBVIOUS
<1>2. PICK s \in B : \A t \in SUBSET s : t # s => t \notin B
  <2>1. B \subseteq SUBSET U
    OBVIOUS
  <2>. HIDE DEF B
  <2>. QED BY <1>1, <2>1, LeastPart
<1>3. s \in SUBSET U /\ ~Holds(s)
  OBVIOUS
<1>4. s # {}
  <2>1. SumFunctionOnSet(w, {}) = 0 /\ SumFunctionOnSet(v, {}) = 0
    BY FS_EmptySet, SumType DEF Numbers
  <2>. QED BY <1>3, <2>1
<1>5. PICK y \in s : TRUE
  BY <1>4
<1>6. Splits(w, s, y)
  BY <1>3, SumSplits
<1>7. Splits(v, s, y)
  BY <1>3, SumSplits
<1>8. Holds(s \ {y})
  BY <1>2, <1>3, <1>6 DEF Splits
<1>9. w[y] <= v[y]
  BY <1>3
<1>. QED BY <1>3, <1>6, <1>7, <1>8, <1>9 DEF Splits

\* The sum of two sums is the sum of the pairs' sums.
LEMMA SumPlus ==
  ASSUME NEW U, IsFiniteSet(U), NEW w, NEW v, NEW z, Numbers(w, U), Numbers(v, U),
         \A x \in U : z[x] = w[x] + v[x]
  PROVE  SumFunctionOnSet(z, U) = SumFunctionOnSet(w, U) + SumFunctionOnSet(v, U)
<1>. DEFINE Holds(s) == SumFunctionOnSet(z, s) = SumFunctionOnSet(w, s) + SumFunctionOnSet(v, s)
            B == {s \in SUBSET U : ~Holds(s)}
<1>0. Numbers(z, U)
  BY DEF Numbers
<1>1. SUFFICES ASSUME B # {} PROVE FALSE
  OBVIOUS
<1>2. PICK s \in B : \A t \in SUBSET s : t # s => t \notin B
  <2>1. B \subseteq SUBSET U
    OBVIOUS
  <2>. HIDE DEF B
  <2>. QED BY <1>1, <2>1, LeastPart
<1>3. s \in SUBSET U /\ ~Holds(s)
  OBVIOUS
<1>4. s # {}
  <2>1. SumFunctionOnSet(w, {}) = 0 /\ SumFunctionOnSet(v, {}) = 0 /\ SumFunctionOnSet(z, {}) = 0
    BY FS_EmptySet, SumType DEF Numbers
  <2>. QED BY <1>3, <2>1
<1>5. PICK y \in s : TRUE
  BY <1>4
<1>6. Splits(w, s, y)
  BY <1>3, SumSplits
<1>7. Splits(v, s, y)
  BY <1>3, SumSplits
<1>8. Splits(z, s, y)
  BY <1>0, <1>3, SumSplits
<1>9. Holds(s \ {y})
  BY <1>2, <1>3, <1>6 DEF Splits
<1>10. z[y] = w[y] + v[y]
  BY <1>3
<1>. QED BY <1>3, <1>6, <1>7, <1>8, <1>9, <1>10 DEF Splits

\* A sum over a part is a sum over the whole with zeros elsewhere.
LEMMA SumMask ==
  ASSUME NEW U, IsFiniteSet(U), NEW A \in SUBSET U, NEW w, NEW v, Numbers(w, A),
         \A x \in U : v[x] = IF x \in A THEN w[x] ELSE 0
  PROVE  SumFunctionOnSet(w, A) = SumFunctionOnSet(v, U)
<1>. DEFINE Holds(s) == SumFunctionOnSet(w, A \cap s) = SumFunctionOnSet(v, s)
            B == {s \in SUBSET U : ~Holds(s)}
<1>0. Numbers(v, U) /\ IsFiniteSet(A)
  BY FS_Subset DEF Numbers
<1>1. SUFFICES ASSUME B # {} PROVE FALSE
  <2>1. A \cap U = A
    OBVIOUS
  <2>2. Holds(U)
    <3>. HIDE DEF Holds
    <3>. QED OBVIOUS
  <2>. QED BY <2>1, <2>2
<1>2. PICK s \in B : \A t \in SUBSET s : t # s => t \notin B
  <2>1. B \subseteq SUBSET U
    OBVIOUS
  <2>. HIDE DEF B
  <2>. QED BY <1>1, <2>1, LeastPart
<1>3. s \in SUBSET U /\ ~Holds(s)
  OBVIOUS
<1>4. s # {}
  <2>1. SumFunctionOnSet(w, {}) = 0 /\ SumFunctionOnSet(v, {}) = 0
    BY FS_EmptySet, SumType DEF Numbers
  <2>2. A \cap {} = {}
    OBVIOUS
  <2>. QED BY <1>3, <2>1, <2>2
<1>5. PICK y \in s : TRUE
  BY <1>4
<1>6. Splits(v, s, y)
  BY <1>0, <1>3, SumSplits
<1>7. Holds(s \ {y})
  BY <1>2, <1>3, <1>6 DEF Splits
<1>8. v[y] = IF y \in A THEN w[y] ELSE 0
  BY <1>3
<1>9. CASE y \in A
  <2>1. A \cap s \in SUBSET A /\ y \in A \cap s
    BY <1>9
  <2>2. Splits(w, A \cap s, y)
    BY <1>0, <2>1, SumSplits
  <2>3. (A \cap s) \ {y} = A \cap (s \ {y})
    OBVIOUS
  <2>. QED BY <1>3, <1>6, <1>7, <1>8, <1>9, <2>2, <2>3 DEF Splits
<1>10. CASE y \notin A
  <2>1. A \cap (s \ {y}) = A \cap s
    BY <1>10
  <2>. QED BY <1>3, <1>6, <1>7, <1>8, <1>10, <2>1 DEF Splits
<1>. QED BY <1>9, <1>10

\* What g makes of a set, and that it makes no two members the same.
ImageOf(g, s) == {g[x] : x \in s}
NoTwo(g, s) == \A x, y \in s : g[x] = g[y] => x = y

\* A sum by other names.
LEMMA SumRename ==
  ASSUME NEW F, IsFiniteSet(F), NEW g, NoTwo(g, F), NEW w, NEW v,
         IsFiniteSet(ImageOf(g, F)), Numbers(v, ImageOf(g, F)),
         \A x \in F : w[x] = v[g[x]]
  PROVE  SumFunctionOnSet(w, F) = SumFunctionOnSet(v, ImageOf(g, F))
<1>. DEFINE Holds(s) == SumFunctionOnSet(w, s) = SumFunctionOnSet(v, ImageOf(g, s))
            B == {s \in SUBSET F : ~Holds(s)}
<1>0. Numbers(w, F)
  BY DEF Numbers, ImageOf
<1>1. SUFFICES ASSUME B # {} PROVE FALSE
  OBVIOUS
<1>2. PICK s \in B : \A t \in SUBSET s : t # s => t \notin B
  <2>1. B \subseteq SUBSET F
    OBVIOUS
  <2>. HIDE DEF B
  <2>. QED BY <1>1, <2>1, LeastPart
<1>3. s \in SUBSET F /\ ~Holds(s)
  OBVIOUS
<1>4. s # {}
  <2>1. SumFunctionOnSet(w, {}) = 0 /\ SumFunctionOnSet(v, {}) = 0
    BY FS_EmptySet, SumType DEF Numbers
  <2>2. ImageOf(g, {}) = {}
    BY DEF ImageOf
  <2>. QED BY <1>3, <2>1, <2>2
<1>5. PICK y \in s : TRUE
  BY <1>4
<1>6. Splits(w, s, y)
  BY <1>0, <1>3, SumSplits
<1>7. Holds(s \ {y})
  BY <1>2, <1>3, <1>6 DEF Splits
<1>8. w[y] = v[g[y]]
  BY <1>3
<1>9. ImageOf(g, s) \in SUBSET ImageOf(g, F) /\ g[y] \in ImageOf(g, s)
  BY <1>3 DEF ImageOf
<1>10. Splits(v, ImageOf(g, s), g[y])
  BY <1>9, SumSplits
<1>11. ImageOf(g, s) \ {g[y]} = ImageOf(g, s \ {y})
  BY <1>3 DEF ImageOf, NoTwo
<1>. QED BY <1>3, <1>6, <1>7, <1>8, <1>10, <1>11 DEF Splits

-----------------------------------------------------------------------------
(* The counters of a minute are the sum of its rows.                        *)

\* The minute of a row, by what its counters are compared with.
Exact(k, t) ==
  windows[k][t] = [requests |-> Cardinality(RowsOf(k, t)),
                   tokens   |-> SumFunctionOnSet(Charged, RowsOf(k, t))]

\* Every request of the key was let in under limits that count it.
AllCounted(k) ==
  \A r \in Requests : pc[r] # "idle" /\ call[r].key = k => Counted(call[r].policy)

\* The rows of a minute are finitely many, and what they count for are numbers.
LEMMA RowsFinite ==
  ASSUME TablesTypeOK, NEW k, NEW t
  PROVE  /\ IsFiniteSet(RowsOf(k, t))
         /\ RowsOf(k, t) \subseteq IDs
         /\ Numbers(Charged, RowsOf(k, t))
<1>1. RowsOf(k, t) \subseteq IDs
  BY DEF RowsOf
<1>2. IsFiniteSet(RowsOf(k, t))
  BY <1>1, QuotaAssumption, FS_Subset
<1>3. ASSUME NEW i \in IDs PROVE Charged[i] \in Nat
  <2>1. reservations[i] \in Reservation
    BY DEF TablesTypeOK
  <2>2. reservations[i].tokens \in Nat /\ reservations[i].actual \in Nat
    BY <2>1, QuotaAssumption DEF Reservation
  <2>. QED BY <2>2 DEF Charged
<1>. QED BY <1>1, <1>2, <1>3 DEF Numbers

\* A minute whose rows and counters a step leaves alone stays exact.
LEMMA SameMinute ==
  ASSUME TablesTypeOK, NEW k \in Keys, NEW t \in Time, Exact(k, t),
         RowsOf(k, t)' = RowsOf(k, t),
         \A i \in RowsOf(k, t) : Charged'[i] = Charged[i],
         windows'[k][t] = windows[k][t]
  PROVE  Exact(k, t)'
<1>1. SumFunctionOnSet(Charged, RowsOf(k, t)) = SumFunctionOnSet(Charged', RowsOf(k, t))
  <2>1. IsFiniteSet(RowsOf(k, t)) /\ Numbers(Charged, RowsOf(k, t))
    BY RowsFinite
  <2>. QED BY <2>1, SumSame
<1>. QED BY <1>1 DEF Exact

\* An admission adds its row and its estimate to the counters of its minute.
LEMMA AdmissionExact ==
  ASSUME TablesTypeOK, TablesTypeOK',
         NEW k \in Keys, NEW t \in Time, Exact(k, t),
         NEW i \in IDs, NEW l \in Keys, NEW s \in Time, NEW p \in Policies,
         k = l => Counted(p), NEW tokens \in Amounts, NEW cost \in Amounts,
         WriteAdmission(i, l, s, p, tokens, cost)
  PROVE  Exact(k, t)'
<1>. DEFINE u == WindowStart(s)
            cell == [requests |-> windows[l][u].requests + 1,
                     tokens   |-> windows[l][u].tokens + tokens]
<1>1. u \in Time
  BY WindowStartTime
<1>2. /\ reservations[i].status = Absent
      /\ reservations \in [IDs -> Reservation]
      /\ windows \in [Keys -> [Time -> Window]]
      /\ reservations' = [reservations EXCEPT ![i] =
           [status |-> "reserved", key |-> l, at |-> s,
            tokens |-> tokens, cost |-> cost, actual |-> 0]]
  BY DEF WriteAdmission, TablesTypeOK
<1>3. windows' = IF Counted(p) THEN [windows EXCEPT ![l] = [windows[l] EXCEPT ![u] = cell]]
                 ELSE windows
  BY DEF WriteAdmission
<1>4. /\ i \notin RowsOf(k, t)
      /\ \A j \in IDs \ {i} : reservations'[j] = reservations[j]
      /\ reservations'[i].status # Absent /\ reservations'[i].status = "reserved"
      /\ reservations'[i].key = l /\ reservations'[i].at = s
      /\ reservations'[i].tokens = tokens
  BY <1>2 DEF RowsOf, Absent
<1>5. /\ \A j \in IDs \ {i} : Charged'[j] = Charged[j]
      /\ Charged'[i] = tokens
  BY <1>4 DEF Charged
<1>6. CASE k = l /\ t = u
  <2>1. RowsOf(k, t)' = RowsOf(k, t) \cup {i}
    BY <1>4, <1>6 DEF RowsOf
  <2>. DEFINE R == RowsOf(k, t)
              Q == RowsOf(k, t)'
  <2>2. IsFiniteSet(R) /\ Numbers(Charged, R) /\ R \subseteq IDs
    BY RowsFinite
  <2>3. i \notin R /\ Q = R \cup {i}
    BY <1>4, <2>1
  <2>4. windows[k][t] = [requests |-> Cardinality(R), tokens |-> SumFunctionOnSet(Charged, R)]
    BY DEF Exact
  <2>5. windows'[k][t] = cell
    BY <1>1, <1>2, <1>3, <1>6
  <2>. HIDE DEF R, Q
  <2>6. IsFiniteSet(Q) /\ Cardinality(Q) = Cardinality(R) + 1
    BY <2>2, <2>3, FS_AddElement
  <2>7. SumFunctionOnSet(Charged', R) = SumFunctionOnSet(Charged, R)
    <3>1. \A j \in R : Charged[j] = Charged'[j]
      BY <1>5, <2>2, <2>3
    <3>. QED BY <2>2, <3>1, SumSame
  <2>8. SumFunctionOnSet(Charged', Q) = Charged'[i] + SumFunctionOnSet(Charged', Q \ {i})
    <3>1. Numbers(Charged', Q)
      BY <1>5, <2>2, <2>3, QuotaAssumption DEF Numbers
    <3>. QED BY <2>3, <2>6, <3>1, SumMember
  <2>9. Q \ {i} = R
    BY <2>3
  <2>10. SumFunctionOnSet(Charged, R) \in Nat /\ tokens \in Nat
    BY <2>2, SumType, QuotaAssumption
  <2>11. SumFunctionOnSet(Charged', Q) = SumFunctionOnSet(Charged, R) + tokens
    <3>1. SumFunctionOnSet(Charged', Q) = tokens + SumFunctionOnSet(Charged, R)
      BY <1>5, <2>7, <2>8, <2>9, Zenon
    <3>. QED BY <2>10, <3>1
  <2>12. cell = [requests |-> Cardinality(Q), tokens |-> SumFunctionOnSet(Charged', Q)]
    BY <1>6, <2>4, <2>6, <2>11
  <2>. QED BY <2>5, <2>12 DEF Exact, Q
<1>7. CASE ~(k = l /\ t = u)
  <2>1. RowsOf(k, t)' = RowsOf(k, t)
    BY <1>4, <1>7 DEF RowsOf
  <2>2. \A j \in RowsOf(k, t) : Charged'[j] = Charged[j]
    BY <1>4, <1>5 DEF RowsOf
  <2>3. windows'[k][t] = windows[k][t]
    BY <1>1, <1>2, <1>3, <1>7
  <2>. QED BY <2>1, <2>2, <2>3, SameMinute
<1>. QED BY <1>6, <1>7

\* A settlement replaces its row's estimate by the actual tokens in the counter
\* of its minute, which is never cut off at zero.
LEMMA SettlementExact ==
  ASSUME TablesTypeOK, NEW k \in Keys, \A u \in Time : Exact(k, u),
         NEW i \in IDs, NEW actual \in Amounts, NEW failed \in BOOLEAN,
         reservations[i].key \in Keys, WriteSettlement(i, actual, failed),
         NEW t \in Time
  PROVE  Exact(k, t)'
<1>. PICK l \in Keys : l = reservations[i].key
  OBVIOUS
<1>0. WindowStart(reservations[i].at) \in Time
  BY WindowStartTime DEF TablesTypeOK, Reservation
<1>. PICK u \in Time : u = WindowStart(reservations[i].at)
  BY <1>0
<1>. DEFINE n == windows[l][u].tokens + (actual - reservations[i].tokens)
            R == RowsOf(l, u)
<1>1. reservations[i] \in Reservation /\ actual \in Nat
  BY QuotaAssumption DEF TablesTypeOK
<1>2. u \in Time /\ l \in Keys /\ reservations[i].tokens \in Nat
  BY <1>1, WindowStartTime, QuotaAssumption DEF Reservation
<1>3. /\ reservations[i].status = "reserved"
      /\ reservations \in [IDs -> Reservation]
      /\ windows \in [Keys -> [Time -> Window]]
  BY DEF WriteSettlement, TablesTypeOK
<1>4. /\ \A j \in IDs \ {i} : reservations'[j] = reservations[j]
      /\ reservations'[i].status \in {"failed", "settled"}
      /\ reservations'[i].key = l /\ reservations'[i].at = reservations[i].at
      /\ reservations'[i].actual = actual
  <2>. DEFINE status == IF failed THEN "failed" ELSE "settled"
              row == [reservations[i] EXCEPT !.status = status, !.actual = actual]
  <2>1. reservations' = [reservations EXCEPT ![i] = row]
    BY <1>3 DEF WriteSettlement
  <2>2. status \in {"failed", "settled"}
    OBVIOUS
  <2>. HIDE DEF status
  <2>3. row.status = status /\ row.key = l /\ row.at = reservations[i].at /\ row.actual = actual
    BY <1>1 DEF Reservation
  <2>. HIDE DEF row
  <2>. QED BY <1>3, <2>1, <2>2, <2>3
<1>5. \A a \in Keys, b \in Time : RowsOf(a, b)' = RowsOf(a, b)
  BY <1>3, <1>4 DEF RowsOf, Absent
<1>6. /\ \A j \in IDs \ {i} : Charged'[j] = Charged[j]
      /\ Charged'[i] = actual
      /\ Charged[i] = reservations[i].tokens
  BY <1>3, <1>4 DEF Charged
<1>7. CASE k # l
  <2>1. i \notin RowsOf(k, t)
    BY <1>7 DEF RowsOf
  <2>2. \A j \in RowsOf(k, t) : Charged'[j] = Charged[j]
    BY <1>6, <2>1 DEF RowsOf
  <2>3. windows'[k][t] = windows[k][t]
    BY <1>3, <1>7 DEF WriteSettlement
  <2>. QED BY <1>5, <2>2, <2>3, SameMinute
<1>. SUFFICES ASSUME k = l PROVE Exact(k, t)'
  BY <1>7
<1>8. i \in R
  BY <1>3 DEF RowsOf, Absent
<1>9. windows[l][u] = [requests |-> Cardinality(R), tokens |-> SumFunctionOnSet(Charged, R)]
  BY <1>2 DEF Exact
<1>10. IsFiniteSet(R) /\ R \subseteq IDs /\ Numbers(Charged, R)
  BY RowsFinite
<1>11. windows' = IF windows[l][u].requests = 0 THEN windows
                  ELSE [windows EXCEPT ![l][u].tokens = IF n < 0 THEN 0 ELSE n]
  BY DEF WriteSettlement
<1>12. RowsOf(l, u)' = R
  BY <1>2, <1>5
<1>. HIDE DEF R
<1>13. Numbers(Charged', R)
  BY <1>1, <1>6, <1>10 DEF Numbers
<1>14. SumFunctionOnSet(Charged', R) = n /\ n \in Nat
  <2>. DEFINE rest == SumFunctionOnSet(Charged, R \ {i})
  <2>1. IsFiniteSet(R \ {i}) /\ Numbers(Charged, R \ {i})
    BY <1>10, FS_Subset DEF Numbers
  <2>2. SumFunctionOnSet(Charged, R) = Charged[i] + rest
    BY <1>8, <1>10, SumMember
  <2>3. SumFunctionOnSet(Charged', R) = Charged'[i] + SumFunctionOnSet(Charged', R \ {i})
    BY <1>8, <1>10, <1>13, SumMember
  <2>4. rest = SumFunctionOnSet(Charged', R \ {i})
    <3>1. \A j \in R \ {i} : Charged[j] = Charged'[j]
      BY <1>6, <1>10
    <3>. QED BY <2>1, <3>1, SumSame
  <2>5. rest \in Nat
    BY <2>1, SumType
  <2>6. windows[l][u].tokens = SumFunctionOnSet(Charged, R)
    BY <1>9
  <2>. HIDE DEF rest
  <2>. QED BY <1>1, <1>2, <1>6, <2>2, <2>3, <2>4, <2>5, <2>6
<1>15. windows[l][u].requests # 0
  <2>1. Cardinality(R) # 0
    BY <1>8, <1>10, FS_EmptySet
  <2>. QED BY <1>9, <2>1
<1>16. windows' = [windows EXCEPT ![l][u].tokens = n]
  <2>1. (IF n < 0 THEN 0 ELSE n) = n
    BY <1>14
  <2>2. windows' = [windows EXCEPT ![l][u].tokens = IF n < 0 THEN 0 ELSE n]
    BY <1>11, <1>15
  <2>. QED BY <2>1, <2>2
<1>. HIDE DEF n
<1>17. CASE k = l /\ t = u
  <2>1. windows'[k][t] = [windows[l][u] EXCEPT !.tokens = n]
    BY <1>2, <1>3, <1>16, <1>17
  <2>2. windows'[k][t] = [requests |-> Cardinality(R), tokens |-> n]
    BY <1>9, <2>1
  <2>. QED BY <1>12, <1>14, <1>17, <2>2 DEF Exact
<1>18. CASE ~(k = l /\ t = u)
  <2>1. i \notin RowsOf(k, t)
    BY <1>18 DEF RowsOf
  <2>2. \A j \in RowsOf(k, t) : Charged'[j] = Charged[j]
    BY <1>6, <2>1 DEF RowsOf
  <2>3. windows'[k][t] = windows[k][t]
    BY <1>2, <1>3, <1>16, <1>18
  <2>. QED BY <1>5, <2>2, <2>3, SameMinute
<1>. QED BY <1>17, <1>18

\* Every step keeps every minute exact.
LEMMA ExactStep ==
  IInv /\ IInv' /\ WindowsExact /\ [Next]_vars => WindowsExact'
<1>. SUFFICES ASSUME IInv, IInv', WindowsExact, [Next]_vars, NEW k \in Keys, AllCounted(k)',
                     NEW t \in Time
              PROVE  Exact(k, t)'
  BY DEF WindowsExact, AllCounted, Exact
<1>0. Onward
  BY NextOnward
<1>1. \A u \in Time : Exact(k, u)
  <2>1. AllCounted(k)
    BY <1>0 DEF AllCounted, Onward
  <2>. QED BY <2>1 DEF WindowsExact, AllCounted, Exact
<1>2. TablesTypeOK /\ TablesTypeOK'
  BY DEF IInv, TypeOK
<1>3. CASE UNCHANGED <<reservations, windows>>
  BY <1>1, <1>3 DEF Exact, RowsOf, Charged
<1>4. ASSUME NEW r \in Requests, Commit(r) PROVE Exact(k, t)'
  <2>1. call[r] \in CallRecord
    BY <1>4 DEF IInv, TypeOK, Commit
  <2>2. /\ call[r].id \in IDs /\ call[r].key \in Keys /\ call[r].at \in Time
        /\ call[r].policy \in Policies /\ call[r].tokens \in Amounts /\ call[r].cost \in Amounts
    BY <2>1 DEF CallRecord
  <2>3. WriteAdmission(call[r].id, call[r].key, call[r].at, call[r].policy,
                       call[r].tokens, call[r].cost)
    BY <1>4 DEF Commit
  <2>4. k = call[r].key => Counted(call[r].policy)
    BY <1>0, <1>4 DEF AllCounted, Onward, Commit
  <2>. QED BY <1>1, <1>2, <2>2, <2>3, <2>4, AdmissionExact
<1>5. ASSUME NEW r \in Requests, SettleCommit(r), ~UNCHANGED <<reservations, windows>>
      PROVE  Exact(k, t)'
  <2>1. call[r] \in CallRecord /\ outcome[r] \in Outcome
    BY <1>5 DEF IInv, TypeOK, SettleCommit
  <2>2. /\ call[r].id \in IDs /\ outcome[r].tokens \in Amounts /\ outcome[r].failed \in BOOLEAN
        /\ call[r].key \in Keys
    BY <2>1 DEF CallRecord, Outcome
  <2>3. reservations[call[r].id].key \in Keys
    BY <1>5, <2>2 DEF IInv, RowOwned, SettleCommit
  <2>4. WriteSettlement(call[r].id, outcome[r].tokens, outcome[r].failed)
    BY <1>5 DEF SettleCommit
  <2>. QED BY <1>1, <1>2, <2>2, <2>3, <2>4, SettlementExact
<1>6. ASSUME NEW r \in Requests,
             \/ \E c \in Calls : Call(r, c)
             \/ LockReserve(r) \/ CountActive(r) \/ CountWindow(r)
             \/ CheckDaily(r) \/ CheckMonthly(r) \/ DuplicateId(r)
             \/ \E o \in Outcomes : Finish(r, o)
             \/ LockSettle(r) \/ InsertUsage(r) \/ Fault(r)
      PROVE  UNCHANGED <<reservations, windows>>
  BY <1>6 DEF Call, LockReserve, CountActive, CountWindow, CheckDaily, CheckMonthly, DuplicateId,
              Finish, LockSettle, InsertUsage, Fault, Abort, Abandon, SettleError, InsertError,
              TakeLock, Rollback, Continue, Budget, tables
<1>7. ASSUME Crash \/ Tick \/ UNCHANGED vars \/ \E l \in Keys, p \in Policies : SetPolicy(l, p)
      PROVE  UNCHANGED <<reservations, windows>>
  BY <1>7 DEF Crash, Tick, SetPolicy, tables, vars
<1>. QED BY <1>3, <1>4, <1>5, <1>6, <1>7 DEF Next, ReserveNext, SettleNext

\* The counters of every minute (postgres.go rate_limit_windows) of a key whose
\* requests all count are exactly what its reservations add up to, whatever was
\* refused, rolled back, settled twice or lost in between.
THEOREM CountersExact == Spec => []WindowsExact
<1>1. Init => WindowsExact
  <2>. SUFFICES ASSUME Init, NEW k \in Keys, NEW t \in Time PROVE Exact(k, t)
    BY DEF WindowsExact, Exact
  <2>1. RowsOf(k, t) = {}
    BY DEF Init, TablesInit, NoReservation, RowsOf, Absent
  <2>2. TablesTypeOK
    BY InitIInv DEF IInv, TypeOK
  <2>3. SumFunctionOnSet(Charged, RowsOf(k, t)) = 0
    BY <2>1, <2>2, RowsFinite, SumType
  <2>4. windows[k][t] = [requests |-> 0, tokens |-> 0]
    BY DEF Init, TablesInit
  <2>. QED BY <2>1, <2>3, <2>4, FS_EmptySet DEF Exact
<1>2. IInv /\ IInv' /\ WindowsExact /\ [Next]_vars => WindowsExact'
  BY ExactStep
<1>. QED BY <1>1, <1>2, Invariance, PTL DEF Spec

-----------------------------------------------------------------------------
(* Budgets.  A request that was admitted owns the row and the ledger entry  *)
(* of its id; what a key may come to owe since an instant is a sum over ids. *)

Early == {"idle", "lockReserve", "serving"} \cup ReserveSteps
Answering == {"lockSettle", "settle", "insertUsage"}

\* The request was admitted and has not been given up before its answer.
Owns(r) == pc[r] \in Answering \cup {"serving"} \/ outcome[r] # NoOutcome

\* The row and the ledger entry of an owner are its own.
Owned(r) ==
  LET i == call[r].id
  IN  Owns(r) =>
        /\ call[r] \in CallRecord
        /\ reservations[i].status # Absent
        /\ reservations[i].key = call[r].key
        /\ reservations[i].at = call[r].at
        /\ reservations[i].cost = call[r].cost
        /\ pc[r] = "serving" => reservations[i].status = "reserved"
        /\ pc[r] \in Answering \cup {"serving"} => ledger[i].key = Absent
        /\ ledger[i].key # Absent =>
             ledger[i] = [key |-> call[r].key, at |-> outcome[r].at, cost |-> outcome[r].cost]

\* A request has no answer until its upstream call is over, and asked before that.
Dated(r) ==
  /\ pc[r] \in Early => outcome[r] = NoOutcome
  /\ outcome[r] # NoOutcome => call[r].at <= outcome[r].at

OneOwner ==
  \A r, q \in Requests : Owns(r) /\ Owns(q) /\ call[r].id = call[q].id => r = q

Books ==
  /\ \A r \in Requests : Owned(r) /\ Dated(r)
  /\ OneOwner
  /\ \A i \in IDs : reservations[i].status = Absent => ledger[i].key = Absent

\* A request of key k with id i that was admitted before an instant is served.
Straddles(i, k, since) ==
  \E r \in Requests : /\ pc[r] = "serving" /\ call[r].key = k /\ call[r].id = i
                      /\ call[r].at < since

\* What the request of an id has cost or may come to cost since an instant.
Due(i, k, since) ==
  LET own == {r \in Finished(k, since) : call[r].id = i}
  IN  IF own # {} THEN outcome[CHOOSE r \in own : TRUE].cost
      ELSE IF i \in Open(k, since) \/ Straddles(i, k, since)
      THEN reservations[i].cost ELSE 0

Owed(k, since) == SumFunctionOnSet([i \in IDs |-> Due(i, k, since)], IDs)

\* A limit has room for what is owed and some more.
Room(k, since, limit, more) == limit > 0 => Owed(k, since) + more <= limit

\* What a key that misses nothing owes is within the limits it was given.
KeysCanPay ==
  \A k \in Keys \ blind, limit \in Nat :
    /\ LimitedTo(k, "daily", limit) => Room(k, StartOfDay(now), limit, 0)
    /\ LimitedTo(k, "monthly", limit) => Room(k, StartOfMonth(now), limit, 0)

\* So is what it would owe after an admission whose checks are passed.
PassedDay(r) ==
  \A c \in CallRecord : call[r] = c /\ c.cost > 0 /\ c.key \notin blind
    /\ pc[r] \in {"checkMonthly", "commit"} => Room(c.key, StartOfDay(c.at), c.policy.daily, c.cost)

PassedMonth(r) ==
  \A c \in CallRecord : call[r] = c /\ c.cost > 0 /\ c.key \notin blind
    /\ pc[r] = "commit" => Room(c.key, StartOfMonth(c.at), c.policy.monthly, c.cost)

Affordable == KeysCanPay /\ \A r \in Requests : PassedDay(r) /\ PassedMonth(r)

-----------------------------------------------------------------------------
(* Books is kept.                                                           *)

\* What a request is called with is a record once it is not idle.
LEMMA CallIsRecord ==
  ASSUME IInv, Books, NEW r \in Requests
  PROVE  /\ pc[r] \in PC /\ outcome[r] \in Outcome
         /\ pc[r] # "idle" => call[r] \in CallRecord
         /\ Owns(r) => call[r] \in CallRecord
         /\ call[r] \in CallRecord =>
              /\ call[r].key \in Keys /\ call[r].id \in IDs /\ call[r].at \in Time
              /\ call[r].cost \in Nat /\ call[r].policy \in Policies
              /\ call[r].at <= now
<1>1. pc[r] \in PC /\ outcome[r] \in Outcome /\ (pc[r] # "idle" => call[r] \in CallRecord)
  BY DEF IInv, TypeOK
<1>2. Owns(r) => call[r] \in CallRecord
  BY DEF Books, Owned
<1>3. ASSUME call[r] \in CallRecord
      PROVE  /\ call[r].key \in Keys /\ call[r].id \in IDs /\ call[r].at \in Time
             /\ call[r].cost \in Nat /\ call[r].policy \in Policies
             /\ call[r].at <= now
  <2>1. call[r].at <= now
    BY <1>3 DEF IInv, StillRoom
  <2>. QED BY <1>3, <2>1, QuotaAssumption DEF CallRecord
<1>. QED BY <1>1, <1>2, <1>3

\* A step that admits, answers and enters nothing, and closes rows only of
\* requests that are no longer served.
LEMMA KeepsBooks ==
  ASSUME IInv, Books, UNCHANGED <<call, outcome, ledger>>,
         \A q \in Requests : /\ pc'[q] \in Early => pc[q] \in Early
                             /\ pc'[q] \in Answering \cup {"serving"} =>
                                  pc[q] \in Answering \cup {"serving"}
                             /\ pc'[q] = "serving" => pc[q] = "serving"
                             /\ pc'[q] # "idle" => pc[q] # "idle",
         \A i \in IDs : /\ reservations'[i].status = Absent <=> reservations[i].status = Absent
                        /\ reservations'[i].key = reservations[i].key
                        /\ reservations'[i].at = reservations[i].at
                        /\ reservations'[i].cost = reservations[i].cost,
         \A q \in Requests : pc'[q] = "serving" => reservations'[call[q].id].status = "reserved"
  PROVE  Books'
<1>1. \A q \in Requests : Owns(q)' => Owns(q)
  BY DEF Owns
<1>2. OneOwner'
  BY <1>1 DEF Books, OneOwner
<1>3. ASSUME NEW q \in Requests PROVE Dated(q)'
  <2>1. Dated(q)
    BY DEF Books
  <2>. QED BY <2>1 DEF Dated
<1>4. ASSUME NEW q \in Requests PROVE Owned(q)'
  <2>. SUFFICES ASSUME Owns(q)' PROVE Owned(q)'
    BY DEF Owned
  <2>1. Owned(q) /\ Owns(q)
    BY <1>1 DEF Books
  <2>2. call[q] \in CallRecord /\ call[q].id \in IDs
    BY <2>1, CallIsRecord
  <2>. QED BY <2>1, <2>2 DEF Owned
<1>5. \A i \in IDs : reservations'[i].status = Absent => ledger'[i].key = Absent
  BY DEF Books
<1>. QED BY <1>2, <1>3, <1>4, <1>5 DEF Books

\* A request moves on without being admitted.
LEMMA MoveBooks ==
  ASSUME IInv, Books, NEW r \in Requests, NEW label, Goto(r, label), pc[r] # "idle",
         UNCHANGED <<call, outcome, ledger, reservations>>,
         label \in Early => pc[r] \in Early, label # "serving",
         label \in Answering => pc[r] \in Answering
  PROVE  Books'
<1>1. pc \in [Requests -> PC] /\ pc' = [pc EXCEPT ![r] = label]
  BY DEF IInv, TypeOK, Goto
<1>2. \A q \in Requests : pc[q] = "serving" => reservations[call[q].id].status = "reserved"
  BY DEF Books, Owned, Owns
<1>. QED BY <1>1, <1>2, KeepsBooks

\* The steps that move one request, without its answer or its ledger entry.
LEMMA QuietBooks ==
  ASSUME IInv, Books, NEW r \in Requests,
         \/ LockReserve(r) \/ CountActive(r) \/ CountWindow(r) \/ CheckDaily(r)
         \/ CheckMonthly(r) \/ DuplicateId(r) \/ LockSettle(r) \/ Fault(r)
  PROVE  Books'
<1>. USE DEF Early, Answering, ReserveSteps
<1>1. CASE LockReserve(r) \/ LockSettle(r)
  BY <1>1, MoveBooks DEF LockReserve, LockSettle, TakeLock, tables
<1>2. CASE CountActive(r) \/ CountWindow(r)
  BY <1>2, MoveBooks DEF CountActive, CountWindow, Rollback, Continue, tables
<1>3. CASE CheckDaily(r) \/ CheckMonthly(r)
  BY <1>3, MoveBooks DEF CheckDaily, CheckMonthly, Budget, tables
<1>4. CASE DuplicateId(r)
  BY <1>4, MoveBooks DEF DuplicateId, Rollback, tables
<1>5. CASE Fault(r)
  BY <1>5, MoveBooks DEF Fault, Abort, Abandon, SettleError, InsertError, Rollback, Continue, tables
<1>. QED BY <1>1, <1>2, <1>3, <1>4, <1>5

\* A request starts.
LEMMA CallBooks ==
  ASSUME IInv, Books, NEW r \in Requests, NEW c \in Calls, Call(r, c)
  PROVE  Books'
<1>1. /\ pc' = [pc EXCEPT ![r] = "lockReserve"] /\ pc[r] = "idle" /\ pc \in [Requests -> PC]
      /\ UNCHANGED <<outcome, reservations, ledger>>
      /\ \A q \in Requests \ {r} : call'[q] = call[q]
  BY DEF Call, Goto, tables, IInv, TypeOK
<1>2. outcome[r] = NoOutcome
  BY <1>1 DEF Books, Dated, Early
<1>3. /\ \A q \in Requests : Owns(q)' <=> Owns(q)
      /\ ~Owns(r)
  BY <1>1, <1>2 DEF Owns, Answering
<1>4. OneOwner'
  BY <1>1, <1>3 DEF Books, OneOwner
<1>5. ASSUME NEW q \in Requests PROVE Owned(q)' /\ Dated(q)'
  <2>1. Owned(q) /\ Dated(q)
    BY DEF Books
  <2>2. CASE q = r
    BY <1>1, <1>2, <1>3, <2>2 DEF Owned, Dated
  <2>3. CASE q # r
    BY <1>1, <1>3, <2>1, <2>3 DEF Owned, Dated
  <2>. QED BY <2>2, <2>3
<1>. QED BY <1>1, <1>4, <1>5 DEF Books

\* An admission makes the request the owner of an id that nobody owns.
LEMMA CommitBooks ==
  ASSUME IInv, Books, NEW r \in Requests, Commit(r)
  PROVE  Books'
<1>1. /\ pc[r] = "commit" /\ call[r] \in CallRecord /\ call[r].id \in IDs
      /\ pc \in [Requests -> PC] /\ reservations \in [IDs -> Reservation]
      /\ UNCHANGED <<call, outcome, ledger>>
      /\ outcome[r] = NoOutcome
  BY CallIsRecord DEF Commit, IInv, TypeOK, TablesTypeOK, Books, Dated, Early, ReserveSteps
<1>2. PICK label \in {"serving", "failed"} : pc' = [pc EXCEPT ![r] = label]
  BY DEF Commit, Goto
<1>3. /\ reservations[call[r].id].status = Absent
      /\ \A i \in IDs \ {call[r].id} : reservations'[i] = reservations[i]
      /\ reservations'[call[r].id].status = "reserved"
      /\ reservations'[call[r].id].key = call[r].key
      /\ reservations'[call[r].id].at = call[r].at
      /\ reservations'[call[r].id].cost = call[r].cost
  BY <1>1 DEF Commit, WriteAdmission
<1>4. ledger[call[r].id].key = Absent
  BY <1>1, <1>3 DEF Books
<1>5. ASSUME NEW q \in Requests, q # r, Owns(q)' PROVE Owns(q) /\ call[q].id # call[r].id /\ call[q].id \in IDs
  <2>1. Owns(q)
    BY <1>1, <1>2, <1>5 DEF Owns
  <2>2. reservations[call[q].id].status # Absent /\ call[q].id \in IDs
    BY <2>1, CallIsRecord DEF Books, Owned
  <2>. QED BY <1>3, <2>1, <2>2
<1>6. OneOwner'
  BY <1>1, <1>5 DEF Books, OneOwner
<1>7. ASSUME NEW q \in Requests PROVE Dated(q)'
  <2>1. Dated(q) /\ Dated(r)
    BY DEF Books
  <2>. QED BY <1>1, <1>2, <2>1 DEF Dated, Early, ReserveSteps
<1>8. ASSUME NEW q \in Requests PROVE Owned(q)'
  <2>. SUFFICES ASSUME Owns(q)' PROVE Owned(q)'
    BY DEF Owned
  <2>1. CASE q = r
    BY <1>1, <1>3, <1>4, <2>1 DEF Owned, Absent
  <2>2. CASE q # r
    <3>1. Owned(q)
      BY DEF Books
    <3>. QED BY <1>1, <1>2, <1>3, <1>5, <2>2, <3>1 DEF Owned
  <2>. QED BY <2>1, <2>2
<1>9. \A i \in IDs : reservations'[i].status = Absent => ledger'[i].key = Absent
  BY <1>1, <1>3 DEF Books, Absent
<1>. QED BY <1>6, <1>7, <1>8, <1>9 DEF Books

\* An answer costs at most what was estimated, and is not from before the request.
LEMMA FinishBooks ==
  ASSUME IInv, Books, NEW r \in Requests, NEW o \in Outcomes, Finish(r, o)
  PROVE  Books'
<1>1. /\ pc[r] = "serving" /\ call[r] \in CallRecord /\ call[r].at <= now
      /\ pc' = [pc EXCEPT ![r] = "lockSettle"] /\ pc \in [Requests -> PC]
      /\ outcome' = [outcome EXCEPT ![r] =
           [tokens |-> o.tokens, cost |-> o.cost, failed |-> o.failed, at |-> now]]
      /\ DOMAIN outcome = Requests
      /\ UNCHANGED <<call, ledger, reservations>>
  BY CallIsRecord DEF Finish, Goto, tables, IInv, TypeOK
<1>2. /\ outcome'[r].cost = o.cost /\ outcome'[r].at = now
      /\ \A q \in Requests \ {r} : outcome'[q] = outcome[q] /\ pc'[q] = pc[q]
      /\ pc'[r] = "lockSettle"
  BY <1>1
<1>3. \A q \in Requests : Owns(q)' <=> Owns(q)
  BY <1>1, <1>2 DEF Owns, Answering
<1>4. OneOwner'
  BY <1>1, <1>3 DEF Books, OneOwner
<1>5. ASSUME NEW q \in Requests PROVE Owned(q)' /\ Dated(q)'
  <2>1. Owned(q) /\ Dated(q)
    BY DEF Books
  <2>2. CASE q = r
    <3>1. Owned(r) /\ Owns(r)
      BY <1>1, <2>1, <2>2 DEF Owns, Dated
    <3>2. Owned(r)'
      BY <1>1, <1>2, <3>1 DEF Owned, Answering
    <3>3. Dated(r)'
      BY <1>1, <1>2, <2>1, <2>2, <3>1 DEF Dated, Early, ReserveSteps
    <3>. QED BY <2>2, <3>2, <3>3
  <2>3. CASE q # r
    BY <1>1, <1>2, <1>3, <2>1, <2>3 DEF Owned, Dated
  <2>. QED BY <2>2, <2>3
<1>6. \A i \in IDs : reservations'[i].status = Absent => ledger'[i].key = Absent
  BY <1>1 DEF Books
<1>. QED BY <1>4, <1>5, <1>6 DEF Books

\* A settlement closes the settler's own row.
LEMMA SettleBooks ==
  ASSUME IInv, Books, NEW r \in Requests, SettleCommit(r)
  PROVE  Books'
<1>1. /\ pc[r] = "settle" /\ pc \in [Requests -> PC] /\ pc' = [pc EXCEPT ![r] = "insertUsage"]
      /\ UNCHANGED <<call, outcome, ledger>>
      /\ Owns(r) /\ call[r].id \in IDs /\ reservations \in [IDs -> Reservation]
  BY CallIsRecord DEF SettleCommit, Goto, IInv, TypeOK, TablesTypeOK, Owns, Answering
<1>2. /\ \A i \in IDs \ {call[r].id} : reservations'[i] = reservations[i]
      /\ reservations'[call[r].id].status = Absent <=> reservations[call[r].id].status = Absent
      /\ reservations'[call[r].id].key = reservations[call[r].id].key
      /\ reservations'[call[r].id].at = reservations[call[r].id].at
      /\ reservations'[call[r].id].cost = reservations[call[r].id].cost
  <2>. DEFINE i == call[r].id
              status == IF outcome[r].failed THEN "failed" ELSE "settled"
              row == [reservations[i] EXCEPT !.status = status, !.actual = outcome[r].tokens]
  <2>1. CASE UNCHANGED reservations
    BY <2>1
  <2>2. CASE reservations[i].status = "reserved" /\ reservations' = [reservations EXCEPT ![i] = row]
    <3>1. reservations[i] \in Reservation
      BY <1>1
    <3>2. status # Absent
      BY DEF Absent
    <3>. HIDE DEF status
    <3>3. row.status # Absent /\ row.key = reservations[i].key /\ row.at = reservations[i].at
          /\ row.cost = reservations[i].cost
      BY <3>1, <3>2 DEF Reservation
    <3>. HIDE DEF row
    <3>. QED BY <1>1, <2>2, <3>3 DEF Absent
  <2>3. \/ UNCHANGED reservations
        \/ reservations[i].status = "reserved" /\ reservations' = [reservations EXCEPT ![i] = row]
    BY DEF SettleCommit, WriteSettlement
  <2>. QED BY <2>1, <2>2, <2>3
<1>3. ASSUME NEW q \in Requests, pc'[q] = "serving"
      PROVE  reservations'[call[q].id].status = "reserved"
  <2>1. pc[q] = "serving" /\ q # r /\ Owns(q)
    BY <1>1, <1>3 DEF Owns
  <2>2. reservations[call[q].id].status = "reserved" /\ call[q].id \in IDs
    BY <2>1, CallIsRecord DEF Books, Owned
  <2>3. call[q].id # call[r].id
    BY <1>1, <2>1 DEF Books, OneOwner
  <2>. QED BY <1>2, <2>2, <2>3
<1>4. \A q \in Requests : /\ pc'[q] \in Early => pc[q] \in Early
                          /\ pc'[q] \in Answering \cup {"serving"} =>
                               pc[q] \in Answering \cup {"serving"}
                          /\ pc'[q] = "serving" => pc[q] = "serving"
                          /\ pc'[q] # "idle" => pc[q] # "idle"
  BY <1>1 DEF Early, Answering, ReserveSteps
<1>5. \A i \in IDs : /\ reservations'[i].status = Absent <=> reservations[i].status = Absent
                     /\ reservations'[i].key = reservations[i].key
                     /\ reservations'[i].at = reservations[i].at
                     /\ reservations'[i].cost = reservations[i].cost
  BY <1>2
<1>. QED BY <1>1, <1>3, <1>4, <1>5, KeepsBooks

\* The ledger entry of an id is its owner's.
LEMMA InsertBooks ==
  ASSUME IInv, Books, NEW r \in Requests, InsertUsage(r)
  PROVE  Books'
<1>1. /\ pc[r] = "insertUsage" /\ pc \in [Requests -> PC]
      /\ UNCHANGED <<call, outcome, reservations>>
      /\ Owns(r) /\ Owned(r) /\ call[r].id \in IDs /\ ledger \in [IDs -> Entry]
  BY CallIsRecord DEF InsertUsage, IInv, TypeOK, TablesTypeOK, Owns, Answering, Books
<1>2. ledger[call[r].id].key = Absent
  BY <1>1 DEF Owned, Answering
<1>3. /\ pc' = [pc EXCEPT ![r] = "done"]
      /\ ledger' = [ledger EXCEPT ![call[r].id] =
           [key |-> call[r].key, at |-> outcome[r].at, cost |-> outcome[r].cost]]
  BY <1>2 DEF InsertUsage, Goto
<1>4. \A q \in Requests : Owns(q)' => Owns(q)
  BY <1>1, <1>3 DEF Owns, Answering
<1>5. OneOwner'
  BY <1>1, <1>4 DEF Books, OneOwner
<1>6. ASSUME NEW q \in Requests PROVE Dated(q)'
  <2>1. Dated(q)
    BY DEF Books
  <2>. QED BY <1>1, <1>3, <2>1 DEF Dated, Early, ReserveSteps
<1>7. ASSUME NEW q \in Requests PROVE Owned(q)'
  <2>. SUFFICES ASSUME Owns(q)' PROVE Owned(q)'
    BY DEF Owned
  <2>1. Owned(q) /\ Owns(q)
    BY <1>4 DEF Books
  <2>2. CASE q = r
    BY <1>1, <1>3, <2>1, <2>2 DEF Owned, Answering
  <2>3. CASE q # r
    <3>1. call[q].id # call[r].id /\ call[q].id \in IDs
      BY <1>1, <2>1, <2>3, CallIsRecord DEF Books, OneOwner
    <3>. QED BY <1>1, <1>3, <2>1, <2>3, <3>1 DEF Owned
  <2>. QED BY <2>2, <2>3
<1>8. \A i \in IDs : reservations'[i].status = Absent => ledger'[i].key = Absent
  <2>1. reservations[call[r].id].status # Absent
    BY <1>1 DEF Owned
  <2>. QED BY <1>1, <1>3, <2>1 DEF Books
<1>. QED BY <1>5, <1>6, <1>7, <1>8 DEF Books

\* A crash, an edit of the limits and the clock.
LEMMA WorldBooks ==
  ASSUME IInv, Books, Crash \/ Tick \/ UNCHANGED vars \/ (\E k \in Keys, p \in Policies : SetPolicy(k, p))
  PROVE  Books'
<1>1. UNCHANGED <<call, outcome, ledger, reservations>>
  BY DEF Crash, SetPolicy, Tick, tables, vars
<1>2. \A q \in Requests : pc'[q] = pc[q] \/ (pc'[q] = "dead" /\ pc[q] # "idle")
  BY DEF Crash, SetPolicy, Tick, vars
<1>3. \A q \in Requests : pc[q] = "serving" => reservations[call[q].id].status = "reserved"
  BY DEF Books, Owned, Owns
<1>4. \A q \in Requests : /\ pc'[q] \in Early => pc[q] \in Early
                          /\ pc'[q] \in Answering \cup {"serving"} =>
                               pc[q] \in Answering \cup {"serving"}
                          /\ pc'[q] = "serving" => pc[q] = "serving"
                          /\ pc'[q] # "idle" => pc[q] # "idle"
  BY <1>2 DEF Early, Answering, ReserveSteps
<1>. QED BY <1>1, <1>3, <1>4, KeepsBooks

\* Every step keeps the books.
LEMMA NextBooks == IInv /\ Books /\ [Next]_vars => Books'
BY CallBooks, QuietBooks, CommitBooks, FinishBooks, SettleBooks, InsertBooks, WorldBooks
   DEF Next, ReserveNext, SettleNext

\* They are kept from the start.
LEMMA InitBooks == Init => Books
<1>. SUFFICES ASSUME Init PROVE Books
  OBVIOUS
<1>1. \A r \in Requests : pc[r] = "idle" /\ outcome[r] = NoOutcome
  BY DEF Init
<1>2. \A r \in Requests : ~Owns(r)
  BY <1>1 DEF Owns, Answering
<1>3. \A i \in IDs : ledger[i].key = Absent
  BY DEF Init, TablesInit, NoEntry
<1>. QED BY <1>1, <1>2, <1>3 DEF Books, Owned, Dated, OneOwner

-----------------------------------------------------------------------------
(* What an id owes.                                                         *)

\* Instants and costs are numbers.
LEMMA RowNumbers ==
  ASSUME IInv
  PROVE  /\ \A i \in IDs : reservations[i].at \in Int /\ reservations[i].cost \in Nat
         /\ \A r \in Requests : outcome[r].at \in Int /\ outcome[r].cost \in Nat
<1>1. Time \subseteq Int
  BY DEF Time
<1>2. ASSUME NEW i \in IDs PROVE reservations[i].at \in Int /\ reservations[i].cost \in Nat
  <2>1. reservations[i] \in Reservation
    BY DEF IInv, TypeOK, TablesTypeOK
  <2>. QED BY <1>1, <2>1, QuotaAssumption DEF Reservation
<1>3. ASSUME NEW r \in Requests PROVE outcome[r].at \in Int /\ outcome[r].cost \in Nat
  <2>1. outcome[r] \in Outcome
    BY DEF IInv, TypeOK
  <2>. QED BY <1>1, <2>1, QuotaAssumption DEF Outcome
<1>. QED BY <1>2, <1>3

\* A finished request owes its cost.
LEMMA DueOfFinished ==
  ASSUME IInv, Books, NEW k, NEW since, NEW r \in Finished(k, since)
  PROVE  Due(call[r].id, k, since) = outcome[r].cost
<1>. DEFINE own == {q \in Finished(k, since) : call[q].id = call[r].id}
<1>1. r \in own
  OBVIOUS
<1>2. \A q \in own : q = r
  BY DEF Finished, Books, OneOwner, Owns
<1>3. (CHOOSE q \in own : TRUE) = r
  BY <1>1, <1>2
<1>4. own # {}
  BY <1>1
<1>. QED BY <1>3, <1>4 DEF Due

\* An id without a finished request owes its row's estimate while its request may
\* still cost something, or nothing.
LEMMA DueOfOthers ==
  ASSUME NEW i, NEW k, NEW since, \A r \in Finished(k, since) : call[r].id # i
  PROVE  Due(i, k, since) = IF i \in Open(k, since) \/ Straddles(i, k, since)
                            THEN reservations[i].cost ELSE 0
<1>1. {r \in Finished(k, since) : call[r].id = i} = {}
  OBVIOUS
<1>. QED BY <1>1 DEF Due

\* What is owed is a number.
LEMMA DueType ==
  ASSUME IInv, Books, NEW i \in IDs, NEW k, NEW since
  PROVE  Due(i, k, since) \in Nat
<1>1. reservations[i].cost \in Nat
  BY QuotaAssumption DEF IInv, TypeOK, TablesTypeOK, Reservation
<1>2. \A r \in Requests : outcome[r].cost \in Nat
  BY QuotaAssumption DEF IInv, TypeOK, Outcome
<1>3. CASE \E r \in Finished(k, since) : call[r].id = i
  BY <1>2, <1>3, DueOfFinished DEF Finished
<1>4. CASE \A r \in Finished(k, since) : call[r].id # i
  BY <1>1, <1>4, DueOfOthers
<1>. QED BY <1>3, <1>4

\* Dues that are not greater add up to no more.
LEMMA OwedMono ==
  ASSUME IInv, Books, NEW k, NEW l, NEW since, NEW s,
         \A i \in IDs : Due(i, l, s) <= Due(i, k, since)
  PROVE  Owed(l, s) <= Owed(k, since) /\ Owed(l, s) \in Nat /\ Owed(k, since) \in Nat
<1>. DEFINE w == [i \in IDs |-> Due(i, l, s)]
            v == [i \in IDs |-> Due(i, k, since)]
<1>1. Numbers(w, IDs) /\ Numbers(v, IDs)
  BY DueType DEF Numbers
<1>2. \A i \in IDs : w[i] <= v[i]
  OBVIOUS
<1>. HIDE DEF w, v
<1>3. SumFunctionOnSet(w, IDs) <= SumFunctionOnSet(v, IDs)
  BY <1>1, <1>2, QuotaAssumption, SumMono
<1>4. SumFunctionOnSet(w, IDs) \in Nat /\ SumFunctionOnSet(v, IDs) \in Nat
  BY <1>1, QuotaAssumption, SumType
<1>. QED BY <1>3, <1>4 DEF Owed, w, v

\* Since a later instant, no more is owed.
LEMMA OwedLater ==
  ASSUME IInv, Books, NEW k, NEW since \in Int, NEW s \in Int, since <= s
  PROVE  Owed(k, s) <= Owed(k, since)
<1>1. Finished(k, s) \subseteq Finished(k, since)
  BY DEF Finished, IInv, TypeOK, Outcome, Time
<1>2. ASSUME NEW i \in IDs PROVE Due(i, k, s) <= Due(i, k, since)
  <2>1. CASE \E r \in Finished(k, s) : call[r].id = i
    <3>1. PICK r \in Finished(k, s) : call[r].id = i
      BY <2>1
    <3>2. Due(i, k, s) = outcome[r].cost /\ Due(i, k, since) = outcome[r].cost
      BY <1>1, <3>1, DueOfFinished
    <3>3. Due(i, k, s) \in Nat
      BY DueType
    <3>. QED BY <3>2, <3>3
  <2>2. CASE \A r \in Finished(k, s) : call[r].id # i
    <3>. DEFINE live == i \in Open(k, s) \/ Straddles(i, k, s)
    <3>1. Due(i, k, s) = IF live THEN reservations[i].cost ELSE 0
      BY <2>2, DueOfOthers
    <3>2. Due(i, k, since) \in Nat
      BY DueType
    <3>3. CASE ~live
      BY <3>1, <3>2, <3>3
    <3>4. CASE live
      <4>1. reservations[i].at \in Int /\ reservations[i].cost \in Nat
        BY RowNumbers
      <4>2. ASSUME NEW r \in Finished(k, since), call[r].id = i PROVE FALSE
        <5>1. /\ r \in Requests /\ outcome[r] # NoOutcome /\ Owns(r)
              /\ reservations[i].at = call[r].at /\ call[r].at <= outcome[r].at
              /\ outcome[r].at \in Int
          BY <4>2, RowNumbers DEF Finished, Owns, Books, Owned, Dated
        <5>2. ~(outcome[r].at >= s)
          BY <2>2, <4>2, <5>1 DEF Finished
        <5>3. CASE i \in Open(k, s)
          BY <4>1, <5>1, <5>2, <5>3 DEF Open
        <5>4. CASE Straddles(i, k, s)
          <6>1. PICK q \in Requests : pc[q] = "serving" /\ call[q].id = i
            BY <5>4 DEF Straddles
          <6>2. q = r /\ outcome[q] = NoOutcome
            BY <4>2, <5>1, <6>1 DEF Books, OneOwner, Owns, Dated, Early
          <6>. QED BY <5>1, <6>2
        <5>. QED BY <3>4, <5>3, <5>4
      <4>3. i \in Open(k, since) \/ Straddles(i, k, since)
        <5>1. CASE i \in Open(k, s)
          BY <4>1, <4>2, <5>1 DEF Open
        <5>2. CASE Straddles(i, k, s)
          <6>1. PICK q \in Requests : /\ pc[q] = "serving" /\ call[q].key = k /\ call[q].id = i
                                      /\ call[q].at < s
            BY <5>2 DEF Straddles
          <6>2. /\ Owns(q) /\ reservations[i].status = "reserved" /\ reservations[i].key = k
                /\ reservations[i].at = call[q].at
            BY <6>1 DEF Books, Owned, Owns
          <6>3. CASE call[q].at < since
            BY <6>1, <6>3 DEF Straddles
          <6>4. CASE ~(call[q].at < since)
            <7>1. reservations[i].at >= since
              BY <4>1, <6>2, <6>4
            <7>. QED BY <4>2, <6>2, <7>1 DEF Open
          <6>. QED BY <6>3, <6>4
        <5>. QED BY <3>4, <5>1, <5>2
      <4>4. Due(i, k, since) = reservations[i].cost
        BY <4>2, <4>3, DueOfOthers
      <4>. QED BY <3>1, <3>4, <4>1, <4>4
    <3>. QED BY <3>3, <3>4
  <2>. QED BY <2>1, <2>2
<1>. QED BY <1>2, OwedMono

\* What has been spent or is committed is no more than what is owed.
LEMMA ExposureIsOwed ==
  ASSUME IInv, Books, NEW k, NEW since
  PROVE  Exposure(k, since) <= Owed(k, since) /\ Exposure(k, since) \in Nat
<1>. DEFINE F == Finished(k, since)
            A == Open(k, since)
            id == [r \in Requests |-> call[r].id]
            cost == [r \in Requests |-> outcome[r].cost]
            est == [i \in IDs |-> reservations[i].cost]
            due == [i \in IDs |-> Due(i, k, since)]
            P == ImageOf(id, F)
            due1 == [i \in IDs |-> IF i \in P THEN due[i] ELSE 0]
            est1 == [i \in IDs |-> IF i \in A THEN est[i] ELSE 0]
            both == [i \in IDs |-> due1[i] + est1[i]]
<1>1. F \subseteq Requests /\ IsFiniteSet(F) /\ A \subseteq IDs /\ IsFiniteSet(IDs)
  <2>1. F \subseteq IDs /\ F \subseteq Requests
    BY QuotaStoreAssumption DEF Finished
  <2>. QED BY <2>1, QuotaAssumption, FS_Subset DEF Open
<1>2. P \in SUBSET IDs /\ IsFiniteSet(P)
  <2>1. \A r \in F : id[r] \in IDs
    BY CallIsRecord DEF Finished, Owns
  <2>2. P \subseteq IDs
    BY <2>1 DEF ImageOf
  <2>. QED BY <1>1, <2>2, FS_Subset
<1>3. NoTwo(id, F)
  BY DEF NoTwo, Finished, Books, OneOwner, Owns
<1>4. \A r \in F : cost[r] = due[id[r]]
  <2>. SUFFICES ASSUME NEW r \in F PROVE cost[r] = due[id[r]]
    OBVIOUS
  <2>1. r \in Requests /\ call[r].id \in IDs
    BY CallIsRecord DEF Finished, Owns
  <2>2. Due(call[r].id, k, since) = outcome[r].cost
    BY DueOfFinished
  <2>. QED BY <2>1, <2>2
<1>5. Numbers(due, IDs) /\ Numbers(est, A)
  <2>1. \A i \in IDs : reservations[i].cost \in Nat
    BY QuotaAssumption DEF IInv, TypeOK, TablesTypeOK, Reservation
  <2>. QED BY <1>1, <2>1, DueType DEF Numbers
<1>6. \A i \in IDs : both[i] <= due[i] /\ both[i] \in Nat /\ due1[i] \in Nat /\ est1[i] \in Nat
  <2>. SUFFICES ASSUME NEW i \in IDs
                PROVE  both[i] <= due[i] /\ both[i] \in Nat /\ due1[i] \in Nat /\ est1[i] \in Nat
    OBVIOUS
  <2>1. Due(i, k, since) \in Nat
    BY DueType
  <2>2. reservations[i].cost \in Nat
    BY QuotaAssumption DEF IInv, TypeOK, TablesTypeOK, Reservation
  <2>3. CASE i \in P
    <3>1. i \notin A
      BY <2>3 DEF ImageOf, Open, Finished
    <3>. HIDE DEF P, A
    <3>. QED BY <2>1, <2>3, <3>1
  <2>4. CASE i \notin P
    <3>1. \A r \in F : call[r].id # i
      BY <1>1, <2>4 DEF ImageOf
    <3>2. i \in A => Due(i, k, since) = reservations[i].cost
      BY <3>1, DueOfOthers
    <3>. HIDE DEF P, A
    <3>. QED BY <2>1, <2>2, <2>4, <3>2
  <2>. QED BY <2>3, <2>4
<1>7. \A i \in IDs : /\ due1[i] = IF i \in P THEN due[i] ELSE 0
                     /\ est1[i] = IF i \in A THEN est[i] ELSE 0
                     /\ both[i] = due1[i] + est1[i]
  <2>. HIDE DEF P, A, due, est
  <2>. QED OBVIOUS
<1>. HIDE DEF F, A, id, cost, est, due, P, due1, est1, both
<1>8. SumFunctionOnSet(cost, F) = SumFunctionOnSet(due, P)
  <2>1. Numbers(due, P)
    BY <1>2, <1>5 DEF Numbers
  <2>. QED BY <1>1, <1>2, <1>3, <1>4, <2>1, SumRename DEF P
<1>9. SumFunctionOnSet(due, P) = SumFunctionOnSet(due1, IDs)
  <2>1. Numbers(due, P)
    BY <1>2, <1>5 DEF Numbers
  <2>. QED BY <1>1, <1>2, <1>7, <2>1, SumMask
<1>10. SumFunctionOnSet(est, A) = SumFunctionOnSet(est1, IDs)
  BY <1>1, <1>5, <1>7, SumMask
<1>11. Numbers(due1, IDs) /\ Numbers(est1, IDs) /\ Numbers(both, IDs)
  BY <1>6 DEF Numbers
<1>12. SumFunctionOnSet(both, IDs) = SumFunctionOnSet(due1, IDs) + SumFunctionOnSet(est1, IDs)
  BY <1>1, <1>7, <1>11, SumPlus
<1>13. SumFunctionOnSet(both, IDs) <= SumFunctionOnSet(due, IDs)
  BY <1>1, <1>5, <1>6, <1>11, SumMono
<1>14. Exposure(k, since) = SumFunctionOnSet(cost, F) + SumFunctionOnSet(est, A)
  BY DEF Exposure, cost, F, est, A
<1>15. Owed(k, since) = SumFunctionOnSet(due, IDs)
  BY DEF Owed, due
<1>16. SumFunctionOnSet(due1, IDs) \in Nat /\ SumFunctionOnSet(est1, IDs) \in Nat
  BY <1>1, <1>11, SumType
<1>. QED BY <1>8, <1>9, <1>10, <1>12, <1>13, <1>14, <1>15, <1>16

\* What a budget check that misses nothing sees is no less than what is owed.
LEMMA SeenIsOwed ==
  ASSUME IInv, Books, EstimatesHold, NEW k \in Keys, NEW since \in Time, Unseen(k, since) = {}
  PROVE  Owed(k, since) <= SpentSince(k, since) /\ SpentSince(k, since) \in Nat
<1>. DEFINE L == {i \in IDs : ledger[i].key = k /\ ledger[i].at >= since}
            A == {i \in IDs : /\ reservations[i].status = "reserved"
                              /\ reservations[i].key = k
                              /\ reservations[i].at >= since}
            paid == [i \in IDs |-> ledger[i].cost]
            est == [i \in IDs |-> reservations[i].cost]
            due == [i \in IDs |-> Due(i, k, since)]
            paid1 == [i \in IDs |-> IF i \in L THEN paid[i] ELSE 0]
            est1 == [i \in IDs |-> IF i \in A THEN est[i] ELSE 0]
            both == [i \in IDs |-> paid1[i] + est1[i]]
<1>1. L \in SUBSET IDs /\ A \in SUBSET IDs /\ IsFiniteSet(IDs)
  BY QuotaAssumption
<1>2. \A i \in IDs : ledger[i].cost \in Nat /\ reservations[i].cost \in Nat
  BY QuotaAssumption DEF IInv, TypeOK, TablesTypeOK, Reservation, Entry
<1>3. Numbers(paid, L) /\ Numbers(est, A) /\ Numbers(due, IDs)
  BY <1>1, <1>2, DueType DEF Numbers
<1>4. \A i \in IDs : /\ paid1[i] = IF i \in L THEN paid[i] ELSE 0
                     /\ est1[i] = IF i \in A THEN est[i] ELSE 0
                     /\ both[i] = paid1[i] + est1[i]
                     /\ paid[i] = ledger[i].cost
                     /\ est[i] = reservations[i].cost
                     /\ due[i] = Due(i, k, since)
  <2>. HIDE DEF L, A
  <2>. QED OBVIOUS
<1>. HIDE DEF paid, est, due, paid1, est1, both
<1>5. \A i \in IDs : paid1[i] \in Nat /\ est1[i] \in Nat /\ both[i] \in Nat
  BY <1>2, <1>4
<1>6. ASSUME NEW i \in IDs PROVE due[i] <= both[i]
  <2>1. CASE \E r \in Finished(k, since) : call[r].id = i
    <3>1. PICK r \in Finished(k, since) : call[r].id = i
      BY <2>1
    <3>2. /\ r \in Requests /\ call[r].key = k /\ outcome[r] # NoOutcome
          /\ outcome[r].at >= since /\ Owns(r) /\ Owned(r) /\ Dated(r)
          /\ outcome[r].cost \in Nat
          /\ call[r].at \in Int /\ call[r].cost \in Nat
      <4>1. r \in Requests /\ Owns(r)
        BY <3>1 DEF Finished, Owns
      <4>2. call[r].at \in Int /\ call[r].cost \in Nat
        BY <4>1, CallIsRecord DEF Time
      <4>. QED BY <3>1, <4>1, <4>2, RowNumbers DEF Finished, Books
    <3>3. due[i] = outcome[r].cost
      BY <1>4, <3>1, DueOfFinished
    <3>4. CASE outcome[r].cost = 0
      BY <1>5, <3>3, <3>4
    <3>5. CASE ledger[i].key # Absent
      <4>1. i \in L /\ ledger[i].cost = outcome[r].cost
        BY <3>1, <3>2, <3>5 DEF Owned
      <4>2. paid1[i] = outcome[r].cost
        BY <1>4, <4>1
      <4>. QED BY <1>4, <1>5, <3>2, <3>3, <4>2
    <3>6. CASE outcome[r].cost # 0 /\ ledger[i].key = Absent
      <4>1. outcome[r].cost > 0
        BY <3>2, <3>6
      <4>2. r \notin Unseen(k, since)
        OBVIOUS
      <4>3. reservations[i].status = "reserved" /\ ~(call[r].at < since)
        BY <3>1, <3>2, <3>6, <4>1, <4>2 DEF Unseen
      <4>4. /\ reservations[i].key = k /\ reservations[i].at >= since
            /\ reservations[i].cost = call[r].cost
        BY <3>1, <3>2, <4>3 DEF Owned, Time
      <4>5. i \in A
        BY <4>3, <4>4
      <4>6. est1[i] = call[r].cost
        BY <1>4, <4>4, <4>5
      <4>7. outcome[r].cost <= call[r].cost
        BY <3>2 DEF EstimatesHold
      <4>. QED BY <1>4, <1>5, <3>2, <3>3, <4>6, <4>7
    <3>. QED BY <3>4, <3>5, <3>6
  <2>2. CASE \A r \in Finished(k, since) : call[r].id # i
    <3>1. Due(i, k, since) = IF i \in Open(k, since) \/ Straddles(i, k, since)
                             THEN reservations[i].cost ELSE 0
      BY <2>2, DueOfOthers
    <3>2. ASSUME Straddles(i, k, since) PROVE FALSE
      <4>1. PICK r \in Requests : /\ pc[r] = "serving" /\ call[r].key = k /\ call[r].id = i
                                  /\ call[r].at < since
        BY <3>2 DEF Straddles
      <4>2. ledger[i].key = Absent
        BY <4>1 DEF Books, Owned, Owns
      <4>3. r \in Unseen(k, since)
        BY <4>1, <4>2 DEF Unseen
      <4>. QED BY <4>3
    <3>3. i \in Open(k, since) => i \in A
      BY DEF Open
    <3>4. i \in A => est1[i] = reservations[i].cost
      BY <1>4
    <3>. QED BY <1>2, <1>4, <1>5, <3>1, <3>2, <3>3, <3>4
  <2>. QED BY <2>1, <2>2
<1>7. SpentSince(k, since) = SumFunctionOnSet(paid, L) + SumFunctionOnSet(est, A)
  BY DEF SpentSince, LedgerSince, ReservedSince, paid, est
<1>. HIDE DEF L, A
<1>8. SumFunctionOnSet(paid, L) = SumFunctionOnSet(paid1, IDs)
  BY <1>1, <1>3, <1>4, SumMask
<1>9. SumFunctionOnSet(est, A) = SumFunctionOnSet(est1, IDs)
  BY <1>1, <1>3, <1>4, SumMask
<1>10. Numbers(paid1, IDs) /\ Numbers(est1, IDs) /\ Numbers(both, IDs)
  BY <1>5 DEF Numbers
<1>11. SumFunctionOnSet(both, IDs) = SumFunctionOnSet(paid1, IDs) + SumFunctionOnSet(est1, IDs)
  BY <1>1, <1>4, <1>10, SumPlus
<1>12. SumFunctionOnSet(due, IDs) <= SumFunctionOnSet(both, IDs)
  BY <1>1, <1>3, <1>6, <1>10, SumMono
<1>13. Owed(k, since) = SumFunctionOnSet(due, IDs)
  BY DEF Owed, due
<1>14. SumFunctionOnSet(both, IDs) \in Nat
  BY <1>1, <1>10, SumType
<1>. QED BY <1>7, <1>8, <1>9, <1>11, <1>12, <1>13, <1>14

-----------------------------------------------------------------------------
(* What a step does to what is owed.                                        *)

\* Truncated instants keep their order.
LEMMA TruncatedInOrder ==
  ASSUME NEW len \in Nat \ {0}, NEW t \in Nat, NEW u \in Nat, t <= u
  PROVE  t - (t % len) <= u - (u % len)
<1>. DEFINE q == t \div len
            p == u \div len
<1>1. t = len * q + (t % len) /\ u = len * p + (u % len)
  OBVIOUS
<1>2. /\ q \in Int /\ p \in Int
      /\ t % len \in 0 .. (len - 1) /\ u % len \in 0 .. (len - 1)
  OBVIOUS
<1>. HIDE DEF q, p
<1>3. CASE q <= p
  <2>1. PICK d \in Nat : p = q + d
    <3>1. p - q \in Nat /\ p = q + (p - q)
      BY <1>2, <1>3
    <3>. QED BY <3>1
  <2>2. len * p = len * q + len * d
    BY <1>2, <2>1, SMTT(30)
  <2>3. len * d \in Nat
    BY <2>1, SMTT(30)
  <2>4. len * q \in Int /\ len * p \in Int
    BY <1>2, SMTT(30)
  <2>. QED BY <1>1, <1>2, <2>2, <2>3, <2>4
<1>4. CASE p < q
  <2>1. PICK d \in Nat : q = p + 1 + d
    <3>1. q - p - 1 \in Nat /\ q = p + 1 + (q - p - 1)
      BY <1>2, <1>4
    <3>. QED BY <3>1
  <2>2. len * q = len * p + len + len * d
    BY <1>2, <2>1, SMTT(30)
  <2>3. len * d \in Nat
    BY <2>1, SMTT(30)
  <2>4. len * q \in Int /\ len * p \in Int
    BY <1>2, SMTT(30)
  <2>5. t > u
    BY <1>1, <1>2, <2>2, <2>3, <2>4
  <2>. QED BY <2>5
<1>. QED BY <1>2, <1>3, <1>4

\* Days and months start at instants, in order.
LEMMA StartsInOrder ==
  /\ \A t \in Time : /\ StartOfDay(t) \in Time /\ StartOfDay(t) <= t
                     /\ StartOfMonth(t) \in Time /\ StartOfMonth(t) <= t
  /\ \A t, u \in Time : t <= u => /\ StartOfDay(t) <= StartOfDay(u)
                                  /\ StartOfMonth(t) <= StartOfMonth(u)
<1>1. Time \subseteq Nat /\ DayLen \in Nat \ {0} /\ MonthLen \in Nat \ {0}
  BY QuotaAssumption DEF Time
<1>2. ASSUME NEW t \in Time
      PROVE  /\ StartOfDay(t) \in Time /\ StartOfDay(t) <= t
             /\ StartOfMonth(t) \in Time /\ StartOfMonth(t) <= t
  <2>1. t % DayLen \in 0..t /\ t % MonthLen \in 0..t
    BY <1>1, RemainderBound
  <2>. HIDE DEF StartOfDay
  <2>. QED BY <2>1, QuotaAssumption DEF StartOfDay, StartOfMonth, Time
<1>3. ASSUME NEW t \in Time, NEW u \in Time, t <= u
      PROVE  StartOfDay(t) <= StartOfDay(u) /\ StartOfMonth(t) <= StartOfMonth(u)
  BY <1>1, <1>3, TruncatedInOrder DEF StartOfDay, StartOfMonth
<1>. QED BY <1>2, <1>3

\* Where no id owes more, no more is owed.
LEMMA OwedStep ==
  ASSUME IInv, Books, NEW k, NEW since,
         \A i \in IDs : Due(i, k, since)' \in Nat /\ Due(i, k, since)' <= Due(i, k, since)
  PROVE  Owed(k, since)' <= Owed(k, since) /\ Owed(k, since)' \in Nat /\ Owed(k, since) \in Nat
<1>. DEFINE w == [i \in IDs |-> Due(i, k, since)']
            v == [i \in IDs |-> Due(i, k, since)]
<1>1. Numbers(w, IDs) /\ Numbers(v, IDs)
  BY DueType DEF Numbers
<1>2. \A i \in IDs : w[i] <= v[i]
  OBVIOUS
<1>3. Owed(k, since)' = SumFunctionOnSet(w, IDs) /\ Owed(k, since) = SumFunctionOnSet(v, IDs)
  BY DEF Owed
<1>. HIDE DEF w, v
<1>4. SumFunctionOnSet(w, IDs) <= SumFunctionOnSet(v, IDs)
  BY <1>1, <1>2, QuotaAssumption, SumMono
<1>5. SumFunctionOnSet(w, IDs) \in Nat /\ SumFunctionOnSet(v, IDs) \in Nat
  BY <1>1, QuotaAssumption, SumType
<1>. QED BY <1>3, <1>4, <1>5

\* Where one id owes more, by so much, no more than that is added.
LEMMA OwedAdds ==
  ASSUME IInv, Books, NEW k, NEW since, NEW j \in IDs, NEW more \in Nat,
         \A i \in IDs : Due(i, k, since)' \in Nat,
         \A i \in IDs \ {j} : Due(i, k, since)' <= Due(i, k, since),
         Due(j, k, since)' <= Due(j, k, since) + more
  PROVE  /\ Owed(k, since)' <= Owed(k, since) + more
         /\ Owed(k, since)' \in Nat /\ Owed(k, since) \in Nat
<1>. DEFINE w == [i \in IDs |-> Due(i, k, since)']
            v == [i \in IDs |-> Due(i, k, since)]
            z == [i \in IDs |-> IF i = j THEN v[i] + more ELSE v[i]]
<1>1. Numbers(w, IDs) /\ Numbers(v, IDs)
  BY DueType DEF Numbers
<1>2. \A i \in IDs : w[i] <= z[i]
  OBVIOUS
<1>3. Owed(k, since)' = SumFunctionOnSet(w, IDs) /\ Owed(k, since) = SumFunctionOnSet(v, IDs)
  BY DEF Owed
<1>4. z[j] = v[j] + more /\ \A i \in IDs \ {j} : z[i] = v[i]
  OBVIOUS
<1>. HIDE DEF w, v, z
<1>5. Numbers(z, IDs)
  BY <1>1, <1>4 DEF Numbers
<1>6. SumFunctionOnSet(w, IDs) <= SumFunctionOnSet(z, IDs)
  BY <1>1, <1>2, <1>5, QuotaAssumption, SumMono
<1>7. Splits(z, IDs, j) /\ Splits(v, IDs, j)
  BY <1>1, <1>5, QuotaAssumption, SumSplits
<1>8. SumFunctionOnSet(v, IDs \ {j}) = SumFunctionOnSet(z, IDs \ {j})
  <2>1. IsFiniteSet(IDs \ {j}) /\ Numbers(v, IDs \ {j})
    BY <1>1, QuotaAssumption, FS_Subset DEF Numbers
  <2>. QED BY <1>4, <2>1, SumSame
<1>9. SumFunctionOnSet(z, IDs) = SumFunctionOnSet(v, IDs) + more
  BY <1>4, <1>7, <1>8 DEF Splits
<1>10. SumFunctionOnSet(w, IDs) \in Nat /\ SumFunctionOnSet(v, IDs) \in Nat
  BY <1>1, QuotaAssumption, SumType
<1>. QED BY <1>3, <1>6, <1>9, <1>10

\* A step that neither admits nor answers adds to no id's dues.
LEMMA QuietDue ==
  ASSUME IInv, Books, Books', UNCHANGED outcome, NEW k, NEW since, NEW i \in IDs,
         \A r \in Requests :
           /\ outcome[r] # NoOutcome \/ pc'[r] = "serving" => call'[r] = call[r]
           /\ pc'[r] = "serving" => pc[r] = "serving",
         reservations'[i] = reservations[i] \/ reservations'[i].status # "reserved"
  PROVE  Due(i, k, since)' \in Nat /\ Due(i, k, since)' <= Due(i, k, since)
<1>. DEFINE own == {r \in Finished(k, since) : call[r].id = i}
            own1 == {r \in Finished(k, since)' : call'[r].id = i}
<1>1. Finished(k, since)' = Finished(k, since)
  BY DEF Finished
<1>2. own1 = own
  BY <1>1 DEF Finished
<1>3. Due(i, k, since) \in Nat
  BY DueType
<1>4. CASE own # {}
  <2>1. (CHOOSE r \in own : TRUE) \in own
    BY <1>4
  <2>2. Due(i, k, since)' = IF own1 # {} THEN outcome[CHOOSE r \in own1 : TRUE].cost
                            ELSE IF i \in Open(k, since)' \/ Straddles(i, k, since)'
                            THEN reservations'[i].cost ELSE 0
    BY DEF Due
  <2>3. Due(i, k, since) = outcome[CHOOSE r \in own : TRUE].cost
    BY <1>4 DEF Due
  <2>. HIDE DEF own, own1
  <2>. QED BY <1>2, <1>3, <1>4, <2>2, <2>3
<1>5. CASE own = {}
  <2>1. Due(i, k, since)' = IF i \in Open(k, since)' \/ Straddles(i, k, since)'
                            THEN reservations'[i].cost ELSE 0
    BY <1>2, <1>5 DEF Due
  <2>2. Due(i, k, since) = IF i \in Open(k, since) \/ Straddles(i, k, since)
                           THEN reservations[i].cost ELSE 0
    BY <1>5 DEF Due
  <2>3. CASE i \in Open(k, since)'
    <3>1. i \in Open(k, since) /\ reservations'[i] = reservations[i]
      BY <1>5, <2>3 DEF Open
    <3>. QED BY <1>3, <2>1, <2>2, <2>3, <3>1
  <2>4. CASE Straddles(i, k, since)'
    <3>1. PICK r \in Requests : /\ pc'[r] = "serving" /\ call'[r].key = k /\ call'[r].id = i
                                /\ call'[r].at < since
      BY <2>4 DEF Straddles
    <3>2. reservations'[i].status = "reserved"
      BY <3>1 DEF Books, Owned, Owns
    <3>3. Straddles(i, k, since)
      BY <3>1 DEF Straddles
    <3>. QED BY <1>3, <2>1, <2>2, <2>4, <3>2, <3>3
  <2>. QED BY <1>3, <2>1, <2>3, <2>4
<1>. QED BY <1>4, <1>5

\* An answer costs no more than its estimate, which its id already owed.
LEMMA FinishDue ==
  ASSUME IInv, Books, EstimatesHold', NEW r \in Requests, NEW o \in Outcomes, Finish(r, o),
         NEW k, NEW since \in Int, since <= now, NEW i \in IDs
  PROVE  Due(i, k, since)' \in Nat /\ Due(i, k, since)' <= Due(i, k, since)
<1>. DEFINE own == {q \in Finished(k, since) : call[q].id = i}
            own1 == {q \in Finished(k, since)' : call[q].id = i}
<1>1. /\ pc[r] = "serving" /\ Owns(r) /\ outcome[r] = NoOutcome
      /\ DOMAIN outcome = Requests /\ DOMAIN pc = Requests
      /\ pc' = [pc EXCEPT ![r] = "lockSettle"]
      /\ outcome' = [outcome EXCEPT ![r] =
           [tokens |-> o.tokens, cost |-> o.cost, failed |-> o.failed, at |-> now]]
      /\ UNCHANGED <<call, reservations>>
  BY DEF Finish, Goto, tables, Owns, Books, Dated, Early, IInv, TypeOK
<1>2. /\ outcome'[r].cost = o.cost /\ outcome'[r].at = now
      /\ \A q \in Requests \ {r} : outcome'[q] = outcome[q]
      /\ \A q \in Requests : pc'[q] = "serving" => pc[q] = "serving"
  BY <1>1
<1>3. Due(i, k, since) \in Nat /\ reservations[i].cost \in Nat /\ o.cost \in Nat
  BY DueType, RowNumbers, QuotaAssumption, QuotaStoreAssumption
<1>4. \A q \in Finished(k, since) : q \in Finished(k, since)' /\ q # r
  BY <1>1, <1>2 DEF Finished
<1>5. \A q \in Finished(k, since)' : q = r \/ q \in Finished(k, since)
  BY <1>1, <1>2 DEF Finished
<1>6. Due(i, k, since)' = IF own1 # {} THEN outcome'[CHOOSE q \in own1 : TRUE].cost
                          ELSE IF i \in Open(k, since)' \/ Straddles(i, k, since)'
                          THEN reservations[i].cost ELSE 0
  BY <1>1 DEF Due
<1>7. CASE call[r].id = i /\ r \in Finished(k, since)'
  <2>1. \A q \in own1 : q = r
    <3>. SUFFICES ASSUME NEW q \in own1, q # r PROVE FALSE
      OBVIOUS
    <3>1. q \in Finished(k, since) /\ call[q].id = i
      BY <1>5
    <3>2. q \in Requests /\ Owns(q)
      BY <3>1 DEF Finished, Owns
    <3>. QED BY <1>1, <1>7, <3>1, <3>2 DEF Books, OneOwner
  <2>2. own1 # {} /\ (CHOOSE q \in own1 : TRUE) = r
    <3>1. r \in own1
      BY <1>7
    <3>. HIDE DEF own1
    <3>. QED BY <2>1, <3>1
  <2>3. Due(i, k, since)' = o.cost
    <3>. HIDE DEF own1
    <3>. QED BY <1>2, <1>6, <2>2
  <2>4. \A q \in Finished(k, since) : call[q].id # i
    BY <1>4, <2>1
  <2>5. /\ reservations[i].status = "reserved" /\ reservations[i].key = call[r].key
        /\ reservations[i].at = call[r].at /\ reservations[i].cost = call[r].cost
        /\ call[r].key = k
    BY <1>1, <1>7 DEF Books, Owned, Finished
  <2>6. i \in Open(k, since) \/ Straddles(i, k, since)
    <3>1. call[r].at \in Int
      BY <1>1, CallIsRecord DEF Time
    <3>2. CASE call[r].at < since
      BY <1>1, <1>7, <2>5, <3>2 DEF Straddles
    <3>3. CASE ~(call[r].at < since)
      <4>1. reservations[i].at >= since
        BY <2>5, <3>1, <3>3
      <4>. QED BY <2>4, <2>5, <4>1 DEF Open
    <3>. QED BY <3>2, <3>3
  <2>7. Due(i, k, since) = call[r].cost
    BY <2>4, <2>5, <2>6, DueOfOthers
  <2>8. o.cost <= call[r].cost
    BY <1>1, <1>2 DEF EstimatesHold
  <2>. QED BY <1>3, <2>3, <2>7, <2>8
<1>8. CASE ~(call[r].id = i /\ r \in Finished(k, since)')
  <2>1. own1 = own
    BY <1>4, <1>5, <1>8
  <2>2. CASE own # {}
    <3>1. (CHOOSE q \in own : TRUE) \in own
      BY <2>2
    <3>2. outcome'[CHOOSE q \in own : TRUE] = outcome[CHOOSE q \in own : TRUE]
      BY <1>2, <1>4, <3>1 DEF Finished
    <3>3. Due(i, k, since)' = Due(i, k, since)
      BY <1>6, <2>1, <2>2, <3>2 DEF Due
    <3>. QED BY <1>3, <3>3
  <2>3. CASE own = {}
    <3>1. i \in Open(k, since)' => i \in Open(k, since)
      BY <1>1, <2>3 DEF Open
    <3>2. Straddles(i, k, since)' => Straddles(i, k, since)
      BY <1>1, <1>2 DEF Straddles
    <3>3. Due(i, k, since) = IF i \in Open(k, since) \/ Straddles(i, k, since)
                             THEN reservations[i].cost ELSE 0
      BY <2>3 DEF Due
    <3>. HIDE DEF own, own1
    <3>. QED BY <1>3, <1>6, <2>1, <2>3, <3>1, <3>2, <3>3
  <2>. QED BY <2>2, <2>3
<1>. QED BY <1>7, <1>8

\* An admission adds its estimate, to what its own key owes.
LEMMA CommitDue ==
  ASSUME IInv, Books, NEW r \in Requests, Commit(r), NEW k, NEW since, NEW i \in IDs
  PROVE  /\ Due(i, k, since)' \in Nat
         /\ i # call[r].id \/ k # call[r].key => Due(i, k, since)' <= Due(i, k, since)
         /\ i = call[r].id => Due(i, k, since)' <= Due(i, k, since) + call[r].cost
<1>. DEFINE own == {q \in Finished(k, since) : call[q].id = i}
            own1 == {q \in Finished(k, since)' : call[q].id = i}
<1>1. /\ pc[r] = "commit" /\ call[r] \in CallRecord /\ call[r].id \in IDs /\ call[r].cost \in Nat
      /\ UNCHANGED <<call, outcome>>
      /\ \A q \in Requests \ {r} : pc'[q] = pc[q]
      /\ DOMAIN reservations = IDs
  BY CallIsRecord DEF Commit, Goto, IInv, TypeOK, TablesTypeOK
<1>2. /\ reservations[call[r].id].status = Absent
      /\ \A j \in IDs \ {call[r].id} : reservations'[j] = reservations[j]
      /\ reservations'[call[r].id].key = call[r].key
      /\ reservations'[call[r].id].cost = call[r].cost
  BY <1>1 DEF Commit, WriteAdmission
<1>3. Finished(k, since)' = Finished(k, since)
  BY <1>1 DEF Finished
<1>4. own1 = own
  BY <1>3
<1>5. Due(i, k, since) \in Nat /\ reservations[i].cost \in Nat
  BY DueType, RowNumbers
<1>6. CASE own # {}
  <2>1. Due(i, k, since)' = IF own1 # {} THEN outcome[CHOOSE q \in own1 : TRUE].cost
                            ELSE IF i \in Open(k, since)' \/ Straddles(i, k, since)'
                            THEN reservations'[i].cost ELSE 0
    BY <1>1 DEF Due
  <2>2. Due(i, k, since) = outcome[CHOOSE q \in own : TRUE].cost
    BY <1>6 DEF Due
  <2>. HIDE DEF own, own1
  <2>3. Due(i, k, since)' = Due(i, k, since)
    BY <1>4, <1>6, <2>1, <2>2
  <2>. QED BY <1>1, <1>5, <2>3
<1>7. CASE own = {}
  <2>1. Due(i, k, since)' = IF i \in Open(k, since)' \/ Straddles(i, k, since)'
                            THEN reservations'[i].cost ELSE 0
    BY <1>1, <1>4, <1>7 DEF Due
  <2>2. Due(i, k, since) = IF i \in Open(k, since) \/ Straddles(i, k, since)
                           THEN reservations[i].cost ELSE 0
    BY <1>7 DEF Due
  <2>3. CASE i # call[r].id
    <3>1. i \in Open(k, since)' => i \in Open(k, since)
      BY <1>1, <1>2, <1>7, <2>3 DEF Open
    <3>2. Straddles(i, k, since)' => Straddles(i, k, since)
      BY <1>1, <2>3 DEF Straddles
    <3>3. reservations'[i] = reservations[i]
      BY <1>2, <2>3
    <3>. QED BY <1>5, <2>1, <2>2, <2>3, <3>1, <3>2, <3>3
  <2>4. CASE i = call[r].id
    <3>1. reservations'[i].cost = call[r].cost
      BY <1>2, <2>4
    <3>2. ASSUME k # call[r].key PROVE Due(i, k, since)' = 0
      <4>1. i \notin Open(k, since)'
        BY <1>2, <2>4, <3>2 DEF Open
      <4>2. ~Straddles(i, k, since)'
        <5>. SUFFICES ASSUME Straddles(i, k, since)' PROVE FALSE
          OBVIOUS
        <5>1. PICK q \in Requests : pc'[q] = "serving" /\ call[q].key = k /\ call[q].id = i
          BY <1>1 DEF Straddles
        <5>2. q # r /\ Owns(q)
          BY <1>1, <3>2, <5>1 DEF Owns
        <5>3. reservations[i].status # Absent
          BY <5>1, <5>2 DEF Books, Owned
        <5>. QED BY <1>2, <2>4, <5>3
      <4>. QED BY <2>1, <4>1, <4>2
    <3>. QED BY <1>1, <1>5, <2>1, <2>4, <3>1, <3>2
  <2>. QED BY <2>3, <2>4
<1>. QED BY <1>6, <1>7

-----------------------------------------------------------------------------
(* Budgets are kept.                                                        *)

\* No more is owed, since any instant that is not in the future.
NoMoreOwed ==
  \A k \in Keys, since \in Time : since <= now' =>
    /\ Owed(k, since)' <= Owed(k, since)
    /\ Owed(k, since)' \in Nat /\ Owed(k, since) \in Nat

\* Nobody's room in a budget gets smaller where no more is owed.
LEMMA RoomKept ==
  ASSUME NoMoreOwed, NEW k \in Keys, NEW since \in Time, since <= now',
         NEW limit \in Nat, NEW more \in Nat, Room(k, since, limit, more)
  PROVE  Room(k, since, limit, more)'
<1>1. Owed(k, since)' <= Owed(k, since) /\ Owed(k, since)' \in Nat /\ Owed(k, since) \in Nat
  BY DEF NoMoreOwed
<1>. QED BY <1>1 DEF Room

\* There is as much room since a later instant.
LEMMA RoomLater ==
  ASSUME IInv, Books, NEW k \in Keys, NEW since \in Time, NEW s \in Time, since <= s,
         NEW limit \in Nat, NEW more \in Nat, Room(k, since, limit, more)
  PROVE  Room(k, s, limit, more)
<1>1. since \in Int /\ s \in Int
  BY DEF Time
<1>2. Owed(k, s) <= Owed(k, since)
  BY <1>1, OwedLater
<1>3. Owed(k, s) \in Nat /\ Owed(k, since) \in Nat
  <2>1. \A i \in IDs, t \in Time : Due(i, k, t) <= Due(i, k, t)
    BY DueType
  <2>. QED BY <2>1, OwedMono
<1>. QED BY <1>2, <1>3 DEF Room

\* Where no more is owed, the keys that miss nothing stay within their limits.
LEMMA KeysAfford ==
  ASSUME IInv, IInv', Books, Affordable, NoMoreOwed, Onward, now <= now', blind \subseteq blind'
  PROVE  KeysCanPay'
<1>1. now \in Time /\ now' \in Time
  BY DEF IInv, TypeOK, TablesTypeOK
<1>. PICK day \in Time : day = StartOfDay(now')
  BY <1>1, StartsInOrder
<1>. PICK month \in Time : month = StartOfMonth(now')
  BY <1>1, StartsInOrder
<1>2. /\ StartOfDay(now) \in Time /\ day \in Time /\ StartOfDay(now) <= day /\ day <= now'
      /\ StartOfMonth(now) \in Time /\ month \in Time /\ StartOfMonth(now) <= month /\ month <= now'
  BY <1>1, StartsInOrder
<1>3. ASSUME NEW k \in Keys \ blind', NEW limit \in Nat
      PROVE  /\ LimitedTo(k, "daily", limit)' => Room(k, StartOfDay(now), limit, 0)'
             /\ LimitedTo(k, "monthly", limit)' => Room(k, StartOfMonth(now), limit, 0)'
  <2>1. /\ LimitedTo(k, "daily", limit)' => LimitedTo(k, "daily", limit)
        /\ LimitedTo(k, "monthly", limit)' => LimitedTo(k, "monthly", limit)
    BY DEF LimitedTo, Onward
  <2>2. /\ LimitedTo(k, "daily", limit) => Room(k, StartOfDay(now), limit, 0)
        /\ LimitedTo(k, "monthly", limit) => Room(k, StartOfMonth(now), limit, 0)
    BY DEF Affordable, KeysCanPay
  <2>3. /\ LimitedTo(k, "daily", limit) => Room(k, day, limit, 0)
        /\ LimitedTo(k, "monthly", limit) => Room(k, month, limit, 0)
    BY <1>2, <2>2, RoomLater
  <2>4. /\ Owed(k, day)' <= Owed(k, day) /\ Owed(k, day)' \in Nat /\ Owed(k, day) \in Nat
        /\ Owed(k, month)' <= Owed(k, month) /\ Owed(k, month)' \in Nat /\ Owed(k, month) \in Nat
    BY <1>2 DEF NoMoreOwed
  <2>5. /\ LimitedTo(k, "daily", limit)' => Room(k, day, limit, 0)'
        /\ LimitedTo(k, "monthly", limit)' => Room(k, month, limit, 0)'
    BY <2>1, <2>3, <2>4 DEF Room
  <2>. QED BY <2>5 DEF Room, Owed
<1>. QED BY <1>3 DEF KeysCanPay

\* A record's limits, and what is owed since a day or a month begins.
LEMMA RecordRoom ==
  ASSUME NoMoreOwed, NEW c \in CallRecord, c.at <= now, now <= now', now \in Time, now' \in Time
  PROVE  /\ Room(c.key, StartOfDay(c.at), c.policy.daily, c.cost) =>
              Room(c.key, StartOfDay(c.at), c.policy.daily, c.cost)'
         /\ Room(c.key, StartOfMonth(c.at), c.policy.monthly, c.cost) =>
              Room(c.key, StartOfMonth(c.at), c.policy.monthly, c.cost)'
<1>1. /\ c.key \in Keys /\ c.at \in Time /\ c.cost \in Nat /\ c.policy \in Policies
      /\ c.policy.daily \in Nat /\ c.policy.monthly \in Nat
  <2>1. c.key \in Keys /\ c.at \in Time /\ c.cost \in Amounts /\ c.policy \in Policies
    BY DEF CallRecord
  <2>. QED BY <2>1, QuotaAssumption
<1>2. /\ StartOfDay(c.at) \in Time /\ StartOfDay(c.at) <= now'
      /\ StartOfMonth(c.at) \in Time /\ StartOfMonth(c.at) <= now'
  <2>1. /\ StartOfDay(c.at) \in Time /\ StartOfDay(c.at) <= c.at
        /\ StartOfMonth(c.at) \in Time /\ StartOfMonth(c.at) <= c.at
    BY <1>1, StartsInOrder
  <2>. HIDE DEF StartOfDay, StartOfMonth
  <2>. QED BY <1>1, <2>1 DEF Time
<1>. DEFINE day == StartOfDay(c.at)
            month == StartOfMonth(c.at)
<1>. HIDE DEF day, month
<1>3. Room(c.key, day, c.policy.daily, c.cost) => Room(c.key, day, c.policy.daily, c.cost)'
  BY <1>1, <1>2, RoomKept DEF day
<1>4. Room(c.key, month, c.policy.monthly, c.cost) => Room(c.key, month, c.policy.monthly, c.cost)'
  BY <1>1, <1>2, RoomKept DEF month
<1>. QED BY <1>3, <1>4 DEF day, month

\* A step after which no more is owed, and in which a request passes a budget
\* check only if there is room, keeps everything affordable.
LEMMA AffordStep ==
  ASSUME IInv, IInv', Books, Affordable, NoMoreOwed, Onward, now <= now',
         blind \subseteq blind',
         \A r \in Requests : \A c \in CallRecord :
           call'[r] = c /\ c.cost > 0 /\ c.key \notin blind' =>
             /\ c.at <= now
             /\ pc'[r] \in {"checkMonthly", "commit"} =>
                  Room(c.key, StartOfDay(c.at), c.policy.daily, c.cost)
             /\ pc'[r] = "commit" => Room(c.key, StartOfMonth(c.at), c.policy.monthly, c.cost)
  PROVE  Affordable'
<1>1. now \in Time /\ now' \in Time
  BY DEF IInv, TypeOK, TablesTypeOK
<1>2. KeysCanPay'
  BY KeysAfford
<1>3. ASSUME NEW r \in Requests PROVE PassedDay(r)' /\ PassedMonth(r)'
  BY <1>1, RecordRoom DEF PassedDay, PassedMonth
<1>. QED BY <1>2, <1>3 DEF Affordable

\* A step that admits nobody and answers nobody adds to nobody's debts.
LEMMA NobodyOwesMore ==
  ASSUME IInv, Books, Books', UNCHANGED outcome,
         \A r \in Requests :
           /\ outcome[r] # NoOutcome \/ pc'[r] = "serving" => call'[r] = call[r]
           /\ pc'[r] = "serving" => pc[r] = "serving",
         \A i \in IDs : reservations'[i] = reservations[i] \/ reservations'[i].status # "reserved"
  PROVE  NoMoreOwed
<1>1. ASSUME NEW k \in Keys, NEW since \in Time
      PROVE  /\ Owed(k, since)' <= Owed(k, since)
             /\ Owed(k, since)' \in Nat /\ Owed(k, since) \in Nat
  <2>1. ASSUME NEW i \in IDs
        PROVE  Due(i, k, since)' \in Nat /\ Due(i, k, since)' <= Due(i, k, since)
    BY QuietDue
  <2>. QED BY <2>1, OwedStep
<1>. QED BY <1>1 DEF NoMoreOwed

\* If it lets nobody pass a check either, everything stays affordable.
LEMMA CalmAffords ==
  ASSUME IInv, IInv', Books, Books', Affordable, Onward, now <= now',
         UNCHANGED <<outcome, blind>>,
         \A i \in IDs : reservations'[i] = reservations[i] \/ reservations'[i].status # "reserved",
         \A q \in Requests :
           \/ /\ call'[q] = call[q]
              /\ pc'[q] = pc[q] \/ pc'[q] \notin {"serving", "checkMonthly", "commit"}
           \/ pc[q] = "idle" /\ pc'[q] = "lockReserve" /\ call'[q].at <= now
  PROVE  Affordable'
<1>1. NoMoreOwed
  <2>1. \A q \in Requests : pc[q] = "idle" => outcome[q] = NoOutcome
    BY DEF Books, Dated, Early
  <2>. QED BY <2>1, NobodyOwesMore
<1>2. ASSUME NEW q \in Requests, NEW c \in CallRecord, call'[q] = c, c.cost > 0, c.key \notin blind
      PROVE  /\ c.at <= now
             /\ pc'[q] \in {"checkMonthly", "commit"} =>
                  Room(c.key, StartOfDay(c.at), c.policy.daily, c.cost)
             /\ pc'[q] = "commit" => Room(c.key, StartOfMonth(c.at), c.policy.monthly, c.cost)
  <2>1. CASE call'[q] = call[q] /\ (pc'[q] = pc[q] \/ pc'[q] \notin {"checkMonthly", "commit"})
    <3>1. c.at <= now
      BY <1>2, <2>1 DEF IInv, StillRoom
    <3>2. PassedDay(q) /\ PassedMonth(q)
      BY DEF Affordable
    <3>. QED BY <1>2, <2>1, <3>1, <3>2 DEF PassedDay, PassedMonth
  <2>2. CASE pc'[q] = "lockReserve" /\ call'[q].at <= now
    BY <1>2, <2>2
  <2>. QED BY <2>1, <2>2
<1>. QED BY <1>1, <1>2, AffordStep

\* Where nothing is unseen, a budget that is not exceeded has room.
LEMMA SeenRoom ==
  ASSUME IInv, Books, EstimatesHold, NEW c \in CallRecord, c.cost > 0, NEW since \in Time, NEW limit \in Nat,
         Unseen(c.key, since) = {}, ~OverBudget(c.key, since, limit, c.cost)
  PROVE  Room(c.key, since, limit, c.cost)
<1>1. c.key \in Keys /\ c.cost \in Nat
  BY QuotaAssumption DEF CallRecord
<1>2. Owed(c.key, since) <= SpentSince(c.key, since) /\ SpentSince(c.key, since) \in Nat
  BY <1>1, SeenIsOwed
<1>3. Owed(c.key, since) \in Nat
  <2>1. \A i \in IDs : Due(i, c.key, since) <= Due(i, c.key, since)
    BY DueType
  <2>. QED BY <2>1, OwedMono
<1>4. limit > 0 => SpentSince(c.key, since) + c.cost <= limit
  BY <1>1, <1>2 DEF OverBudget
<1>. QED BY <1>1, <1>2, <1>3, <1>4 DEF Room

\* A budget check that misses nothing leaves room for what it lets pass.
LEMMA CheckAffords ==
  ASSUME IInv, IInv', Books, Books', EstimatesHold, Affordable, Onward, NEW r \in Requests,
         CheckDaily(r) \/ CheckMonthly(r)
  PROVE  Affordable'
<1>1. /\ UNCHANGED <<now, reservations, policy, call, outcome>>
      /\ blind \subseteq blind'
      /\ \A q \in Requests \ {r} : pc'[q] = pc[q]
      /\ pc'[r] \in {"refused", "checkMonthly", "commit"}
  BY DEF CheckDaily, CheckMonthly, Budget, Goto, tables, IInv, TypeOK
<1>2. NoMoreOwed
  BY <1>1, NobodyOwesMore
<1>3. now <= now'
  BY <1>1 DEF IInv, TypeOK, TablesTypeOK, Time
<1>4. ASSUME NEW q \in Requests, NEW c \in CallRecord, call'[q] = c, c.cost > 0, c.key \notin blind'
      PROVE  /\ c.at <= now
             /\ pc'[q] \in {"checkMonthly", "commit"} =>
                  Room(c.key, StartOfDay(c.at), c.policy.daily, c.cost)
             /\ pc'[q] = "commit" => Room(c.key, StartOfMonth(c.at), c.policy.monthly, c.cost)
  <2>1. call[q] = c /\ c.key \notin blind
    BY <1>1, <1>4
  <2>2. c.at <= now
    BY <2>1 DEF IInv, StillRoom
  <2>3. PassedDay(q) /\ PassedMonth(q)
    BY DEF Affordable
  <2>4. CASE q # r
    BY <1>1, <1>4, <2>1, <2>2, <2>3, <2>4 DEF PassedDay, PassedMonth
  <2>5. /\ c.policy.daily \in Nat /\ c.policy.monthly \in Nat
        /\ StartOfDay(c.at) \in Time /\ StartOfMonth(c.at) \in Time
    <3>1. c.at \in Time /\ c.policy \in Policies
      BY DEF CallRecord
    <3>. QED BY <3>1, StartsInOrder, QuotaAssumption
  <2>6. CASE q = r /\ CheckDaily(r)
    <3>1. PICK day \in Time : day = StartOfDay(c.at)
      BY <2>5
    <3>2. /\ pc'[r] # "commit"
          /\ pc'[r] = "checkMonthly" => ~OverBudget(c.key, day, c.policy.daily, c.cost)
          /\ Unseen(c.key, day) = {}
      BY <1>4, <2>1, <2>6, <3>1 DEF CheckDaily, Budget, Goto, IInv, TypeOK
    <3>3. pc'[r] = "checkMonthly" => Room(c.key, day, c.policy.daily, c.cost)
      BY <1>4, <2>5, <3>2, SeenRoom
    <3>. QED BY <2>2, <2>6, <3>1, <3>2, <3>3
  <2>7. CASE q = r /\ CheckMonthly(r)
    <3>1. PICK month \in Time : month = StartOfMonth(c.at)
      BY <2>5
    <3>2. /\ pc[r] = "checkMonthly" /\ pc'[r] # "checkMonthly"
          /\ pc'[r] = "commit" => ~OverBudget(c.key, month, c.policy.monthly, c.cost)
          /\ Unseen(c.key, month) = {}
      BY <1>4, <2>1, <2>7, <3>1 DEF CheckMonthly, Budget, Goto, IInv, TypeOK
    <3>3. pc'[r] = "commit" => Room(c.key, month, c.policy.monthly, c.cost)
      BY <1>4, <2>5, <3>2, SeenRoom
    <3>4. Room(c.key, StartOfDay(c.at), c.policy.daily, c.cost)
      BY <1>4, <2>1, <2>3, <2>7, <3>2 DEF PassedDay
    <3>. QED BY <2>2, <2>7, <3>1, <3>2, <3>3, <3>4
  <2>. QED BY <2>4, <2>6, <2>7
<1>. QED BY <1>1, <1>2, <1>3, <1>4, AffordStep

\* An answer owes no more than its admission.
LEMMA FinishAffords ==
  ASSUME IInv, IInv', Books, Books', EstimatesHold', Affordable, Onward, NEW r \in Requests,
         NEW o \in Outcomes, Finish(r, o)
  PROVE  Affordable'
<1>1. /\ UNCHANGED <<now, reservations, policy, call, blind>>
      /\ \A q \in Requests \ {r} : pc'[q] = pc[q]
      /\ pc'[r] = "lockSettle"
  BY DEF Finish, Goto, tables, IInv, TypeOK
<1>2. now <= now'
  BY <1>1 DEF IInv, TypeOK, TablesTypeOK, Time
<1>3. NoMoreOwed
  <2>1. ASSUME NEW k \in Keys, NEW since \in Time, since <= now'
        PROVE  /\ Owed(k, since)' <= Owed(k, since)
               /\ Owed(k, since)' \in Nat /\ Owed(k, since) \in Nat
    <3>1. since \in Int /\ since <= now
      BY <1>1, <2>1 DEF Time
    <3>2. ASSUME NEW i \in IDs
          PROVE  Due(i, k, since)' \in Nat /\ Due(i, k, since)' <= Due(i, k, since)
      BY <3>1, FinishDue
    <3>. QED BY <3>2, OwedStep
  <2>. QED BY <2>1 DEF NoMoreOwed
<1>4. ASSUME NEW q \in Requests, NEW c \in CallRecord, call'[q] = c, c.cost > 0, c.key \notin blind'
      PROVE  /\ c.at <= now
             /\ pc'[q] \in {"checkMonthly", "commit"} =>
                  Room(c.key, StartOfDay(c.at), c.policy.daily, c.cost)
             /\ pc'[q] = "commit" => Room(c.key, StartOfMonth(c.at), c.policy.monthly, c.cost)
  <2>1. call[q] = c /\ c.key \notin blind
    BY <1>1, <1>4
  <2>2. c.at <= now
    BY <2>1 DEF IInv, StillRoom
  <2>3. PassedDay(q) /\ PassedMonth(q)
    BY DEF Affordable
  <2>. QED BY <1>1, <1>4, <2>1, <2>2, <2>3 DEF PassedDay, PassedMonth
<1>. QED BY <1>1, <1>2, <1>3, <1>4, AffordStep

\* What an admission adds is its estimate, and only to what its own key owes.
LEMMA CommitOwes ==
  ASSUME IInv, Books, NEW r \in Requests, Commit(r), NEW k \in Keys, NEW since \in Time
  PROVE  /\ Owed(k, since)' \in Nat /\ Owed(k, since) \in Nat
         /\ Owed(k, since)' <= Owed(k, since) + call[r].cost
         /\ k # call[r].key => Owed(k, since)' <= Owed(k, since)
<1>1. call[r].id \in IDs /\ call[r].cost \in Nat
  BY CallIsRecord DEF Commit
<1>. PICK j \in IDs : j = call[r].id
  BY <1>1
<1>. PICK more \in Nat : more = call[r].cost
  BY <1>1
<1>2. ASSUME NEW i \in IDs
      PROVE  /\ Due(i, k, since)' \in Nat
             /\ i # j \/ k # call[r].key => Due(i, k, since)' <= Due(i, k, since)
             /\ i = j => Due(i, k, since)' <= Due(i, k, since) + more
  BY CommitDue
<1>3. /\ Owed(k, since)' <= Owed(k, since) + more
      /\ Owed(k, since)' \in Nat /\ Owed(k, since) \in Nat
  BY <1>2, OwedAdds
<1>4. ASSUME k # call[r].key PROVE Owed(k, since)' <= Owed(k, since)
  BY <1>2, <1>4, OwedStep
<1>. QED BY <1>3, <1>4

\* While it holds the lock of its key, nobody else of the key has passed a check.
LEMMA CommitAlone ==
  ASSUME IInv, NEW r \in Requests, pc[r] = "commit", NEW q \in Requests \ {r},
         pc[q] \in {"checkMonthly", "commit"}
  PROVE  call[q].key # call[r].key
BY DEF IInv, LockHeld, Locked, ReserveSteps

\* An admission has room for its estimate.
LEMMA CommitAffords ==
  ASSUME IInv, IInv', Books, Books', Affordable, Onward, NEW r \in Requests, Commit(r)
  PROVE  Affordable'
<1>1. /\ pc[r] = "commit" /\ UNCHANGED <<now, policy, call, blind>>
      /\ \A q \in Requests \ {r} : pc'[q] = pc[q]
      /\ pc'[r] \in {"serving", "failed"}
  BY DEF Commit, Goto, IInv, TypeOK
<1>. PICK c \in CallRecord : c = call[r]
  BY <1>1, CallIsRecord
<1>2. /\ c.key \in Keys /\ c.at \in Time /\ c.cost \in Nat /\ c.policy \in Policies
      /\ c.at <= now /\ now \in Time /\ now <= now'
  <2>1. now \in Time /\ c.at <= now
    BY DEF IInv, TypeOK, TablesTypeOK, StillRoom
  <2>2. now <= now'
    BY <1>1, <2>1 DEF Time
  <2>3. c.key \in Keys /\ c.at \in Time /\ c.cost \in Amounts /\ c.policy \in Policies
    BY DEF CallRecord
  <2>. QED BY <2>1, <2>2, <2>3, QuotaAssumption
<1>3. ASSUME NEW k \in Keys, NEW since \in Time
      PROVE  /\ Owed(k, since)' \in Nat /\ Owed(k, since) \in Nat
             /\ Owed(k, since)' <= Owed(k, since) + c.cost
             /\ k # c.key => Owed(k, since)' <= Owed(k, since)
  BY CommitOwes
<1>4. ASSUME NEW q \in Requests \ {r}, NEW d \in CallRecord, call'[q] = d,
             pc'[q] \in {"checkMonthly", "commit"}
      PROVE  d.key # c.key /\ d.key \in Keys
  BY <1>1, <1>4, CommitAlone DEF CallRecord
<1>5. ASSUME NEW q \in Requests, NEW d \in CallRecord, call'[q] = d, d.cost > 0, d.key \notin blind
      PROVE  /\ d.at <= now
             /\ pc'[q] \in {"checkMonthly", "commit"} =>
                  Room(d.key, StartOfDay(d.at), d.policy.daily, d.cost)
             /\ pc'[q] = "commit" => Room(d.key, StartOfMonth(d.at), d.policy.monthly, d.cost)
  <2>1. d.at <= now
    BY <1>1, <1>5 DEF IInv, StillRoom
  <2>2. PassedDay(q) /\ PassedMonth(q)
    BY DEF Affordable
  <2>. QED BY <1>1, <1>5, <2>1, <2>2 DEF PassedDay, PassedMonth
<1>6. CASE c.cost = 0
  <2>1. NoMoreOwed
    BY <1>3, <1>6 DEF NoMoreOwed
  <2>. QED BY <1>1, <1>2, <1>5, <2>1, AffordStep
<1>7. CASE c.cost > 0
  <2>1. ASSUME NEW k \in Keys, NEW since \in Time, NEW limit \in Nat, NEW more \in Nat,
               k # c.key, Room(k, since, limit, more)
        PROVE  Room(k, since, limit, more)'
    BY <1>3, <2>1 DEF Room
  <2>2. ASSUME NEW since \in Time, NEW s \in Time, since <= s, NEW limit \in Nat,
               Room(c.key, since, limit, c.cost)
        PROVE  Room(c.key, s, limit, 0)'
    <3>1. Room(c.key, s, limit, c.cost)
      BY <1>2, <2>2, RoomLater
    <3>. QED BY <1>2, <1>3, <3>1 DEF Room
  <2>3. /\ StartOfDay(c.at) \in Time /\ StartOfDay(now) \in Time
        /\ StartOfDay(c.at) <= StartOfDay(now)
        /\ StartOfMonth(c.at) \in Time /\ StartOfMonth(now) \in Time
        /\ StartOfMonth(c.at) <= StartOfMonth(now)
    BY <1>2, StartsInOrder
  <2>. PICK day \in Time : day = StartOfDay(now)
    BY <2>3
  <2>. PICK month \in Time : month = StartOfMonth(now)
    BY <2>3
  <2>4. StartOfDay(now') = day /\ StartOfMonth(now') = month
    BY <1>1
  <2>5. ASSUME NEW k \in Keys \ blind, NEW limit \in Nat
        PROVE  /\ LimitedTo(k, "daily", limit)' => Room(k, StartOfDay(now), limit, 0)'
               /\ LimitedTo(k, "monthly", limit)' => Room(k, StartOfMonth(now), limit, 0)'
    <3>1. CASE k # c.key
      <4>1. /\ LimitedTo(k, "daily", limit)' => LimitedTo(k, "daily", limit)
            /\ LimitedTo(k, "monthly", limit)' => LimitedTo(k, "monthly", limit)
        BY DEF LimitedTo, Onward
      <4>2. /\ LimitedTo(k, "daily", limit) => Room(k, day, limit, 0)
            /\ LimitedTo(k, "monthly", limit) => Room(k, month, limit, 0)
        BY DEF Affordable, KeysCanPay
      <4>3. /\ LimitedTo(k, "daily", limit)' => Room(k, day, limit, 0)'
            /\ LimitedTo(k, "monthly", limit)' => Room(k, month, limit, 0)'
        BY <2>1, <3>1, <4>1, <4>2
      <4>. QED BY <2>4, <4>3 DEF Room, Owed
    <3>2. CASE k = c.key
      <4>1. pc[r] # "idle" /\ pc'[r] # "idle" /\ call'[r] = c
        BY <1>1
      <4>2. /\ LimitedTo(k, "daily", limit)' => c.policy.daily \in 1 .. limit
            /\ LimitedTo(k, "monthly", limit)' => c.policy.monthly \in 1 .. limit
        BY <3>2, <4>1 DEF LimitedTo
      <4>3. PassedDay(r) /\ PassedMonth(r)
        BY DEF Affordable
      <4>4. /\ Room(c.key, StartOfDay(c.at), c.policy.daily, c.cost)
            /\ Room(c.key, StartOfMonth(c.at), c.policy.monthly, c.cost)
        BY <1>1, <1>7, <3>2, <4>3 DEF PassedDay, PassedMonth
      <4>5. c.policy.daily \in Nat /\ c.policy.monthly \in Nat
        BY <1>2, QuotaAssumption
      <4>6. PICK s \in Time : s = StartOfDay(c.at)
        BY <2>3
      <4>7. PICK t \in Time : t = StartOfMonth(c.at)
        BY <2>3
      <4>8. /\ Room(k, day, c.policy.daily, 0)'
            /\ Room(k, month, c.policy.monthly, 0)'
        BY <2>2, <2>3, <3>2, <4>4, <4>5, <4>6, <4>7
      <4>9. Owed(k, day)' \in Nat /\ Owed(k, month)' \in Nat
        BY <1>3
      <4>10. /\ LimitedTo(k, "daily", limit)' => Room(k, day, limit, 0)'
             /\ LimitedTo(k, "monthly", limit)' => Room(k, month, limit, 0)'
        BY <4>2, <4>5, <4>8, <4>9 DEF Room
      <4>. QED BY <2>4, <4>10 DEF Room, Owed
    <3>. QED BY <3>1, <3>2
  <2>6. ASSUME NEW q \in Requests PROVE PassedDay(q)' /\ PassedMonth(q)'
    <3>1. ASSUME NEW d \in CallRecord, call'[q] = d, d.cost > 0, d.key \notin blind,
                 pc'[q] \in {"checkMonthly", "commit"}
          PROVE  /\ Room(d.key, StartOfDay(d.at), d.policy.daily, d.cost)'
                 /\ pc'[q] = "commit" =>
                      Room(d.key, StartOfMonth(d.at), d.policy.monthly, d.cost)'
      <4>1. q # r
        BY <1>1, <3>1
      <4>2. d.key # c.key /\ d.key \in Keys
        BY <1>4, <3>1, <4>1
      <4>3. /\ StartOfDay(d.at) \in Time /\ StartOfMonth(d.at) \in Time
            /\ d.policy.daily \in Nat /\ d.policy.monthly \in Nat /\ d.cost \in Nat
        <5>1. d.at \in Time /\ d.policy \in Policies /\ d.cost \in Amounts
          BY DEF CallRecord
        <5>. QED BY <5>1, StartsInOrder, QuotaAssumption
      <4>4. PICK s \in Time : s = StartOfDay(d.at)
        BY <4>3
      <4>5. PICK t \in Time : t = StartOfMonth(d.at)
        BY <4>3
      <4>6. /\ Room(d.key, s, d.policy.daily, d.cost)
            /\ pc'[q] = "commit" => Room(d.key, t, d.policy.monthly, d.cost)
        BY <1>5, <3>1, <4>4, <4>5
      <4>7. /\ Room(d.key, s, d.policy.daily, d.cost)'
            /\ pc'[q] = "commit" => Room(d.key, t, d.policy.monthly, d.cost)'
        BY <2>1, <4>2, <4>3, <4>6
      <4>. QED BY <4>4, <4>5, <4>7
    <3>. QED BY <1>1, <3>1 DEF PassedDay, PassedMonth
  <2>7. KeysCanPay'
    BY <1>1, <2>5 DEF KeysCanPay
  <2>. QED BY <2>6, <2>7 DEF Affordable
<1>. QED BY <1>2, <1>6, <1>7

\* Steps of a request that neither admit nor answer, nor pass a budget check.
LEMMA CalmSteps ==
  ASSUME IInv, IInv', Books, Books', Affordable, Onward, NEW r \in Requests,
         \/ LockReserve(r) \/ CountActive(r) \/ CountWindow(r) \/ DuplicateId(r)
         \/ LockSettle(r) \/ SettleCommit(r) \/ InsertUsage(r) \/ Fault(r)
  PROVE  Affordable'
<1>1. UNCHANGED <<now, call, outcome, blind>>
  BY DEF LockReserve, CountActive, CountWindow, DuplicateId, LockSettle, SettleCommit, InsertUsage,
         Fault, Abort, Abandon, SettleError, InsertError, TakeLock, Rollback, Continue
<1>2. \A q \in Requests : pc'[q] = pc[q] \/ pc'[q] \notin {"serving", "checkMonthly", "commit"}
  <2>1. DOMAIN pc = Requests
    BY DEF IInv, TypeOK
  <2>. QED
    BY <2>1
       DEF LockReserve, CountActive, CountWindow, DuplicateId, LockSettle, SettleCommit, InsertUsage,
           Fault, Abort, Abandon, SettleError, InsertError, TakeLock, Rollback, Continue, Goto
<1>3. \A i \in IDs : reservations'[i] = reservations[i] \/ reservations'[i].status # "reserved"
  <2>1. CASE SettleCommit(r)
    BY <2>1, SettlementCloses
  <2>2. CASE ~SettleCommit(r)
    BY <2>2
       DEF LockReserve, CountActive, CountWindow, DuplicateId, LockSettle, InsertUsage, tables,
           Fault, Abort, Abandon, SettleError, InsertError, TakeLock, Rollback, Continue
  <2>. QED BY <2>1, <2>2
<1>4. now <= now'
  BY <1>1 DEF IInv, TypeOK, TablesTypeOK, Time
<1>. QED BY <1>1, <1>2, <1>3, <1>4, CalmAffords

\* A request that starts has passed no check.
LEMMA CallAffords ==
  ASSUME IInv, IInv', Books, Books', Affordable, Onward, NEW r \in Requests,
         NEW c \in Calls, Call(r, c)
  PROVE  Affordable'
<1>1. UNCHANGED <<now, outcome, blind, reservations>>
  BY DEF Call, tables
<1>2. now <= now'
  BY <1>1 DEF IInv, TypeOK, TablesTypeOK, Time
<1>3. /\ pc[r] = "idle" /\ pc'[r] = "lockReserve" /\ call'[r].at = now
      /\ \A q \in Requests \ {r} : pc'[q] = pc[q] /\ call'[q] = call[q]
  BY DEF Call, Goto, IInv, TypeOK
<1>4. call'[r].at <= now
  BY <1>1, <1>2, <1>3
<1>. QED BY <1>1, <1>2, <1>3, <1>4, CalmAffords

\* What the rest of the world does is no expense.
LEMMA WorldAffords ==
  ASSUME IInv, IInv', Books, Books', Affordable, Onward,
         Crash \/ Tick \/ UNCHANGED vars \/ (\E k \in Keys, p \in Policies : SetPolicy(k, p))
  PROVE  Affordable'
<1>1. UNCHANGED <<call, outcome, blind, reservations>>
  BY DEF Crash, SetPolicy, Tick, tables, vars
<1>2. now <= now'
  <2>1. now \in Int
    BY DEF IInv, TypeOK, TablesTypeOK, Time
  <2>2. now' = now \/ now' = now + 1
    BY DEF Crash, SetPolicy, Tick, vars
  <2>. QED BY <2>1, <2>2
<1>3. \A q \in Requests : pc'[q] = pc[q] \/ pc'[q] = "dead"
  BY DEF Crash, SetPolicy, Tick, vars
<1>. QED BY <1>1, <1>2, <1>3, CalmAffords

\* A request that has cost more than its estimate has done so for good.
LEMMA EstimatesHeld == IInv /\ Books /\ [Next]_vars /\ EstimatesHold' => EstimatesHold
<1>. SUFFICES ASSUME IInv, Books, [Next]_vars, EstimatesHold', NEW r \in Requests
              PROVE  outcome[r].cost <= call[r].cost
  BY DEF EstimatesHold
<1>1. call[r].cost \in Nat
  <2>1. call[r] \in CallRecord \/ \E q \in Requests : call[r] = NoCall(q)
    BY DEF IInv, TypeOK
  <2>2. CASE call[r] \in CallRecord
    BY <2>2, QuotaAssumption DEF CallRecord
  <2>3. ASSUME NEW q \in Requests, call[r] = NoCall(q) PROVE call[r].cost = 0
    BY <2>3 DEF NoCall
  <2>. QED BY <2>1, <2>2, <2>3
<1>2. CASE outcome[r] = NoOutcome
  BY <1>1, <1>2 DEF NoOutcome
<1>3. CASE outcome[r] # NoOutcome
  <2>1. pc[r] # "idle" /\ pc[r] # "serving"
    BY <1>3 DEF Books, Dated, Early
  <2>2. call'[r] = call[r]
    BY <2>1, NextOnward DEF Onward
  <2>3. outcome'[r] = outcome[r]
    <3>1. ASSUME NEW q \in Requests, NEW o \in Outcomes, Finish(q, o)
          PROVE  outcome'[r] = outcome[r]
      BY <2>1, <3>1 DEF Finish, IInv, TypeOK
    <3>2. ASSUME NEW q \in Requests,
                 ReserveNext(q) \/ SettleNext(q) \/ Fault(q) \/ (\E c \in Calls : Call(q, c))
          PROVE  outcome'[r] = outcome[r]
      BY <3>2
         DEF ReserveNext, SettleNext, LockReserve, CountActive, CountWindow, CheckDaily, CheckMonthly,
             Budget, Commit, DuplicateId, LockSettle, SettleCommit, InsertUsage, Call,
             Fault, Abort, Abandon, SettleError, InsertError, TakeLock, Rollback, Continue
    <3>. QED BY <3>1, <3>2 DEF Next, Crash, Tick, SetPolicy, vars
  <2>. QED BY <2>2, <2>3 DEF EstimatesHold
<1>. QED BY <1>2, <1>3

\* While estimates hold, every step keeps everything affordable.
LEMMA NextAffords ==
  ASSUME IInv, IInv', Books, Books', EstimatesHold, EstimatesHold', Affordable, [Next]_vars
  PROVE  Affordable'
<1>1. Onward
  BY NextOnward
<1>. QED
  BY <1>1, CallAffords, CalmSteps, CheckAffords, CommitAffords, FinishAffords, WorldAffords
     DEF Next, ReserveNext, SettleNext

\* At the start nothing is owed.
LEMMA InitAffords == Init /\ IInv /\ Books => Affordable
<1>. SUFFICES ASSUME Init, IInv, Books PROVE Affordable
  OBVIOUS
<1>1. /\ \A r \in Requests : pc[r] = "idle" /\ outcome[r] = NoOutcome
      /\ \A i \in IDs : reservations[i].status = Absent
  BY DEF Init, TablesInit, NoReservation
<1>2. ASSUME NEW k, NEW since PROVE Owed(k, since) = 0
  <2>1. Finished(k, since) = {} /\ Open(k, since) = {}
    BY <1>1 DEF Finished, Open, Absent
  <2>2. \A i \in IDs : ~Straddles(i, k, since)
    BY <1>1 DEF Straddles
  <2>3. \A i \in IDs : Due(i, k, since) = 0
    BY <2>1, <2>2, DueOfOthers
  <2>. DEFINE due == [i \in IDs |-> Due(i, k, since)]
              none == [i \in IDs |-> 0]
  <2>4. due = none
    BY <2>3
  <2>5. Owed(k, since) = SumFunctionOnSet(none, IDs)
    BY <2>4 DEF Owed
  <2>6. \A i \in IDs : none[i] = 0
    OBVIOUS
  <2>. HIDE DEF none
  <2>7. SumFunctionOnSet(none, IDs) = 0
    <3>1. IsFiniteSet(IDs) /\ {} \in SUBSET IDs /\ IsFiniteSet({}) /\ Numbers(none, {})
      BY QuotaAssumption, FS_EmptySet DEF Numbers
    <3>2. SumFunctionOnSet(none, {}) = SumFunctionOnSet(none, IDs)
      BY <2>6, <3>1, SumMask
    <3>. QED BY <3>1, <3>2, SumType
  <2>. QED BY <2>5, <2>7
<1>3. KeysCanPay
  BY <1>2 DEF KeysCanPay, Room
<1>. QED BY <1>1, <1>3 DEF Affordable, PassedDay, PassedMonth

\* What a key has spent is part of what it owes, so it is within its budgets.
LEMMA AffordableKeepsBudgets ==
  ASSUME IInv, Books, Affordable, NEW k \in Keys \ blind
  PROVE  /\ NotLowered(k, "daily") => WithinBudget(k, "daily", StartOfDay(now))
         /\ NotLowered(k, "monthly") => WithinBudget(k, "monthly", StartOfMonth(now))
<1>1. ASSUME NEW since, NEW limit \in Nat, Room(k, since, limit, 0), limit > 0
      PROVE  Exposure(k, since) <= limit
  <2>1. Exposure(k, since) <= Owed(k, since) /\ Exposure(k, since) \in Nat
    BY ExposureIsOwed
  <2>2. Owed(k, since) \in Nat
    <3>1. \A i \in IDs : Due(i, k, since) <= Due(i, k, since)
      BY DueType
    <3>. QED BY <3>1, OwedMono
  <2>. QED BY <1>1, <2>1, <2>2 DEF Room
<1>2. policy[k].daily \in Nat /\ policy[k].monthly \in Nat
  <2>1. policy[k] \in Policies
    BY DEF IInv, TypeOK
  <2>. QED BY <2>1, QuotaAssumption
<1>3. /\ NotLowered(k, "daily") => Room(k, StartOfDay(now), policy[k].daily, 0)
      /\ NotLowered(k, "monthly") => Room(k, StartOfMonth(now), policy[k].monthly, 0)
  BY <1>2 DEF NotLowered, Affordable, KeysCanPay
<1>. QED BY <1>1, <1>2, <1>3 DEF WithinBudget

\* While no request costs more than its estimate, a key whose budgets have not
\* been lowered and that has no cost outside the tables when they are checked
\* (postgres.go ReserveQuota, handlers.go forwardCompatible) never spends, nor
\* commits to spend, more than its daily and monthly budgets, however many of its
\* requests race, fail, are given up or are cut off.
THEOREM BudgetsKept == Spec => []OnlyUnseenOverdraws
<1>. DEFINE Inv == Books /\ (EstimatesHold => Affordable)
<1>1. Init /\ IInv => Inv
  BY InitBooks, InitAffords
<1>2. IInv /\ IInv' /\ Inv /\ [Next]_vars => Inv'
  <2>. SUFFICES ASSUME IInv, IInv', Inv, [Next]_vars PROVE Inv'
    OBVIOUS
  <2>1. Books'
    BY NextBooks
  <2>2. ASSUME EstimatesHold' PROVE Affordable'
    BY <2>1, <2>2, EstimatesHeld, NextAffords
  <2>. QED BY <2>1, <2>2
<1>3. IInv /\ Inv => OnlyUnseenOverdraws
  BY AffordableKeepsBudgets DEF OnlyUnseenOverdraws
<1>. QED BY <1>1, <1>2, <1>3, Invariance, PTL DEF Spec
=============================================================================
