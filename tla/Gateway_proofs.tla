---------------------------- MODULE Gateway_proofs ----------------------------
(***************************************************************************)
(* What holds of the request handler for every number of requests, every   *)
(* catalogue and every answer of the upstreams.                            *)
(*                                                                         *)
(* The argument follows the program counter.  A handler that may still ask *)
(* an upstream has sent nothing (Silent) and has failed on exactly the     *)
(* candidates before the present one (Tried); it holds quota from the      *)
(* reservation to the settlement, and writes its row of the ledger only    *)
(* with its last step (Kept).                                              *)
(***************************************************************************)
EXTENDS Gateway, FiniteSetTheorems, SequenceTheorems, TLAPS

Early == {"new", "clear", "load", "drop", "hit", "resolve", "reserve"}
Asking == {"attempt", "upstream", "chat"}
Answered == {"copy", "streaming", "store"}
Ending == {"settle", "record"}

\* Every handler has its local variables, whatever their values.
Shape ==
  /\ pc \in [Requests -> PC]
  /\ DOMAIN req = Requests
  /\ \A r \in Requests : DOMAIN req[r] = DOMAIN Idle

\* What a handler has sent, by where it is.
Silent ==
  \A r \in Requests :
    /\ pc[r] \in Early \cup Asking \cup {"copy"} => req[r].reply = None
    /\ pc[r] \in Answered \cup Ending => req[r].reply = None \/ req[r].reply.kind = "upstream"

\* What a handler has tried, by where it is.
Tried ==
  \A r \in Requests :
    /\ req[r].tried \in Nat
    /\ pc[r] \in Early => req[r].answer = None /\ req[r].tried = 0
    /\ pc[r] = "reserve" => req[r].next = 1
    /\ pc[r] \in Asking => req[r].answer = None /\ req[r].next = req[r].tried + 1
    /\ pc[r] \in Answered => req[r].answer \in Statuses
    /\ pc[r] \in Ending /\ req[r].answer = None => req[r].tried = Len(req[r].chain)
    /\ req[r].reply = [kind |-> "upstreamError"] =>
         pc[r] = "done" /\ req[r].tried = Len(req[r].chain)

IInv == Shape /\ Silent /\ Tried

-----------------------------------------------------------------------------
\* The inductive invariant holds before any request.
LEMMA InitIInv == Init => IInv
<1>. SUFFICES ASSUME Init PROVE IInv
  OBVIOUS
<1>1. \A r \in Requests : pc[r] = "new" /\ req[r] = Idle
  BY DEF Init
<1>2. Shape
  BY DEF Init, Shape, PC
<1>3. Silent
  BY <1>1 DEF Silent, Idle, Early, Asking, Answered, Ending
<1>4. Tried
  BY <1>1, GatewayAssumption DEF Tried, Idle, Early, Asking, Answered, Ending
<1>. QED BY <1>2, <1>3, <1>4 DEF IInv

USE DEF Goto, PC, Early, Asking, Answered, Ending

\* One lemma per action of a handler: each keeps the inductive invariant.
LEMMA StepReject ==
  ASSUME IInv, NEW r \in Requests, NEW code, Reject(r, code), code # "upstreamError"
  PROVE  IInv'
BY GatewayAssumption DEF IInv, Shape, Silent, Tried, Idle, Reject

LEMMA StepAuthenticate ==
  ASSUME IInv, NEW r \in Requests, NEW a \in Asks, Authenticate(r, a)
  PROVE  IInv'
<1>1. CASE pc[r] = "new" /\ Goto(r, "clear") /\ req' = [req EXCEPT ![r] = [@ EXCEPT !.ask = a, !.form = Parsed(a.body)]]
  BY <1>1, GatewayAssumption DEF IInv, Shape, Silent, Tried, Idle
<1>2. ASSUME NEW code \in Refusals(a), pc[r] = "new", Goto(r, "done"),
             req' = [req EXCEPT ![r] = [@ EXCEPT !.ask = a, !.reply = [kind |-> code]]]
      PROVE  IInv'
  <2>1. code # "upstreamError"
    BY DEF Refusals
  <2>. QED BY <1>2, <2>1, GatewayAssumption DEF IInv, Shape, Silent, Tried, Idle
<1>. QED BY <1>1, <1>2 DEF Authenticate

LEMMA StepClearCache ==
  ASSUME IInv, NEW r \in Requests, ClearCache(r)
  PROVE  IInv'
BY GatewayAssumption DEF IInv, Shape, Silent, Tried, Idle, ClearCache

LEMMA StepLoadCache ==
  ASSUME IInv, NEW r \in Requests, LoadCache(r)
  PROVE  IInv'
<1>1. CASE (Goto(r, "resolve") \/ Goto(r, "drop")) /\ pc[r] = "load" /\ UNCHANGED req
  BY <1>1, GatewayAssumption DEF IInv, Shape, Silent, Tried, Idle, LoadCache
<1>2. CASE Goto(r, "hit") /\ pc[r] = "load" /\ req' = [req EXCEPT ![r].entry = cache[Slot(r)]]
  BY <1>2, GatewayAssumption DEF IInv, Shape, Silent, Tried, Idle, LoadCache
<1>. QED BY <1>1, <1>2 DEF LoadCache

LEMMA StepDropExpired ==
  ASSUME IInv, NEW r \in Requests, DropExpired(r)
  PROVE  IInv'
BY GatewayAssumption DEF IInv, Shape, Silent, Tried, Idle, DropExpired

LEMMA StepHit ==
  ASSUME IInv, NEW r \in Requests, Hit(r)
  PROVE  IInv'
BY GatewayAssumption DEF IInv, Shape, Silent, Tried, Idle, Hit

LEMMA StepResolve ==
  ASSUME IInv, NEW r \in Requests, Resolve(r)
  PROVE  IInv'
<1>1. CASE Reject(r, "notFound") \/ Reject(r, "mismatch") \/ Reject(r, "noRoutes")
  BY <1>1, StepReject
<1>2. ASSUME NEW next, NEW found, pc[r] = "resolve", UNCHANGED pc,
             req' = [req EXCEPT ![r] = [@ EXCEPT !.next = next, !.found = found]]
      PROVE  IInv'
  BY <1>2, GatewayAssumption DEF IInv, Shape, Silent, Tried, Idle
<1>3. ASSUME NEW found, NEW chain, pc[r] = "resolve", Goto(r, "reserve"),
             req' = [req EXCEPT ![r] = [@ EXCEPT !.next = 1, !.found = found, !.chain = chain]]
      PROVE  IInv'
  BY <1>3, GatewayAssumption DEF IInv, Shape, Silent, Tried, Idle
<1>. QED BY <1>1, <1>2, <1>3 DEF Resolve

LEMMA StepReserve ==
  ASSUME IInv, NEW r \in Requests, Reserve(r)
  PROVE  IInv'
<1>1. CASE pc[r] = "reserve" /\ Goto(r, "attempt") /\ UNCHANGED req
  BY <1>1, GatewayAssumption DEF IInv, Shape, Silent, Tried, Idle, Reserve
<1>2. CASE Reject(r, "quotaExceeded")
  BY <1>2, StepReject
<1>. QED BY <1>1, <1>2 DEF Reserve

LEMMA StepNoAnswer ==
  ASSUME IInv, NEW r \in Requests, NoAnswer(r)
  PROVE  IInv'
BY GatewayAssumption DEF IInv, Shape, Silent, Tried, Idle, NoAnswer

LEMMA StepBuildFails ==
  ASSUME IInv, NEW r \in Requests, BuildFails(r)
  PROVE  IInv'
BY GatewayAssumption DEF IInv, Shape, Silent, Tried, Idle, BuildFails, Reject

LEMMA StepSend ==
  ASSUME IInv, NEW r \in Requests, Send(r)
  PROVE  IInv'
BY GatewayAssumption DEF IInv, Shape, Silent, Tried, Idle, Send

\* What Answer and ChatAnswer share (the loop's test of the upstream's status).
LEMMA StepJudge ==
  ASSUME IInv, NEW r \in Requests, NEW s \in Answers, pc[r] \in {"upstream", "chat"}, Judge(r, s)
  PROVE  IInv'
BY GatewayAssumption DEF IInv, Shape, Silent, Tried, Idle, Judge

LEMMA StepAnswer ==
  ASSUME IInv, NEW r \in Requests, NEW s \in Answers, Answer(r, s)
  PROVE  IInv'
<1>1. CASE pc[r] = "upstream" /\ Goto(r, "chat") /\ UNCHANGED req
  BY <1>1, GatewayAssumption DEF IInv, Shape, Silent, Tried, Idle, Answer
<1>2. CASE pc[r] = "upstream" /\ Judge(r, s)
  BY <1>2, StepJudge
<1>. QED BY <1>1, <1>2 DEF Answer

LEMMA StepChatAnswer ==
  ASSUME IInv, NEW r \in Requests, NEW s \in Answers, ChatAnswer(r, s)
  PROVE  IInv'
BY StepJudge DEF ChatAnswer

LEMMA StepStartStream ==
  ASSUME IInv, NEW r \in Requests, StartStream(r)
  PROVE  IInv'
BY GatewayAssumption DEF IInv, Shape, Silent, Tried, Idle, StartStream, Upstream

LEMMA StepEndStream ==
  ASSUME IInv, NEW r \in Requests, EndStream(r)
  PROVE  IInv'
BY GatewayAssumption DEF IInv, Shape, Silent, Tried, Idle, EndStream

LEMMA StepCopyAnswer ==
  ASSUME IInv, NEW r \in Requests, CopyAnswer(r)
  PROVE  IInv'
BY GatewayAssumption DEF IInv, Shape, Silent, Tried, Idle, CopyAnswer, Upstream

LEMMA StepReadFails ==
  ASSUME IInv, NEW r \in Requests, ReadFails(r)
  PROVE  IInv'
BY GatewayAssumption DEF IInv, Shape, Silent, Tried, Idle, ReadFails

LEMMA StepStoreCache ==
  ASSUME IInv, NEW r \in Requests, StoreCache(r)
  PROVE  IInv'
BY GatewayAssumption DEF IInv, Shape, Silent, Tried, Idle, StoreCache

LEMMA StepSettle ==
  ASSUME IInv, NEW r \in Requests, Settle(r)
  PROVE  IInv'
BY GatewayAssumption DEF IInv, Shape, Silent, Tried, Idle, Settle

LEMMA StepRecord ==
  ASSUME IInv, NEW r \in Requests, Record(r)
  PROVE  IInv'
BY GatewayAssumption DEF IInv, Shape, Silent, Tried, Idle, Record, FinalReply

\* Actions that leave the handlers' variables alone.
LEMMA StepElsewhere ==
  ASSUME IInv, UNCHANGED <<pc, req>>
  PROVE  IInv'
BY DEF IInv, Shape, Silent, Tried

\* Every step keeps the inductive invariant.
LEMMA StepIInv == IInv /\ [Next]_vars => IInv'
<1>. SUFFICES ASSUME IInv, [Next]_vars PROVE IInv'
  OBVIOUS
<1>1. ASSUME NEW r \in Requests, NEW a \in Asks, Authenticate(r, a) PROVE IInv'
  BY <1>1, StepAuthenticate
<1>2. ASSUME NEW r \in Requests, Handle(r) PROVE IInv'
  <2>. USE <1>2
  <2>1. CASE ClearCache(r) \/ LoadCache(r) \/ DropExpired(r) \/ Hit(r)
    BY <2>1, StepClearCache, StepLoadCache, StepDropExpired, StepHit
  <2>2. CASE Resolve(r) \/ Reserve(r)
    BY <2>2, StepResolve, StepReserve
  <2>3. CASE NoAnswer(r) \/ BuildFails(r) \/ Send(r)
    BY <2>3, StepNoAnswer, StepBuildFails, StepSend
  <2>4. CASE \E s \in Answers : Answer(r, s) \/ ChatAnswer(r, s)
    BY <2>4, StepAnswer, StepChatAnswer
  <2>5. CASE StartStream(r) \/ EndStream(r) \/ CopyAnswer(r) \/ ReadFails(r) \/ StoreCache(r)
    BY <2>5, StepStartStream, StepEndStream, StepCopyAnswer, StepReadFails, StepStoreCache
  <2>6. CASE Settle(r) \/ Record(r)
    BY <2>6, StepSettle, StepRecord
  <2>. QED BY <2>1, <2>2, <2>3, <2>4, <2>5, <2>6 DEF Handle
<1>3. CASE \/ \E r \in Requests : Leave(r)
           \/ \E c \in Catalogs : Edit(c)
           \/ \E m \in Models : Disable(m)
           \/ Tick
           \/ UNCHANGED vars
  BY <1>3, StepElsewhere DEF Leave, Edit, Disable, Tick, vars
<1>. QED BY <1>1, <1>2, <1>3 DEF Next

\* What each handler (forwardCompatible) has sent and tried, by where it is:
\* the inductive invariant.
THEOREM Invariance == Spec => []IInv
BY InitIInv, StepIInv, PTL DEF Spec

\* A handler (forwardCompatible) answers "bad gateway" only when it has tried
\* every candidate of its chain.
THEOREM TriesAll == Spec => []GivesUpLast
<1>1. IInv => GivesUpLast
  BY DEF IInv, Tried, GivesUpLast
<1>. QED BY <1>1, Invariance, PTL

-----------------------------------------------------------------------------
(* No failover once the client has been answered *)

\* Only a handler that is asking an upstream counts an attempt.
LEMMA TriedByAsking ==
  ASSUME IInv, NEW r \in Requests, Handle(r), NEW q \in Requests, req'[q].tried # req[q].tried
  PROVE  q = r /\ pc[r] \in Asking
<1>. USE DEF IInv, Shape, Idle
<1>1. CASE ClearCache(r) \/ LoadCache(r) \/ DropExpired(r) \/ Hit(r)
  BY <1>1 DEF ClearCache, LoadCache, DropExpired, Hit
<1>2. CASE Resolve(r) \/ Reserve(r)
  <2>1. ASSUME NEW code, Reject(r, code) PROVE req'[q].tried = req[q].tried
    BY <2>1 DEF Reject
  <2>2. ASSUME NEW next, NEW found, req' = [req EXCEPT ![r] = [@ EXCEPT !.next = next, !.found = found]]
        PROVE  req'[q].tried = req[q].tried
    BY <2>2
  <2>3. ASSUME NEW found, NEW chain,
               req' = [req EXCEPT ![r] = [@ EXCEPT !.next = 1, !.found = found, !.chain = chain]]
        PROVE  req'[q].tried = req[q].tried
    BY <2>3
  <2>4. CASE Resolve(r)
    <3>1. \/ \E code : Reject(r, code)
          \/ \E next, found :
               req' = [req EXCEPT ![r] = [@ EXCEPT !.next = next, !.found = found]]
          \/ \E found, chain :
               req' = [req EXCEPT ![r] = [@ EXCEPT !.next = 1, !.found = found, !.chain = chain]]
      BY <2>4 DEF Resolve
    <3>. QED BY <2>1, <2>2, <2>3, <3>1
  <2>5. CASE Reserve(r)
    BY <2>1, <2>5 DEF Reserve
  <2>. QED BY <1>2, <2>4, <2>5
<1>3. CASE NoAnswer(r)
  BY <1>3 DEF NoAnswer
<1>4. CASE BuildFails(r) \/ Send(r)
  BY <1>4 DEF BuildFails, Send, Reject
<1>5. CASE \E s \in Answers : Answer(r, s) \/ ChatAnswer(r, s)
  BY <1>5 DEF Answer, ChatAnswer, Judge
<1>6. CASE StartStream(r) \/ EndStream(r) \/ CopyAnswer(r) \/ ReadFails(r) \/ StoreCache(r)
  <2>1. CASE StartStream(r)
    BY <2>1 DEF StartStream
  <2>2. ASSUME NEW spent, req' = [req EXCEPT ![r].spent = spent]
        PROVE  req'[q].tried = req[q].tried
    BY <2>2
  <2>3. CASE EndStream(r)
    BY <2>2, <2>3 DEF EndStream
  <2>4. CASE CopyAnswer(r)
    <3>1. ASSUME NEW spent, NEW reply,
                 req' = [req EXCEPT ![r] = [@ EXCEPT !.spent = spent, !.reply = reply]]
          PROVE  req'[q].tried = req[q].tried
      BY <3>1
    <3>2. \E spent, reply :
            req' = [req EXCEPT ![r] = [@ EXCEPT !.spent = spent, !.reply = reply]]
      BY <2>4 DEF CopyAnswer
    <3>. QED BY <3>1, <3>2
  <2>5. CASE ReadFails(r) \/ StoreCache(r)
    BY <2>5 DEF ReadFails, StoreCache
  <2>. QED BY <1>6, <2>1, <2>3, <2>4, <2>5
<1>7. CASE Settle(r) \/ Record(r)
  BY <1>7 DEF Settle, Record
<1>. QED BY <1>1, <1>2, <1>3, <1>4, <1>5, <1>6, <1>7 DEF Handle

\* Once the client has been sent anything (copyCompatibleResponse), the handler
\* asks no other upstream, whatever becomes of the copy.
THEOREM NoSecondAnswer == Spec => NoFailoverAfterReply
<1>1. IInv /\ [Next]_vars =>
        [\A r \in Requests : req[r].reply # None => req'[r].tried = req[r].tried]_vars
  <2>. SUFFICES ASSUME IInv, Next, NEW q \in Requests, req[q].reply # None
                PROVE  req'[q].tried = req[q].tried
    OBVIOUS
  <2>1. pc[q] \notin Asking
    BY DEF IInv, Silent
  <2>2. ASSUME NEW r \in Requests, NEW a \in Asks, Authenticate(r, a)
        PROVE  req'[q].tried = req[q].tried
    <3>. USE DEF IInv, Shape, Idle
    <3>1. CASE req' = [req EXCEPT ![r] = [@ EXCEPT !.ask = a, !.form = Parsed(a.body)]]
      BY <3>1
    <3>2. ASSUME NEW code, req' = [req EXCEPT ![r] = [@ EXCEPT !.ask = a, !.reply = [kind |-> code]]]
          PROVE  req'[q].tried = req[q].tried
      BY <3>2
    <3>. QED BY <2>2, <3>1, <3>2 DEF Authenticate
  <2>3. ASSUME NEW r \in Requests, Handle(r)
        PROVE  req'[q].tried = req[q].tried
    BY <2>1, <2>3, TriedByAsking
  <2>4. CASE \/ \E r \in Requests : Leave(r)
             \/ \E c \in Catalogs : Edit(c)
             \/ \E m \in Models : Disable(m)
             \/ Tick
    BY <2>4 DEF Leave, Edit, Disable, Tick
  <2>. QED BY <2>2, <2>3, <2>4 DEF Next
<1>. QED BY <1>1, Invariance, PTL DEF Spec, NoFailoverAfterReply

-----------------------------------------------------------------------------
(* The books *)

\* What a handler holds, by where it is.
Kept ==
  /\ DOMAIN quota = Requests /\ DOMAIN ledger = Requests
  /\ quota = [r \in Requests |-> quota[r]] /\ ledger = [r \in Requests |-> ledger[r]]
  /\ \A r \in Requests :
       /\ pc[r] \in Early => quota[r] = "none" /\ ledger[r] = {}
       /\ pc[r] \in Asking \cup Answered \cup {"settle"} => quota[r] = "open" /\ ledger[r] = {}
       /\ pc[r] = "record" => quota[r] = "closed" /\ ledger[r] = {}
       /\ pc[r] = "done" =>
            \/ quota[r] = "none"
            \/ req[r].reply = [kind |-> "buildFailed"]
            \/ quota[r] = "closed" /\ (ledger[r] # {} \/ "insertError" \in Faults)

\* No handler holds quota or has a row before it starts.
LEMMA InitKept == Init => Kept
BY DEF Init, Kept, Early, Asking, Answered

\* A handler's steps keep what it holds and has written where it should be.
LEMMA StepKept ==
  ASSUME IInv, Kept, "settleError" \notin Faults, NEW r \in Requests, Handle(r)
  PROVE  Kept'
<1>. USE DEF IInv, Shape, Kept, Idle, books
<1>1. CASE ClearCache(r)
  BY <1>1 DEF ClearCache
<1>2. CASE LoadCache(r)
  BY <1>2 DEF LoadCache
<1>3. CASE DropExpired(r)
  BY <1>3 DEF DropExpired
<1>4. CASE Hit(r)
  BY <1>4 DEF Hit
<1>5. CASE Resolve(r)
  <2>1. /\ pc[r] = "resolve" /\ UNCHANGED <<quota, ledger>>
        /\ Goto(r, "done") \/ UNCHANGED pc \/ Goto(r, "reserve")
    BY <1>5 DEF Resolve, Reject
  <2>2. \A q \in Requests : q # r => req'[q] = req[q]
    BY <1>5 DEF Resolve, Reject
  <2>3. quota[r] = "none" /\ ledger[r] = {}
    BY <2>1 DEF Early
  <2>4. pc'[r] \in {"done", "resolve", "reserve"} /\ \A q \in Requests : q # r => pc'[q] = pc[q]
    BY <2>1
  <2>5. pc'[r] \notin Asking \cup Answered \cup {"settle", "record"}
    BY <2>4 DEF Asking, Answered
  <2>. QED BY <2>1, <2>2, <2>3, <2>4, <2>5
<1>6. CASE Reserve(r)
  BY <1>6 DEF Reserve, Reject
<1>7. CASE NoAnswer(r)
  BY <1>7 DEF NoAnswer
<1>8. CASE BuildFails(r)
  BY <1>8 DEF BuildFails, Reject
<1>9. CASE Send(r)
  BY <1>9 DEF Send
<1>10. ASSUME NEW s \in Answers, Answer(r, s) PROVE Kept'
  BY <1>10 DEF Answer, Judge
<1>11. ASSUME NEW s \in Answers, ChatAnswer(r, s) PROVE Kept'
  BY <1>11 DEF ChatAnswer, Judge
<1>12. CASE StartStream(r)
  BY <1>12 DEF StartStream
<1>13. CASE EndStream(r)
  BY <1>13 DEF EndStream
<1>14. CASE CopyAnswer(r)
  BY <1>14 DEF CopyAnswer
<1>15. CASE ReadFails(r)
  BY <1>15 DEF ReadFails
<1>16. CASE StoreCache(r)
  BY <1>16 DEF StoreCache
<1>17. CASE Settle(r)
  BY <1>17 DEF Settle
<1>18. CASE Record(r)
  <2>1. pc[r] = "record" /\ Goto(r, "done") /\ quota' = quota
    BY <1>18 DEF Record
  <2>2. \/ \E row : ledger' = [ledger EXCEPT ![r] = {row}]
        \/ "insertError" \in Faults /\ ledger' = ledger
    BY <1>18 DEF Record
  <2>3. req' = [req EXCEPT ![r].reply = FinalReply(r)]
    BY <1>18 DEF Record
  <2>4. \A q \in Requests : q # r => req'[q] = req[q]
    BY <2>3
  <2>5. ASSUME NEW row, ledger' = [ledger EXCEPT ![r] = {row}] PROVE Kept'
    <3>1. ledger'[r] # {}
      BY <2>5
    <3>. QED BY <2>1, <2>4, <2>5, <3>1
  <2>6. CASE "insertError" \in Faults /\ ledger' = ledger
    BY <2>1, <2>4, <2>6
  <2>. QED BY <2>2, <2>5, <2>6
<1>. QED
  BY <1>1, <1>2, <1>3, <1>4, <1>5, <1>6, <1>7, <1>8, <1>9,
     <1>10, <1>11, <1>12, <1>13, <1>14, <1>15, <1>16, <1>17, <1>18 DEF Handle

bills == [r \in Requests |-> {e.cost : e \in ledger[r]}]

\* A row that a handler adds to the ledger is one recorded cost.
LEMMA RecordBill ==
  ASSUME Kept, NEW r \in Requests, ledger[r] = {}, NEW row,
         ledger' = [ledger EXCEPT ![r] = {row}]
  PROVE  bills[r] = {} /\ bills' = [bills EXCEPT ![r] = {row.cost}]
<1>1. bills[r] = {}
  BY DEF bills
<1>2. \A q \in Requests : ledger'[q] = IF q = r THEN {row} ELSE ledger[q]
  BY DEF Kept
<1>3. {e.cost : e \in {row}} = {row.cost}
  OBVIOUS
<1>4. \A q \in Requests : bills'[q] = IF q = r THEN {row.cost} ELSE bills[q]
  BY <1>2, <1>3 DEF bills
<1>. QED BY <1>1, <1>4 DEF bills

\* A handler's step is a step of the books, or none.
LEMMA StepBooks ==
  ASSUME IInv, Kept, "settleError" \notin Faults, NEW r \in Requests, Handle(r)
  PROVE  Books!Next \/ UNCHANGED <<quota, bills>>
<1>1. CASE UNCHANGED books
  BY <1>1 DEF books, bills
<1>2. CASE Hit(r)
  <2>1. pc[r] = "hit" /\ quota' = quota
    BY <1>2 DEF Hit
  <2>2. \/ ledger' = [ledger EXCEPT ![r] = {[model |-> req[r].entry.model, cost |-> 0, estimated |-> FALSE]}]
        \/ ledger' = ledger
    BY <1>2 DEF Hit
  <2>3. CASE ledger' = [ledger EXCEPT ![r] = {[model |-> req[r].entry.model, cost |-> 0, estimated |-> FALSE]}]
    <3>1. quota[r] = "none" /\ ledger[r] = {}
      BY <2>1 DEF Kept
    <3>2. bills[r] = {} /\ bills' = [bills EXCEPT ![r] = {0}]
      <4>. DEFINE row == [model |-> req[r].entry.model, cost |-> 0, estimated |-> FALSE]
      <4>1. row.cost = 0 /\ ledger' = [ledger EXCEPT ![r] = {row}]
        BY <2>3
      <4>. HIDE DEF row
      <4>. QED BY <3>1, <4>1, RecordBill
    <3>3. bills'[r] = {0}
      BY <3>2 DEF bills
    <3>4. Books!Record(r)
      BY <2>1, <3>1, <3>2, <3>3 DEF Books!Record, bills
    <3>. QED BY <3>4 DEF Books!Next
  <2>. QED BY <2>1, <2>2, <2>3 DEF bills
<1>3. CASE Reserve(r) /\ ~UNCHANGED books
  <2>1. /\ quota[r] = "none" /\ ledger[r] = {}
        /\ quota' = [quota EXCEPT ![r] = "open"] /\ ledger' = ledger
    BY <1>3 DEF Reserve, Kept, books
  <2>2. Books!Admit(r)
    BY <2>1 DEF Books!Admit
  <2>. QED BY <2>2 DEF Books!Next
<1>4. CASE Settle(r)
  <2>1. quota[r] = "open" /\ quota' = [quota EXCEPT ![r] = "closed"] /\ ledger' = ledger
    BY <1>4 DEF Settle, Kept
  <2>2. Books!Close(r)
    BY <2>1 DEF Books!Close
  <2>. QED BY <2>2 DEF Books!Next
<1>5. CASE Record(r)
  <2>1. pc[r] = "record" /\ quota' = quota
    BY <1>5 DEF Record
  <2>2. \/ \E row : ledger' = [ledger EXCEPT ![r] = {row}]
        \/ ledger' = ledger
    BY <1>5 DEF Record
  <2>3. ASSUME NEW row, ledger' = [ledger EXCEPT ![r] = {row}] PROVE Books!Next
    <3>1. quota[r] = "closed" /\ ledger[r] = {}
      BY <2>1 DEF Kept
    <3>2. bills[r] = {} /\ bills' = [bills EXCEPT ![r] = {row.cost}]
      BY <2>3, <3>1, RecordBill
    <3>3. row.cost \in bills'[r]
      BY <3>2 DEF bills
    <3>4. Books!Record(r)
      BY <2>1, <3>1, <3>2, <3>3 DEF Books!Record, bills
    <3>. QED BY <3>4 DEF Books!Next
  <2>. QED BY <2>1, <2>2, <2>3 DEF bills
<1>6. CASE ClearCache(r) \/ LoadCache(r) \/ DropExpired(r) \/ Resolve(r)
  BY <1>1, <1>6 DEF ClearCache, LoadCache, DropExpired, Resolve
<1>7. CASE NoAnswer(r) \/ BuildFails(r) \/ Send(r) \/ \E s \in Answers : Answer(r, s) \/ ChatAnswer(r, s)
  BY <1>1, <1>7 DEF NoAnswer, BuildFails, Send, Answer, ChatAnswer
<1>8. CASE StartStream(r) \/ EndStream(r) \/ CopyAnswer(r) \/ ReadFails(r) \/ StoreCache(r)
  BY <1>1, <1>8 DEF StartStream, EndStream, CopyAnswer, ReadFails, StoreCache
<1>. QED BY <1>1, <1>2, <1>3, <1>4, <1>5, <1>6, <1>7, <1>8 DEF Handle

\* No other step touches the books.
LEMMA BooksElsewhere ==
  ASSUME Kept,
         \/ \E r \in Requests, a \in Asks : Authenticate(r, a)
         \/ \E r \in Requests : Leave(r)
         \/ \E c \in Catalogs : Edit(c)
         \/ \E m \in Models : Disable(m)
         \/ Tick
         \/ UNCHANGED vars
  PROVE  UNCHANGED books
BY DEF Authenticate, Leave, Edit, Disable, Tick, vars

\* No other step changes what a handler holds, by where it is.
LEMMA StepKeptElsewhere ==
  ASSUME IInv, Kept,
         \/ \E r \in Requests, a \in Asks : Authenticate(r, a)
         \/ \E r \in Requests : Leave(r)
         \/ \E c \in Catalogs : Edit(c)
         \/ \E m \in Models : Disable(m)
         \/ Tick
         \/ UNCHANGED vars
  PROVE  Kept'
<1>. USE DEF IInv, Shape, Kept, Idle
<1>1. UNCHANGED books
  BY BooksElsewhere
<1>2. ASSUME NEW r \in Requests, NEW a \in Asks, Authenticate(r, a) PROVE Kept'
  <2>1. pc[r] = "new" /\ (Goto(r, "clear") \/ Goto(r, "done")) /\ \A q \in Requests : q # r => req'[q] = req[q]
    BY <1>2 DEF Authenticate
  <2>. QED BY <1>1, <2>1 DEF books
<1>3. CASE UNCHANGED <<pc, req>>
  BY <1>1, <1>3 DEF books
<1>. QED BY <1>2, <1>3 DEF Leave, Edit, Disable, Tick, vars

\* What every step does to Kept and to the books.
LEMMA StepBoth ==
  ASSUME IInv, Kept, "settleError" \notin Faults, [Next]_vars
  PROVE  Kept' /\ [Books!Next]_<<quota, bills>>
<1>1. ASSUME NEW r \in Requests, Handle(r) PROVE Kept' /\ [Books!Next]_<<quota, bills>>
  BY <1>1, StepKept, StepBooks
<1>2. CASE ~ \E r \in Requests : Handle(r)
  <2>1. Kept' /\ UNCHANGED books
    BY <1>2, BooksElsewhere, StepKeptElsewhere DEF Next
  <2>. QED BY <2>1 DEF books, bills
<1>. QED BY <1>1, <1>2

\* While settlements do not fail, each handler holds quota exactly from its
\* reservation to its settlement.
LEMMA KeptAlways == ASSUME "settleError" \notin Faults PROVE Spec => []Kept
<1>1. IInv /\ Kept /\ [Next]_vars => Kept'
  BY StepBoth
<1>. QED BY <1>1, InitKept, Invariance, PTL DEF Spec

\* While the store settles what it is asked to (SettleQuota), each request is
\* admitted, settled and billed once and in this order, and one that was not
\* admitted is billed nothing.
THEOREM BooksBalance == ASSUME "settleError" \notin Faults PROVE Spec => BooksSpec
<1>1. Init => Books!Init
  BY DEF Init, Books!Init
<1>2. IInv /\ Kept /\ [Next]_vars => [Books!Next]_<<quota, bills>>
  BY StepBoth
<1>. QED BY <1>1, <1>2, Invariance, KeptAlways, PTL DEF Spec, BooksSpec, Books!Spec, bills

\* While the store also inserts what it is asked to (InsertUsage), a handler
\* returns with its reservation closed and its usage in the ledger, wherever its
\* client left and whatever the upstreams did.
THEOREM AllAccounted ==
  ASSUME {"settleError", "insertError"} \cap Faults = {}
  PROVE  Spec => []EveryEndAccounted
<1>1. "settleError" \notin Faults /\ "insertError" \notin Faults
  OBVIOUS
<1>2. Kept => EveryEndAccounted
  BY <1>1 DEF Kept, EveryEndAccounted, Accounted
<1>. QED BY <1>1, <1>2, KeptAlways, PTL

-----------------------------------------------------------------------------
(* The response cache *)

\* A cached answer e may be given to key k for the request b.
Serves(e, k, b) == e.key = k /\ e.body = b /\ e.status = "ok" /\ ~b.stream

\* What the cache holds, and what a handler has taken from it or may put there.
Cached ==
  /\ DOMAIN cache = Slots
  /\ \A s \in Slots : cache[s] # None => Serves(cache[s], s[1], s[2])
  /\ \A r \in Requests :
       /\ pc[r] # "new" => req[r].ask \in Asks
       /\ pc[r] \in {"load", "drop", "hit"} => ~req[r].ask.body.stream
       /\ pc[r] = "store" => ~req[r].ask.body.stream /\ req[r].answer = "ok"
       /\ pc[r] = "new" => req[r].entry = None
       /\ req[r].entry # None => Serves(req[r].entry, req[r].ask.key, req[r].ask.body)

\* The cache is empty before the first request.
LEMMA InitCached == Init => Cached
BY DEF Init, Cached, Idle

\* What is asked does not change, and only LoadCache takes an entry.
LEMMA HandleAsks ==
  ASSUME IInv, NEW r \in Requests, Handle(r), NEW q \in Requests
  PROVE  req'[q].ask = req[q].ask /\ (req'[q].entry = req[q].entry \/ LoadCache(r))
<1>. USE DEF IInv, Shape, Idle
<1>1. CASE ClearCache(r) \/ LoadCache(r) \/ DropExpired(r) \/ Hit(r)
  BY <1>1 DEF ClearCache, LoadCache, DropExpired, Hit
<1>2. CASE Resolve(r) \/ Reserve(r)
  <2>1. ASSUME NEW code, Reject(r, code) PROVE req'[q].ask = req[q].ask /\ req'[q].entry = req[q].entry
    BY <2>1 DEF Reject
  <2>2. ASSUME NEW next, NEW found, req' = [req EXCEPT ![r] = [@ EXCEPT !.next = next, !.found = found]]
        PROVE  req'[q].ask = req[q].ask /\ req'[q].entry = req[q].entry
    BY <2>2
  <2>3. ASSUME NEW found, NEW chain,
               req' = [req EXCEPT ![r] = [@ EXCEPT !.next = 1, !.found = found, !.chain = chain]]
        PROVE  req'[q].ask = req[q].ask /\ req'[q].entry = req[q].entry
    BY <2>3
  <2>4. CASE Resolve(r)
    <3>1. \/ \E code : Reject(r, code)
          \/ \E next, found :
               req' = [req EXCEPT ![r] = [@ EXCEPT !.next = next, !.found = found]]
          \/ \E found, chain :
               req' = [req EXCEPT ![r] = [@ EXCEPT !.next = 1, !.found = found, !.chain = chain]]
      BY <2>4 DEF Resolve
    <3>. QED BY <2>1, <2>2, <2>3, <3>1
  <2>5. CASE Reserve(r)
    BY <2>1, <2>5 DEF Reserve
  <2>. QED BY <1>2, <2>4, <2>5
<1>3. CASE NoAnswer(r)
  BY <1>3 DEF NoAnswer
<1>4. CASE BuildFails(r) \/ Send(r)
  BY <1>4 DEF BuildFails, Send, Reject
<1>5. CASE \E s \in Answers : Answer(r, s) \/ ChatAnswer(r, s)
  <2>1. ASSUME NEW s, Judge(r, s)
        PROVE  req'[q].ask = req[q].ask /\ req'[q].entry = req[q].entry
    <3>. DEFINE retry  == s = "retryable" /\ req[r].next < Len(req[r].chain)
                next   == IF retry THEN req[r].next + 1 ELSE req[r].next
                answer == IF retry THEN None ELSE s
                tried  == req[r].tried + 1
    <3>1. req' = [req EXCEPT ![r] = [@ EXCEPT !.next = next, !.answer = answer, !.tried = tried]]
      BY <2>1 DEF Judge
    <3>. HIDE DEF next, answer, tried
    <3>. QED BY <3>1
  <2>. QED BY <1>5, <2>1 DEF Answer, ChatAnswer
<1>6. CASE StartStream(r) \/ EndStream(r)
  <2>1. ASSUME NEW spent, req' = [req EXCEPT ![r].spent = spent]
        PROVE  req'[q].ask = req[q].ask /\ req'[q].entry = req[q].entry
    BY <2>1
  <2>. QED BY <1>6, <2>1 DEF StartStream, EndStream
<1>7. CASE CopyAnswer(r)
  <2>1. ASSUME NEW spent, NEW reply,
               req' = [req EXCEPT ![r] = [@ EXCEPT !.spent = spent, !.reply = reply]]
        PROVE  req'[q].ask = req[q].ask /\ req'[q].entry = req[q].entry
    BY <2>1
  <2>2. \E spent, reply :
          req' = [req EXCEPT ![r] = [@ EXCEPT !.spent = spent, !.reply = reply]]
    BY <1>7 DEF CopyAnswer
  <2>. QED BY <2>1, <2>2
<1>8. CASE ReadFails(r) \/ StoreCache(r) \/ Settle(r) \/ Record(r)
  BY <1>8 DEF ReadFails, StoreCache, Settle, Record
<1>. QED BY <1>1, <1>2, <1>3, <1>4, <1>5, <1>6, <1>7, <1>8 DEF Handle

\* The handler comes to the cache only for a request that uses it.
LEMMA HandleComes ==
  ASSUME IInv, NEW r \in Requests, Handle(r)
  PROVE  /\ pc' = [pc EXCEPT ![r] = pc'[r]] /\ pc'[r] # "new"
         /\ pc'[r] \in {"load", "drop", "hit"} =>
              pc[r] \in {"load", "drop", "hit"} \/ Uses(req[r].ask)
         /\ pc'[r] = "store" => Uses(req[r].ask) /\ req'[r].answer = "ok"
         /\ \A q \in Requests : q # r => req'[q] = req[q]
<1>. USE DEF IInv, Shape, Idle
<1>1. CASE ClearCache(r) \/ LoadCache(r) \/ DropExpired(r) \/ Hit(r)
  BY <1>1 DEF ClearCache, LoadCache, DropExpired, Hit
<1>2. CASE Resolve(r) \/ Reserve(r) \/ NoAnswer(r) \/ BuildFails(r) \/ Send(r)
  BY <1>2 DEF Resolve, Reserve, NoAnswer, BuildFails, Send, Reject
<1>3. CASE \E s \in Answers : Answer(r, s) \/ ChatAnswer(r, s)
  BY <1>3 DEF Answer, ChatAnswer, Judge
<1>4. CASE StartStream(r) \/ EndStream(r) \/ ReadFails(r) \/ StoreCache(r) \/ Settle(r) \/ Record(r)
  BY <1>4 DEF StartStream, EndStream, ReadFails, StoreCache, Settle, Record
<1>5. CASE CopyAnswer(r)
  <2>1. PICK spent, reply, label :
          /\ req' = [req EXCEPT ![r] = [@ EXCEPT !.spent = spent, !.reply = reply]]
          /\ Goto(r, label) /\ label \in {"store", "settle"}
          /\ label = "store" => Uses(req[r].ask) /\ req[r].answer = "ok"
    BY <1>5 DEF CopyAnswer
  <2>. QED BY <2>1
<1>. QED BY <1>1, <1>2, <1>3, <1>4, <1>5 DEF Handle

\* What the cache holds after a handler's step.
LEMMA HandleStores ==
  ASSUME IInv, Cached, NEW r \in Requests, Handle(r)
  PROVE  /\ DOMAIN cache' = Slots
         /\ \A s \in Slots : cache'[s] # None => Serves(cache'[s], s[1], s[2])
<1>1. CASE cache' = cache
  BY <1>1 DEF Cached
<1>2. CASE ClearCache(r) \/ DropExpired(r)
  BY <1>2 DEF ClearCache, DropExpired, Cached
<1>3. CASE StoreCache(r)
  <2>. DEFINE e == [key |-> req[r].ask.key, body |-> req[r].ask.body, model |-> Current(r).model,
                    status |-> req[r].answer, at |-> now, ttl |-> req[r].ask.ttl]
  <2>1. cache' = [cache EXCEPT ![Slot(r)] = e]
    BY <1>3 DEF StoreCache
  <2>2. Serves(e, Slot(r)[1], Slot(r)[2])
    BY <1>3 DEF StoreCache, Cached, Serves, Slot
  <2>. HIDE DEF e
  <2>. QED BY <2>1, <2>2 DEF Cached
<1>. QED BY <1>1, <1>2, <1>3 DEF Handle, LoadCache, Hit, Resolve, Reserve, NoAnswer, BuildFails, Send,
            Answer, ChatAnswer, StartStream, EndStream, CopyAnswer, ReadFails, Settle, Record

\* A handler's step keeps what the cache and the handlers hold.
LEMMA StepCached ==
  ASSUME IInv, Cached, NEW r \in Requests, Handle(r)
  PROVE  Cached'
<1>1. /\ DOMAIN cache' = Slots
      /\ \A s \in Slots : cache'[s] # None => Serves(cache'[s], s[1], s[2])
  BY HandleStores
<1>2. pc[r] # "new"
  BY DEF Handle, ClearCache, LoadCache, DropExpired, Hit, Resolve, Reserve, NoAnswer, BuildFails, Send,
         Answer, ChatAnswer, StartStream, EndStream, CopyAnswer, ReadFails, StoreCache, Settle, Record
<1>3. req[r].ask \in Asks /\ req'[r].ask = req[r].ask
  BY <1>2, HandleAsks DEF Cached
<1>4. pc'[r] \in {"load", "drop", "hit", "store"} => ~req'[r].ask.body.stream
  BY <1>3, HandleComes DEF Cached, Uses
<1>5. pc'[r] = "store" => req'[r].answer = "ok"
  BY HandleComes
<1>6. req'[r].entry # None => Serves(req'[r].entry, req'[r].ask.key, req'[r].ask.body)
  <2>1. CASE req'[r].entry = req[r].entry
    BY <1>3, <2>1 DEF Cached
  <2>2. CASE LoadCache(r) /\ req' = [req EXCEPT ![r].entry = cache[Slot(r)]]
    <3>1. Slot(r) \in Slots /\ Slot(r)[1] = req[r].ask.key /\ Slot(r)[2] = req[r].ask.body
      BY <1>3 DEF Slot, Slots
    <3>2. req'[r].entry = cache[Slot(r)]
      BY <2>2 DEF IInv, Shape, Idle
    <3>. QED BY <1>3, <3>1, <3>2 DEF Cached
  <2>3. LoadCache(r) => req' = [req EXCEPT ![r].entry = cache[Slot(r)]] \/ req' = req
    BY DEF LoadCache
  <2>. QED BY <2>1, <2>2, <2>3, HandleAsks
<1>7. pc'[r] # "new"
  BY HandleComes
<1>8. \A q \in Requests : q # r => req'[q] = req[q] /\ pc'[q] = pc[q]
  BY HandleComes DEF IInv, Shape
<1>. QED BY <1>1, <1>3, <1>4, <1>5, <1>6, <1>7, <1>8 DEF Cached

\* A new request has no entry; what is asked is from Asks.
LEMMA StepCachedElsewhere ==
  ASSUME IInv, Cached,
         \/ \E r \in Requests, a \in Asks : Authenticate(r, a)
         \/ \E r \in Requests : Leave(r)
         \/ \E c \in Catalogs : Edit(c)
         \/ \E m \in Models : Disable(m)
         \/ Tick
         \/ UNCHANGED vars
  PROVE  Cached'
<1>1. ASSUME NEW r \in Requests, NEW a \in Asks, Authenticate(r, a) PROVE Cached'
  <2>1. /\ pc[r] = "new" /\ cache' = cache
        /\ pc' = [pc EXCEPT ![r] = "clear"] \/ pc' = [pc EXCEPT ![r] = "done"]
    BY <1>1 DEF Authenticate
  <2>2. req'[r].ask = a /\ req'[r].entry = req[r].entry /\ \A q \in Requests : q # r => req'[q] = req[q]
    <3>1. CASE req' = [req EXCEPT ![r] = [@ EXCEPT !.ask = a, !.form = Parsed(a.body)]]
      BY <3>1 DEF IInv, Shape, Idle
    <3>2. ASSUME NEW code, req' = [req EXCEPT ![r] = [@ EXCEPT !.ask = a, !.reply = [kind |-> code]]]
          PROVE  req'[r].ask = a /\ req'[r].entry = req[r].entry /\ \A q \in Requests : q # r => req'[q] = req[q]
      BY <3>2 DEF IInv, Shape, Idle
    <3>. QED BY <1>1, <3>1, <3>2 DEF Authenticate
  <2>3. req'[r].entry = None
    BY <2>1, <2>2 DEF Cached
  <2>. QED BY <2>1, <2>2, <2>3 DEF Cached, IInv, Shape
<1>2. CASE UNCHANGED <<cache, pc, req>>
  BY <1>2 DEF Cached
<1>. QED BY <1>1, <1>2 DEF Leave, Edit, Disable, Tick, vars

\* However requests fill, clear, expire and read the cache at once
\* (loadResponseCache, storeResponseCache), an answer is given from it only to
\* the API key it was made for, to the same request, and only a success.
THEOREM CacheServes == Spec => []CacheServesOwn
<1>1. Cached => CacheServesOwn
  BY DEF Cached, Serves, CacheServesOwn
<1>2. IInv /\ Cached /\ [Next]_vars => Cached'
  <2>. SUFFICES ASSUME IInv, Cached, [Next]_vars PROVE Cached'
    OBVIOUS
  <2>1. ASSUME NEW r \in Requests, Handle(r) PROVE Cached'
    BY <2>1, StepCached
  <2>2. CASE ~ \E r \in Requests : Handle(r)
    BY <2>2, StepCachedElsewhere DEF Next
  <2>. QED BY <2>1, <2>2
<1>. QED BY <1>1, <1>2, InitCached, Invariance, PTL DEF Spec

-----------------------------------------------------------------------------
(* The selection of candidates *)

\* R puts any two members of S in one order.
StrictTotal(S, R) ==
  /\ \A i, j \in S : i # j => <<i, j>> \in R \/ <<j, i>> \in R
  /\ \A i, j \in S : ~(<<i, j>> \in R /\ <<j, i>> \in R)
  /\ \A i, j, k \in S : <<i, j>> \in R /\ <<j, k>> \in R => <<i, k>> \in R

\* A finite set has an enumeration in a strict total order: the place of a member is
\* the number of those before it.
LEMMA Enumerable ==
  ASSUME NEW S, IsFiniteSet(S), NEW R, StrictTotal(S, R)
  PROVE  \E s \in [1 .. Cardinality(S) -> S] : \A k, l \in 1 .. Cardinality(S) : k < l => <<s[k], s[l]>> \in R
<1>. DEFINE n == Cardinality(S)
            before(i) == {j \in S : <<j, i>> \in R}
            place == [i \in S |-> Cardinality(before(i)) + 1]
<1>1. n \in Nat
  BY FS_CardinalityType
<1>2. ASSUME NEW i \in S, NEW T \in SUBSET S, i \notin T
      PROVE  IsFiniteSet(T) /\ Cardinality(T) \in Nat /\ Cardinality(T) < n
  BY <1>1, <1>2, FS_Subset, FS_CardinalityType
<1>3. ASSUME NEW i \in S PROVE place[i] \in 1 .. n
  <2>1. before(i) \in SUBSET S /\ i \notin before(i)
    BY DEF StrictTotal
  <2>2. Cardinality(before(i)) \in Nat /\ Cardinality(before(i)) < n
    BY <1>2, <2>1
  <2>. HIDE DEF n, before
  <2>. QED BY <1>1, <2>2
<1>4. ASSUME NEW i \in S, NEW j \in S, <<i, j>> \in R PROVE place[i] < place[j]
  <2>1. before(i) \in SUBSET before(j) /\ i \in before(j) /\ i \notin before(i) /\ before(j) \in SUBSET S /\ j \notin before(j)
    BY <1>4 DEF StrictTotal
  <2>2. IsFiniteSet(before(j)) /\ Cardinality(before(j)) \in Nat
    BY <1>2, <2>1
  <2>. HIDE DEF before
  <2>3. Cardinality(before(i)) <= Cardinality(before(j)) /\ Cardinality(before(i)) # Cardinality(before(j)) /\ Cardinality(before(i)) \in Nat
    BY <2>1, <2>2, FS_Subset, FS_CardinalityType
  <2>. QED BY <2>2, <2>3
<1>. HIDE DEF place
<1>5. place \in [S -> 1 .. n]
  BY <1>3 DEF place
<1>6. \A i, j \in S : place[i] = place[j] => i = j
  <2>. SUFFICES ASSUME NEW i \in S, NEW j \in S, i # j PROVE place[i] # place[j]
    OBVIOUS
  <2>1. <<i, j>> \in R \/ <<j, i>> \in R
    BY DEF StrictTotal
  <2>2. place[i] \in Int /\ place[j] \in Int
    BY <1>1, <1>5
  <2>. QED BY <1>4, <2>1, <2>2
<1>7. place \in Injection(S, 1 .. n)
  BY <1>5, <1>6 DEF Injection, IsInjective
<1>8. IsFiniteSet(1 .. n) /\ Cardinality(1 .. n) = n
  BY <1>1, FS_Interval
<1>9. place \in Surjection(S, 1 .. n)
  BY <1>7, <1>8, FS_Injection
<1>10. \A k \in 1 .. n : \E i \in S : place[i] = k
  BY <1>9 DEF Surjection
<1>. DEFINE s == [k \in 1 .. n |-> CHOOSE i \in S : place[i] = k]
<1>11. \A k \in 1 .. n : s[k] \in S /\ place[s[k]] = k
  BY <1>10
<1>12. s \in [1 .. n -> S]
  BY <1>11
<1>. HIDE DEF s, n
<1>13. ASSUME NEW k \in 1 .. n, NEW l \in 1 .. n, k < l PROVE <<s[k], s[l]>> \in R
  <2>1. s[k] \in S /\ s[l] \in S /\ place[s[k]] = k /\ place[s[l]] = l /\ s[k] # s[l]
    BY <1>1, <1>11, <1>13
  <2>2. ~ <<s[l], s[k]>> \in R
    BY <1>1, <1>4, <1>13, <2>1
  <2>. QED BY <2>1, <2>2 DEF StrictTotal
<1>. QED BY <1>12, <1>13 DEF n

\* What InOrder returns: every member once, in order.
LEMMA InOrderSorts ==
  ASSUME NEW S, IsFiniteSet(S), NEW R, StrictTotal(S, R)
  PROVE  /\ InOrder(S, R) \in Seq(S) /\ ToSet(InOrder(S, R)) = S
         /\ \A k, l \in 1 .. Len(InOrder(S, R)) : k < l => <<InOrder(S, R)[k], InOrder(S, R)[l]>> \in R
<1>. DEFINE n == Cardinality(S)
            s == InOrder(S, R)
<1>1. n \in Nat
  BY FS_CardinalityType
<1>2. s \in [1 .. n -> S] /\ \A k, l \in 1 .. n : k < l => <<s[k], s[l]>> \in R
  BY Enumerable DEF InOrder
<1>. HIDE DEF s, n
<1>3. s \in Seq(S) /\ Len(s) = n /\ DOMAIN s = 1 .. n
  BY <1>1, <1>2, SeqDef, LenProperties
<1>4. \A k, l \in 1 .. n : s[k] = s[l] => k = l
  <2>. SUFFICES ASSUME NEW k \in 1 .. n, NEW l \in 1 .. n, k < l PROVE s[k] # s[l]
    BY <1>1
  <2>. QED BY <1>2 DEF StrictTotal
<1>5. s \in Surjection(1 .. n, S)
  <2>1. s \in Injection(1 .. n, S)
    BY <1>2, <1>4 DEF Injection, IsInjective
  <2>2. IsFiniteSet(1 .. n) /\ Cardinality(1 .. n) = n
    BY <1>1, FS_Interval
  <2>. QED BY <2>1, <2>2, FS_Injection DEF n
<1>6. ToSet(s) = S
  BY <1>2, <1>3, <1>5 DEF ToSet, Surjection
<1>. QED BY <1>2, <1>3, <1>6 DEF s

\* The least number of a set of numbers.
LEMMA Least ==
  ASSUME NEW T \in SUBSET Nat, T # {}
  PROVE  \E m \in T : \A k \in T : m <= k
<1>1. PICK m \in T : \A k \in T : ~ <<k, m>> \in OpToRel(<, Nat)
  BY NatLessThanWellFounded, WFMin, Zenon
<1>2. \A k \in T : ~ k < m
  BY <1>1 DEF OpToRel
<1>. QED BY <1>2

\* A list's entry that is first of its value.
LEMMA FirstIn ==
  ASSUME NEW list, NEW n \in Nat, DOMAIN list = 1 .. n, NEW x \in ToSet(list)
  PROVE  \E i \in 1 .. n : list[i] = x /\ \A j \in 1 .. i - 1 : list[j] # x
<1>. DEFINE T == {i \in 1 .. n : list[i] = x}
<1>1. T \in SUBSET Nat /\ T # {}
  BY DEF ToSet
<1>2. PICK m \in T : \A k \in T : m <= k
  BY <1>1, Least
<1>. QED BY <1>2

\* parseStringList returns a list without repetitions.
LEMMA StringListProper ==
  ASSUME NEW list, NEW n \in Nat, DOMAIN list = 1 .. n
  PROVE  LET s == StringList(list)
         IN  /\ s \in Seq(ToSet(list) \ {Blank}) /\ ToSet(s) = ToSet(list) \ {Blank}
             /\ \A k, l \in 1 .. Len(s) : s[k] = s[l] => k = l
<1>. DEFINE given == ToSet(list) \ {Blank}
            order == {p \in given \X given : \E i \in DOMAIN list : list[i] = p[1] /\ \A j \in 1 .. i : list[j] # p[2]}
            s == StringList(list)
<1>1. IsFiniteSet(given)
  <2>1. [i \in 1 .. n |-> list[i]] \in Surjection(1 .. n, ToSet(list))
    BY DEF Surjection, ToSet
  <2>2. IsFiniteSet(1 .. n)
    BY FS_Interval
  <2>3. IsFiniteSet(ToSet(list))
    BY <2>1, <2>2, FS_Surjection
  <2>. QED BY <2>3, FS_Subset
<1>2. \A x, y \in given : <<x, y>> \in order <=> \E i \in 1 .. n : list[i] = x /\ \A j \in 1 .. i : list[j] # y
  OBVIOUS
<1>. HIDE DEF order
<1>3. StrictTotal(given, order)
  <2>1. ASSUME NEW x \in given, NEW y \in given, x # y PROVE <<x, y>> \in order \/ <<y, x>> \in order
    <3>1. PICK i \in 1 .. n : list[i] = x /\ \A j \in 1 .. i - 1 : list[j] # x
      BY FirstIn
    <3>2. PICK k \in 1 .. n : list[k] = y /\ \A j \in 1 .. k - 1 : list[j] # y
      BY FirstIn
    <3>3. CASE i < k
      <4>1. \A j \in 1 .. i : list[j] # y
        BY <3>2, <3>3
      <4>. QED BY <1>2, <3>1, <4>1
    <3>4. CASE k < i
      <4>1. \A j \in 1 .. k : list[j] # x
        BY <3>1, <3>4
      <4>. QED BY <1>2, <3>2, <4>1
    <3>5. i # k
      BY <2>1, <3>1, <3>2
    <3>. QED BY <3>3, <3>4, <3>5
  <2>2. ASSUME NEW x \in given, NEW y \in given, <<x, y>> \in order, <<y, x>> \in order PROVE FALSE
    <3>1. PICK i \in 1 .. n : list[i] = x /\ \A j \in 1 .. i : list[j] # y
      BY <1>2, <2>2
    <3>2. PICK k \in 1 .. n : list[k] = y /\ \A j \in 1 .. k : list[j] # x
      BY <1>2, <2>2
    <3>3. ~(k <= i) /\ ~(i <= k)
      BY <3>1, <3>2
    <3>. QED BY <3>3
  <2>3. ASSUME NEW x \in given, NEW y \in given, NEW z \in given, <<x, y>> \in order, <<y, z>> \in order
        PROVE  <<x, z>> \in order
    <3>1. PICK i \in 1 .. n : list[i] = x /\ \A j \in 1 .. i : list[j] # y
      BY <1>2, <2>3
    <3>2. PICK k \in 1 .. n : list[k] = y /\ \A j \in 1 .. k : list[j] # z
      BY <1>2, <2>3
    <3>3. i < k
      BY <3>1, <3>2
    <3>4. \A j \in 1 .. i : list[j] # z
      BY <3>2, <3>3
    <3>. QED BY <1>2, <3>1, <3>4
  <2>. QED BY <2>1, <2>2, <2>3 DEF StrictTotal
<1>4. s = InOrder(given, order)
  BY DEF StringList, order
<1>. HIDE DEF given, s
<1>5. /\ s \in Seq(given) /\ ToSet(s) = given
      /\ \A k, l \in 1 .. Len(s) : k < l => <<s[k], s[l]>> \in order
  BY <1>1, <1>3, <1>4, InOrderSorts
<1>6. \A k, l \in 1 .. Len(s) : s[k] = s[l] => k = l
  <2>. SUFFICES ASSUME NEW k \in 1 .. Len(s), NEW l \in 1 .. Len(s), k < l PROVE s[k] # s[l]
    BY <1>5, LenProperties
  <2>1. s[k] \in given /\ s[l] \in given
    BY <1>5, ElementOfSeq
  <2>. QED BY <1>3, <1>5, <2>1 DEF StrictTotal
<1>. QED BY <1>5, <1>6 DEF given, s

\* A candidate is what was read for some alias from some catalogue.
Cands == {[model |-> m, index |-> i, provider |-> c[m].provider, served |-> c[m].served,
           prompt |-> c[m].prompt, completion |-> c[m].completion, priority |-> c[m].priority,
           weight |-> c[m].weight, protocols |-> c[m].protocols] : c \in Catalogs, m \in Models, i \in Nat}

\* Its prices, weights and place are numbers.
LEMMA CandsTyped ==
  \A c \in Cands : /\ c.prompt \in Int /\ c.completion \in Int /\ c.priority \in Int /\ c.weight \in Int
                   /\ c.index \in Nat /\ c.model \in Models /\ Price(c) \in Int
BY GatewayAssumption DEF Cands, Price

\* Preferences as they are parsed.
Proper(prefs) ==
  /\ \E X : prefs.order \in Seq(X)
  /\ \A k, l \in 1 .. Len(prefs.order) : prefs.order[k] = prefs.order[l] => k = l
  /\ prefs.maxPrompt \in Int /\ prefs.maxCompletion \in Int

\* The place of a provider that is in the order is where it is found.
LEMMA RankTyped ==
  ASSUME NEW X, NEW order \in Seq(X), NEW p
  PROVE  /\ Rank(p, order) \in 1 .. Len(order) + 1
         /\ Rank(p, order) # Len(order) + 1 => order[Rank(p, order)] = p
         /\ Rank(p, order) = Len(order) + 1 => \A i \in 1 .. Len(order) : order[i] # p
<1>1. Len(order) \in Nat /\ DOMAIN order = 1 .. Len(order)
  BY LenProperties
<1>2. CASE \E i \in DOMAIN order : order[i] = p
  <2>1. Rank(p, order) \in DOMAIN order /\ order[Rank(p, order)] = p
    BY <1>2 DEF Rank
  <2>. QED BY <1>1, <2>1
<1>3. CASE ~ \E i \in DOMAIN order : order[i] = p
  BY <1>1, <1>3 DEF Rank
<1>. QED BY <1>2, <1>3

\* The order of attempts is strict and total on candidates of different aliases.
LEMMA BeforeTotal ==
  ASSUME NEW C \in SUBSET Cands, \A a, b \in C : a.index = b.index => a = b, NEW prefs, Proper(prefs)
  PROVE  StrictTotal(C, {p \in C \X C : Before(p[1], p[2], prefs)})
<1>. DEFINE R == {p \in C \X C : Before(p[1], p[2], prefs)}
<1>1. \A a, b \in C : <<a, b>> \in R <=> Before(a, b, prefs)
  OBVIOUS
<1>. HIDE DEF R
<1>2. \A a \in C : Rank(a.provider, prefs.order) \in Int
  BY RankTyped, LenProperties DEF Proper
<1>3. \A a \in C : a.priority \in Int /\ a.weight \in Int /\ a.index \in Int /\ Price(a) \in Int
  BY CandsTyped
<1>4. ASSUME NEW a \in C, NEW b \in C PROVE ~(Before(a, b, prefs) /\ Before(b, a, prefs))
  BY <1>2, <1>3 DEF Before, Preferred
<1>5. ASSUME NEW a \in C, NEW b \in C, a # b PROVE Before(a, b, prefs) \/ Before(b, a, prefs)
  <2>1. a.index # b.index
    BY <1>5
  <2>. QED BY <1>2, <1>3, <2>1 DEF Before, Preferred
<1>6. ASSUME NEW a \in C, NEW b \in C, NEW c \in C, Before(a, b, prefs), Before(b, c, prefs)
      PROVE  Before(a, c, prefs)
  BY <1>2, <1>3, <1>6 DEF Before, Preferred
<1>. QED BY <1>1, <1>4, <1>5, <1>6 DEF StrictTotal, R

\* Where a provider is found in the order, 0 if it is not.
LEMMA FoundAt ==
  ASSUME NEW prefs, Proper(prefs), NEW c
  PROVE  SelectInSeq(prefs.order, LAMBDA p : p = c.provider) =
           IF Rank(c.provider, prefs.order) = Len(prefs.order) + 1 THEN 0 ELSE Rank(c.provider, prefs.order)
<1>. DEFINE rank == Rank(c.provider, prefs.order)
            I == {i \in 1 .. Len(prefs.order) : prefs.order[i] = c.provider}
<1>0. SelectInSeq(prefs.order, LAMBDA p : p = c.provider) = IF I # {} THEN Min(I) ELSE 0
  BY DEF SelectInSeq
<1>1. /\ Len(prefs.order) \in Nat
      /\ rank \in 1 .. Len(prefs.order) + 1
      /\ rank # Len(prefs.order) + 1 => prefs.order[rank] = c.provider
      /\ rank = Len(prefs.order) + 1 => \A i \in 1 .. Len(prefs.order) : prefs.order[i] # c.provider
  BY RankTyped, LenProperties DEF Proper
<1>. HIDE DEF rank
<1>2. CASE rank = Len(prefs.order) + 1
  <2>1. I = {}
    BY <1>1, <1>2
  <2>. QED BY <1>0, <1>2, <2>1 DEF rank
<1>3. CASE rank # Len(prefs.order) + 1
  <2>1. rank \in 1 .. Len(prefs.order) /\ prefs.order[rank] = c.provider
    BY <1>1, <1>3
  <2>2. I = {rank}
    BY <2>1 DEF Proper
  <2>. HIDE DEF I
  <2>3. Min(I) = rank
    BY <2>1, <2>2 DEF Min
  <2>. QED BY <1>0, <1>3, <2>2, <2>3 DEF rank
<1>. QED BY <1>2, <1>3

\* The selection (sortCandidates) does what the preferences ask for.
LEMMA SelectHonours ==
  ASSUME NEW found \in Seq(Cands), NEW prefs, Proper(prefs),
         \A a, b \in ToSet(found) : a.index = b.index \/ a.model = b.model => a = b
  PROVE  /\ Honours(Select(found, prefs), found, prefs)
         /\ Select(found, prefs) \in Seq(ToSet(found))
<1>. DEFINE C == {c \in ToSet(found) : Eligible(c, prefs)}
            R == {p \in C \X C : Before(p[1], p[2], prefs)}
            chain == Select(found, prefs)
<1>1. C \in SUBSET Cands /\ C \in SUBSET ToSet(found) /\ IsFiniteSet(C)
  <2>1. \A i \in DOMAIN found : found[i] \in Cands
    BY ElementOfSeq, LenProperties
  <2>2. found \in Surjection(DOMAIN found, ToSet(found)) /\ IsFiniteSet(DOMAIN found)
    <3>1. IsFiniteSet(1 .. Len(found)) /\ DOMAIN found = 1 .. Len(found)
      BY FS_Interval, LenProperties
    <3>. QED BY <3>1 DEF Surjection, ToSet
  <2>3. IsFiniteSet(ToSet(found))
    BY <2>2, FS_Surjection
  <2>4. C \in SUBSET ToSet(found)
    OBVIOUS
  <2>. HIDE DEF C
  <2>5. IsFiniteSet(C)
    BY <2>3, <2>4, FS_Subset
  <2>. QED BY <2>1, <2>4, <2>5 DEF ToSet
<1>2. StrictTotal(C, R)
  BY <1>1, BeforeTotal
<1>3. chain = InOrder(C, R)
  BY DEF Select
<1>4. \A a, b \in C : <<a, b>> \in R <=> Before(a, b, prefs)
  OBVIOUS
<1>. HIDE DEF C, R, chain
<1>5. /\ chain \in Seq(C) /\ ToSet(chain) = C
      /\ \A k, l \in 1 .. Len(chain) : k < l => <<chain[k], chain[l]>> \in R
  BY <1>1, <1>2, <1>3, InOrderSorts
<1>6. \A k \in 1 .. Len(chain) : chain[k] \in C
  BY <1>5, ElementOfSeq
<1>7. Len(chain) \in Nat /\ DOMAIN chain = 1 .. Len(chain)
  BY <1>5, LenProperties
<1>8. ToSet(chain) = {c \in ToSet(found) :
                    /\ c.provider \notin prefs.ignore
                    /\ prefs.only # {} => c.provider \in prefs.only
                    /\ ~prefs.fallbacks /\ prefs.order # <<>> =>
                         \E i \in DOMAIN prefs.order : prefs.order[i] = c.provider
                    /\ \A p \in prefs.require : p \in SupportedParameters(c)
                    /\ prefs.maxPrompt \in 1 .. (c.prompt - 1) => FALSE
                    /\ prefs.maxCompletion \in 1 .. (c.completion - 1) => FALSE}
  <2>1. \A i \in DOMAIN found : found[i] \in Cands
    BY ElementOfSeq, LenProperties
  <2>2. \A c \in ToSet(found) : c.prompt \in Int /\ c.completion \in Int
    BY <2>1, CandsTyped DEF ToSet
  <2>3. \A c \in ToSet(found) :
          WithinLimits(c, prefs) <=> /\ prefs.maxPrompt \in 1 .. (c.prompt - 1) => FALSE
                                     /\ prefs.maxCompletion \in 1 .. (c.completion - 1) => FALSE
    BY <2>2 DEF WithinLimits, Proper
  <2>4. \A c \in ToSet(found) :
          c.provider \in ToSet(prefs.order) <=> \E i \in DOMAIN prefs.order : prefs.order[i] = c.provider
    BY DEF ToSet
  <2>5. \A c \in ToSet(found) :
          Eligible(c, prefs) <=>
                    /\ c.provider \notin prefs.ignore
                    /\ prefs.only # {} => c.provider \in prefs.only
                    /\ ~prefs.fallbacks /\ prefs.order # <<>> =>
                         \E i \in DOMAIN prefs.order : prefs.order[i] = c.provider
                    /\ \A p \in prefs.require : p \in SupportedParameters(c)
                    /\ prefs.maxPrompt \in 1 .. (c.prompt - 1) => FALSE
                    /\ prefs.maxCompletion \in 1 .. (c.completion - 1) => FALSE
    BY <2>3, <2>4 DEF Eligible
  <2>. QED BY <1>5, <2>5 DEF C
<1>. DEFINE ranks == [i \in DOMAIN chain |-> SelectInSeq(prefs.order, LAMBDA p : p = chain[i].provider)]
<1>9. ASSUME NEW i \in DOMAIN chain, NEW j \in DOMAIN chain, i < j
      PROVE  /\ chain[i].model # chain[j].model
             /\ ranks[j] > 0 => ranks[i] \in 1 .. ranks[j]
             /\ ranks[i] = ranks[j] =>
                  CASE prefs.sort = "price" -> Price(chain[i]) <= Price(chain[j])
                    [] prefs.sort \in {"priority", "latency"} -> chain[i].priority <= chain[j].priority
                    [] prefs.sort = "throughput" -> chain[i].weight >= chain[j].weight
                    [] OTHER -> chain[i].index < chain[j].index
  <2>. DEFINE a == chain[i]
              b == chain[j]
              ra == Rank(a.provider, prefs.order)
              rb == Rank(b.provider, prefs.order)
  <2>1. a \in C /\ b \in C /\ <<a, b>> \in R
    BY <1>5, <1>6, <1>7, <1>9
  <2>2. a # b
    BY <2>1, <1>2 DEF StrictTotal
  <2>3. Before(a, b, prefs)
    BY <1>4, <2>1
  <2>4. /\ Price(a) \in Int /\ a.priority \in Int /\ a.weight \in Int /\ a.index \in Int
        /\ Price(b) \in Int /\ b.priority \in Int /\ b.weight \in Int /\ b.index \in Int
    BY <1>1, <2>1, CandsTyped
  <2>5. a.model # b.model
    BY <1>1, <2>1, <2>2
  <2>6. /\ ra \in 1 .. Len(prefs.order) + 1 /\ rb \in 1 .. Len(prefs.order) + 1 /\ Len(prefs.order) \in Nat
    BY RankTyped, LenProperties DEF Proper
  <2>7. ranks[i] = IF ra = Len(prefs.order) + 1 THEN 0 ELSE ra
    BY FoundAt
  <2>8. ranks[j] = IF rb = Len(prefs.order) + 1 THEN 0 ELSE rb
    BY FoundAt
  <2>. HIDE DEF ranks
  <2>9. \/ ra < rb
        \/ ra = rb /\ Preferred(a, b, prefs.sort)
        \/ ra = rb /\ ~Preferred(b, a, prefs.sort) /\ a.index < b.index
    BY <2>3 DEF Before
  <2>. HIDE DEF a, b, ra, rb
  <2>10. ranks[j] > 0 => ranks[i] \in 1 .. ranks[j]
    <3>1. ra <= rb
      BY <2>6, <2>9
    <3>2. CASE rb = Len(prefs.order) + 1
      BY <2>8, <3>2
    <3>3. CASE rb # Len(prefs.order) + 1
      <4>1. ranks[j] = rb /\ ranks[i] = ra
        BY <2>6, <2>7, <2>8, <3>1, <3>3
      <4>. QED BY <2>6, <3>1, <4>1
    <3>. QED BY <3>2, <3>3
  <2>11. ranks[i] = ranks[j] => ra = rb
    BY <2>6, <2>7, <2>8
  <2>12. ra = rb => /\ prefs.sort = "price" => Price(a) <= Price(b)
                    /\ prefs.sort \in {"priority", "latency"} => a.priority <= b.priority
                    /\ prefs.sort = "throughput" => a.weight >= b.weight
                    /\ prefs.sort \notin {"price", "priority", "latency", "throughput"} => a.index < b.index
    BY <2>4, <2>6, <2>9 DEF Preferred
  <2>. QED BY <2>5, <2>10, <2>11, <2>12 DEF a, b
<1>10. Honours(chain, found, prefs)
  BY <1>8, <1>9 DEF Honours
<1>11. chain \in Seq(ToSet(found))
  BY <1>1, <1>5, SeqMonotonic
<1>. QED BY <1>10, <1>11 DEF chain
-----------------------------------------------------------------------------
(* The candidates a handler tries, and whom it bills *)

\* What has been resolved is found under the index of its alias, each alias once.
Resolved(found, models) ==
  /\ found \in Seq(Cands)
  /\ \A c \in ToSet(found) : c.index \in 1 .. Len(models) /\ c.model = models[c.index]
  /\ \A c, d \in ToSet(found) : c.index = d.index => c = d

Caching == {"clear", "load", "drop", "hit"}
Trying == {"reserve"} \cup Asking \cup Answered \cup Ending

\* What a handler at label has chosen, in its local variables x.
Chosen(label, x) ==
  /\ label \in {"new"} \cup Caching => x.found = <<>> /\ x.next = 1
  /\ label \in {"new", "resolve"} \cup Caching => x.chain = <<>>
  /\ label \notin {"new", "done"} \/ x.chain # <<>> =>
       /\ x.ask \in Asks /\ x.form = Parsed(x.ask.body) /\ Acceptable(x.ask.body)
       /\ Resolved(x.found, x.form.models)
  /\ label = "resolve" => /\ x.next \in 1 .. Len(x.form.models)
                         /\ \A c \in ToSet(x.found) : c.index < x.next
  /\ x.chain # <<>> => x.chain = Select(x.found, x.form.prefs)
  /\ label \in Trying => x.chain # <<>> /\ x.next \in 1 .. Len(x.chain)

Routed == catalog \in Catalogs /\ \A r \in Requests : Chosen(pc[r], req[r])

\* What an acceptable body is parsed to.
LEMMA ParsedProper ==
  ASSUME NEW a \in Asks, Acceptable(a.body)
  PROVE  /\ Parsed(a.body).models \in Seq(Models)
         /\ Len(Parsed(a.body).models) \in Nat \ {0}
         /\ \A k, l \in 1 .. Len(Parsed(a.body).models) :
              Parsed(a.body).models[k] = Parsed(a.body).models[l] => k = l
         /\ Proper(Parsed(a.body).prefs)
<1>. DEFINE list == a.body.models
            given == Given(a.body.provider, "order", <<>>)
<1>1. /\ Len(list) \in Nat /\ DOMAIN list = 1 .. Len(list) /\ list # <<>> /\ list[1] # Blank
      /\ Len(given) \in Nat /\ DOMAIN given = 1 .. Len(given)
      /\ MaxPrice(a.body.provider, "prompt") \in Int /\ MaxPrice(a.body.provider, "completion") \in Int
      /\ ToSet(StringList(list)) \subseteq Models
  BY GatewayAssumption DEF WellTyped, IsList, Acceptable, Aliases
<1>. HIDE DEF list, given
<1>2. /\ StringList(list) \in Seq(ToSet(list) \ {Blank}) /\ ToSet(StringList(list)) = ToSet(list) \ {Blank}
      /\ \A k, l \in 1 .. Len(StringList(list)) : StringList(list)[k] = StringList(list)[l] => k = l
  BY <1>1, StringListProper
<1>3. /\ StringList(given) \in Seq(ToSet(given) \ {Blank})
      /\ \A k, l \in 1 .. Len(StringList(given)) : StringList(given)[k] = StringList(given)[l] => k = l
  BY <1>1, StringListProper
<1>4. Proper(Preferences(a.body))
  <2>1. /\ Preferences(a.body).order = StringList(given)
        /\ Preferences(a.body).maxPrompt = MaxPrice(a.body.provider, "prompt")
        /\ Preferences(a.body).maxCompletion = MaxPrice(a.body.provider, "completion")
    BY DEF Preferences, given
  <2>. QED BY <1>1, <1>3, <2>1 DEF Proper
<1>5. StringList(list) \in Seq(Models)
  BY <1>1, <1>2, SeqMonotonic
<1>6. Len(StringList(list)) \in Nat \ {0}
  <2>1. list[1] \in ToSet(list)
    <3>1. 1 \in DOMAIN list
      BY <1>1
    <3>. QED BY <3>1 DEF ToSet
  <2>2. PICK k \in DOMAIN StringList(list) : StringList(list)[k] = list[1]
    BY <1>1, <1>2, <2>1 DEF ToSet
  <2>. QED BY <1>5, <2>2, LenProperties
<1>7. Parsed(a.body).models = StringList(list) /\ Parsed(a.body).prefs = Preferences(a.body)
  BY DEF Parsed, Aliases, list
<1>. QED BY <1>2, <1>4, <1>5, <1>6, <1>7

\* A chain that was chosen honours the preferences, and is of what was found.
LEMMA ChosenHonours ==
  ASSUME NEW label, NEW x, Chosen(label, x), x.chain # <<>>
  PROVE  /\ Honours(x.chain, x.found, Preferences(x.ask.body))
         /\ x.chain \in Seq(ToSet(x.found))
<1>1. /\ x.ask \in Asks /\ x.form = Parsed(x.ask.body) /\ Acceptable(x.ask.body)
      /\ Resolved(x.found, x.form.models) /\ x.chain = Select(x.found, x.form.prefs)
  BY DEF Chosen
<1>2. \A c, d \in ToSet(x.found) : c.index = d.index \/ c.model = d.model => c = d
  BY <1>1, ParsedProper DEF Resolved
<1>3. Proper(x.form.prefs) /\ x.form.prefs = Preferences(x.ask.body)
  BY <1>1, ParsedProper DEF Parsed
<1>. QED BY <1>1, <1>2, <1>3, SelectHonours DEF Resolved

\* A step from label to another that leaves the choice alone, or goes to the next candidate.
Moves(label, to) ==
  /\ label \notin {"new", "done"} /\ to # "new" /\ to \in PC
  /\ to \in Caching \cup {"resolve"} => label \in Caching
  /\ to \in Trying => label \in Trying

SameChoice(x, y) == y.ask = x.ask /\ y.form = x.form /\ y.found = x.found /\ y.chain = x.chain

LEMMA ChosenOn ==
  ASSUME NEW label, NEW to, NEW x, NEW y, Chosen(label, x), Moves(label, to), SameChoice(x, y),
         \/ y.next = x.next
         \/ y.next = x.next + 1 /\ label \in Trying /\ x.next # Len(x.chain)
  PROVE  Chosen(to, y)
<1>1. label \notin {"new", "done"}
  BY DEF Moves
<1>2. x.ask \in Asks /\ x.form = Parsed(x.ask.body) /\ Acceptable(x.ask.body) /\ Resolved(x.found, x.form.models)
  BY <1>1 DEF Chosen
<1>3. CASE to \in Caching
  BY <1>1, <1>2, <1>3 DEF Chosen, Moves, SameChoice, Caching, Trying
<1>4. CASE to = "resolve"
  <2>1. label \in Caching /\ label \notin Trying
    BY <1>4 DEF Moves, Caching, Trying
  <2>2. y.next = 1 /\ y.found = <<>> /\ y.chain = <<>>
    BY <2>1 DEF Chosen, SameChoice
  <2>3. 1 \in 1 .. Len(y.form.models)
    BY <1>2, ParsedProper DEF SameChoice
  <2>4. ToSet(y.found) = {}
    BY <2>2 DEF ToSet
  <2>. QED BY <1>2, <1>4, <2>2, <2>3, <2>4 DEF Chosen, SameChoice, Caching, Trying
<1>5. CASE to \in Trying
  <2>1. label \in Trying /\ x.chain # <<>> /\ x.next \in 1 .. Len(x.chain) /\ x.chain = Select(x.found, x.form.prefs)
    BY <1>5 DEF Moves, Chosen
  <2>2. Len(x.chain) \in Nat
    BY <2>1, ChosenHonours, LenProperties
  <2>3. y.next \in 1 .. Len(y.chain)
    BY <2>1, <2>2 DEF SameChoice
  <2>. QED BY <1>2, <1>5, <2>1, <2>3 DEF Chosen, SameChoice, Caching, Trying
<1>6. CASE to = "done"
  BY <1>2, <1>6 DEF Chosen, SameChoice, Caching, Trying
<1>. QED BY <1>3, <1>4, <1>5, <1>6 DEF Moves, Caching, Trying

\* Of a handler's steps only Resolve chooses, and only a failed attempt goes on to the next.
LEMMA HandleMoves ==
  ASSUME IInv, NEW r \in Requests, Handle(r), ~Resolve(r)
  PROVE  /\ Moves(pc[r], pc'[r]) /\ SameChoice(req[r], req'[r])
         /\ \/ req'[r].next = req[r].next
            \/ req'[r].next = req[r].next + 1 /\ pc[r] \in Trying /\ req[r].next # Len(req[r].chain)
<1>. USE DEF IInv, Shape, Idle, Moves, SameChoice, Caching, Trying
<1>1. CASE ClearCache(r) \/ LoadCache(r) \/ DropExpired(r) \/ Hit(r)
  BY <1>1 DEF ClearCache, LoadCache, DropExpired, Hit
<1>2. CASE Reserve(r) \/ BuildFails(r) \/ Send(r)
  BY <1>2 DEF Reserve, BuildFails, Send, Reject
<1>3. CASE NoAnswer(r)
  BY <1>3 DEF NoAnswer
<1>4. CASE \E s \in Answers : Answer(r, s) \/ ChatAnswer(r, s)
  <2>1. ASSUME NEW s, Judge(r, s), pc[r] \in {"upstream", "chat"}
        PROVE  /\ Moves(pc[r], pc'[r]) /\ SameChoice(req[r], req'[r])
               /\ \/ req'[r].next = req[r].next
                  \/ req'[r].next = req[r].next + 1 /\ pc[r] \in Trying /\ req[r].next # Len(req[r].chain)
    <3>. DEFINE retry  == s = "retryable" /\ req[r].next < Len(req[r].chain)
                next   == IF retry THEN req[r].next + 1 ELSE req[r].next
                answer == IF retry THEN None ELSE s
                tried  == req[r].tried + 1
    <3>1. req' = [req EXCEPT ![r] = [@ EXCEPT !.next = next, !.answer = answer, !.tried = tried]]
      BY <2>1 DEF Judge
    <3>2. next = req[r].next \/ (next = req[r].next + 1 /\ retry)
      OBVIOUS
    <3>3. retry => req[r].next # Len(req[r].chain)
      OBVIOUS
    <3>. HIDE DEF next, answer, tried, retry
    <3>4. Moves(pc[r], pc'[r])
      BY <2>1 DEF Judge
    <3>. QED BY <2>1, <3>1, <3>2, <3>3, <3>4
  <2>. QED BY <1>4, <2>1 DEF Answer, ChatAnswer
<1>5. CASE StartStream(r) \/ EndStream(r)
  BY <1>5 DEF StartStream, EndStream
<1>6. CASE CopyAnswer(r)
  <2>1. PICK spent, reply, label :
          /\ req' = [req EXCEPT ![r] = [@ EXCEPT !.spent = spent, !.reply = reply]]
          /\ Goto(r, label) /\ label \in {"store", "settle"}
    <3>1. PICK written \in BOOLEAN, n \in Reported(r) :
            /\ Goto(r, IF written /\ Uses(req[r].ask) /\ req[r].answer = "ok" THEN "store" ELSE "settle")
            /\ req' = [req EXCEPT ![r] = [@ EXCEPT !.spent = n,
                                                   !.reply = IF written THEN Upstream(r) ELSE None]]
      BY <1>6 DEF CopyAnswer
    <3>2. PICK label : label = IF written /\ Uses(req[r].ask) /\ req[r].answer = "ok" THEN "store" ELSE "settle"
      OBVIOUS
    <3>. QED BY <3>1, <3>2
  <2>2. pc[r] = "copy"
    BY <1>6 DEF CopyAnswer
  <2>. QED BY <2>1, <2>2
<1>7. CASE ReadFails(r) \/ StoreCache(r) \/ Settle(r) \/ Record(r)
  BY <1>7 DEF ReadFails, StoreCache, Settle, Record
<1>. QED BY <1>1, <1>2, <1>3, <1>4, <1>5, <1>6, <1>7 DEF Handle

\* One alias more is resolved, with the catalogue as it is.
LEMMA ResolvedOn ==
  ASSUME NEW found, NEW models \in Seq(Models), Resolved(found, models), NEW i \in 1 .. Len(models),
         \A c \in ToSet(found) : c.index < i, catalog \in Catalogs
  PROVE  /\ Resolved(Append(found, Candidate(models[i], i)), models)
         /\ \A c \in ToSet(Append(found, Candidate(models[i], i))) : c.index < i + 1
         /\ \A c \in ToSet(found) : c.index < i + 1
<1>. DEFINE new == Candidate(models[i], i)
<1>1. Len(models) \in Nat /\ models[i] \in Models /\ i \in Nat
  BY LenProperties, ElementOfSeq
<1>2. new \in Cands /\ new.index = i /\ new.model = models[i]
  BY <1>1 DEF Candidate, Cands
<1>. HIDE DEF new
<1>3. /\ Append(found, new) \in Seq(Cands)
      /\ DOMAIN Append(found, new) = 1 .. Len(found) + 1 /\ DOMAIN found = 1 .. Len(found) /\ Len(found) \in Nat
      /\ Append(found, new)[Len(found) + 1] = new
      /\ \A k \in 1 .. Len(found) : Append(found, new)[k] = found[k]
  BY <1>2, AppendProperties, LenProperties DEF Resolved
<1>4. ToSet(Append(found, new)) = ToSet(found) \cup {new}
  <2>1. ASSUME NEW k \in 1 .. Len(found) + 1 PROVE Append(found, new)[k] \in ToSet(found) \cup {new}
    BY <1>3 DEF ToSet
  <2>2. ASSUME NEW k \in 1 .. Len(found) PROVE found[k] = Append(found, new)[k] /\ k \in DOMAIN Append(found, new)
    BY <1>3
  <2>3. new = Append(found, new)[Len(found) + 1] /\ Len(found) + 1 \in DOMAIN Append(found, new)
    BY <1>3
  <2>. QED BY <1>3, <2>1, <2>2, <2>3 DEF ToSet
<1>5. \A c \in ToSet(found) : c.index \in Nat /\ c.index < i
  BY <1>1 DEF Resolved
<1>6. Resolved(Append(found, new), models)
  BY <1>1, <1>2, <1>3, <1>4, <1>5 DEF Resolved
<1>7. \A c \in ToSet(found) \cup {new} : c.index < i + 1
  BY <1>1, <1>2, <1>5
<1>. QED BY <1>4, <1>6, <1>7 DEF new

\* Resolve keeps the choice of its request.
LEMMA ResolveChoice ==
  ASSUME IInv, Routed, NEW r \in Requests, Resolve(r)
  PROVE  Chosen(pc'[r], req'[r])
<1>. DEFINE x == req[r]
            models == x.form.models
            i == x.next
            m == models[i]
            found == IF Reachable(m) /\ Speaks(catalog[m], Protocol(x.ask.body.endpoint))
                     THEN Append(x.found, Candidate(m, i)) ELSE x.found
            chain == Select(found, x.form.prefs)
<1>1. pc[r] = "resolve" /\ Chosen(pc[r], x) /\ catalog \in Catalogs
  BY DEF Resolve, Routed
<1>2. /\ x.ask \in Asks /\ x.form = Parsed(x.ask.body) /\ Acceptable(x.ask.body)
      /\ Resolved(x.found, models) /\ x.chain = <<>>
      /\ i \in 1 .. Len(models) /\ \A c \in ToSet(x.found) : c.index < i
  BY <1>1 DEF Chosen, Caching
<1>3. models \in Seq(Models) /\ Len(models) \in Nat
  BY <1>2, ParsedProper
<1>4. Resolved(found, models) /\ \A c \in ToSet(found) : c.index < i + 1
  <2>. HIDE DEF models, i
  <2>. QED BY <1>1, <1>2, <1>3, ResolvedOn
<1>5. \/ \E code : Reject(r, code)
      \/ /\ i < Len(models) /\ UNCHANGED pc
         /\ req' = [req EXCEPT ![r] = [@ EXCEPT !.next = i + 1, !.found = found]]
      \/ /\ Goto(r, "reserve") /\ chain # <<>>
         /\ req' = [req EXCEPT ![r] = [@ EXCEPT !.next = 1, !.found = found, !.chain = chain]]
  BY DEF Resolve
<1>. HIDE DEF found, chain
<1>6. CASE \E code : Reject(r, code)
  <2>1. pc'[r] = "done" /\ req'[r].ask = x.ask /\ req'[r].form = x.form /\ req'[r].found = x.found /\ req'[r].chain = x.chain
    BY <1>6 DEF Reject, IInv, Shape, Idle
  <2>. QED BY <1>2, <2>1 DEF Chosen, Caching, Trying
<1>7. CASE /\ i < Len(models) /\ UNCHANGED pc
           /\ req' = [req EXCEPT ![r] = [@ EXCEPT !.next = i + 1, !.found = found]]
  <2>1. /\ pc'[r] = "resolve" /\ req'[r].ask = x.ask /\ req'[r].form = x.form /\ req'[r].found = found
        /\ req'[r].chain = x.chain /\ req'[r].next = i + 1
    BY <1>1, <1>7 DEF IInv, Shape, Idle
  <2>2. i + 1 \in 1 .. Len(models)
    BY <1>2, <1>3, <1>7
  <2>. QED BY <1>2, <1>4, <2>1, <2>2 DEF Chosen, Caching, Trying
<1>8. CASE /\ Goto(r, "reserve") /\ chain # <<>>
           /\ req' = [req EXCEPT ![r] = [@ EXCEPT !.next = 1, !.found = found, !.chain = chain]]
  <2>1. /\ pc'[r] = "reserve" /\ req'[r].ask = x.ask /\ req'[r].form = x.form /\ req'[r].found = found
        /\ req'[r].chain = chain /\ req'[r].next = 1
    BY <1>8 DEF IInv, Shape, Idle
  <2>2. chain \in Seq(ToSet(found))
    <3>1. \A c, d \in ToSet(found) : c.index = d.index \/ c.model = d.model => c = d
      BY <1>2, <1>4, ParsedProper DEF Resolved
    <3>2. Proper(x.form.prefs)
      BY <1>2, ParsedProper
    <3>. QED BY <1>4, <3>1, <3>2, SelectHonours DEF Resolved, chain
  <2>3. 1 \in 1 .. Len(chain)
    BY <1>8, <2>2, EmptySeq
  <2>. QED BY <1>2, <1>4, <1>8, <2>1, <2>3 DEF Chosen, Caching, Trying, chain
<1>. QED BY <1>5, <1>6, <1>7, <1>8

\* A request that begins has chosen nothing.
LEMMA BeginsChoice ==
  ASSUME IInv, Routed, NEW r \in Requests, NEW a \in Asks, Authenticate(r, a)
  PROVE  /\ Chosen(pc'[r], req'[r])
         /\ \A q \in Requests : q # r => req'[q] = req[q] /\ pc'[q] = pc[q]
<1>. USE DEF IInv, Shape, Idle
<1>1. pc[r] = "new" /\ req[r].found = <<>> /\ req[r].chain = <<>> /\ req[r].next = 1
  BY DEF Authenticate, Routed, Chosen
<1>2. CASE /\ Acceptable(a.body) /\ Goto(r, "clear")
           /\ req' = [req EXCEPT ![r] = [@ EXCEPT !.ask = a, !.form = Parsed(a.body)]]
  <2>1. /\ pc'[r] = "clear" /\ req'[r].ask = a /\ req'[r].form = Parsed(a.body)
        /\ req'[r].found = <<>> /\ req'[r].chain = <<>> /\ req'[r].next = 1
        /\ \A q \in Requests : q # r => req'[q] = req[q] /\ pc'[q] = pc[q]
    BY <1>1, <1>2
  <2>2. Resolved(<<>>, Parsed(a.body).models)
    BY EmptySeq DEF Resolved, ToSet
  <2>. QED BY <1>2, <2>1, <2>2 DEF Chosen, Caching, Trying
<1>3. ASSUME NEW code, Goto(r, "done"), req' = [req EXCEPT ![r] = [@ EXCEPT !.ask = a, !.reply = [kind |-> code]]]
      PROVE  /\ Chosen(pc'[r], req'[r])
             /\ \A q \in Requests : q # r => req'[q] = req[q] /\ pc'[q] = pc[q]
  <2>1. /\ pc'[r] = "done" /\ req'[r].chain = <<>>
        /\ \A q \in Requests : q # r => req'[q] = req[q] /\ pc'[q] = pc[q]
    BY <1>1, <1>3
  <2>. QED BY <2>1 DEF Chosen, Caching, Trying
<1>. QED BY <1>2, <1>3 DEF Authenticate

\* Every step keeps what the handlers have chosen.
LEMMA StepRouted == IInv /\ Routed /\ [Next]_vars => Routed'
<1>. SUFFICES ASSUME IInv, Routed, [Next]_vars PROVE Routed'
  OBVIOUS
<1>1. catalog' \in Catalogs
  <2>1. ASSUME NEW r \in Requests, Handle(r) PROVE UNCHANGED catalog
    <3>1. CASE ClearCache(r) \/ LoadCache(r) \/ DropExpired(r) \/ Hit(r)
      BY <3>1 DEF ClearCache, LoadCache, DropExpired, Hit, world
    <3>2. CASE Resolve(r)
      BY <3>2 DEF Resolve, world
    <3>3. CASE Reserve(r) \/ NoAnswer(r) \/ BuildFails(r) \/ Send(r)
      BY <3>3 DEF Reserve, NoAnswer, BuildFails, Send, world
    <3>4. CASE \E s \in Answers : Answer(r, s) \/ ChatAnswer(r, s)
      BY <3>4 DEF Answer, ChatAnswer, world
    <3>5. CASE StartStream(r) \/ EndStream(r) \/ CopyAnswer(r) \/ ReadFails(r)
      BY <3>5 DEF StartStream, EndStream, CopyAnswer, ReadFails, world
    <3>6. CASE StoreCache(r) \/ Settle(r) \/ Record(r)
      BY <3>6 DEF StoreCache, Settle, Record, world
    <3>. QED BY <2>1, <3>1, <3>2, <3>3, <3>4, <3>5, <3>6 DEF Handle
  <2>2. ASSUME NEW r \in Requests, NEW a \in Asks, Authenticate(r, a) PROVE UNCHANGED catalog
    BY <2>2 DEF Authenticate, world
  <2>3. ASSUME NEW r \in Requests, Leave(r) PROVE UNCHANGED catalog
    BY <2>3 DEF Leave, world
  <2>4. ASSUME NEW c \in Catalogs, Edit(c) PROVE catalog' = c
    BY <2>4 DEF Edit
  <2>5. ASSUME NEW m \in Models, Disable(m) PROVE UNCHANGED catalog
    BY <2>5 DEF Disable
  <2>6. CASE Tick
    BY <2>6 DEF Routed, Tick
  <2>7. CASE UNCHANGED vars
    BY <2>7 DEF Routed, vars, world
  <2>. QED BY <2>1, <2>2, <2>3, <2>4, <2>5, <2>6, <2>7 DEF Next, Routed
<1>2. ASSUME NEW r \in Requests, Chosen(pc'[r], req'[r]), \A q \in Requests : q # r => req'[q] = req[q] /\ pc'[q] = pc[q]
      PROVE  Routed'
  BY <1>1, <1>2 DEF Routed
<1>3. ASSUME NEW r \in Requests, NEW a \in Asks, Authenticate(r, a) PROVE Routed'
  BY <1>2, <1>3, BeginsChoice
<1>4. ASSUME NEW r \in Requests, Handle(r) PROVE Routed'
  <2>1. \A q \in Requests : q # r => req'[q] = req[q] /\ pc'[q] = pc[q]
    BY <1>4, HandleComes DEF IInv, Shape
  <2>2. CASE Resolve(r)
    BY <1>2, <2>1, <2>2, ResolveChoice
  <2>3. CASE ~Resolve(r)
    <3>1. Chosen(pc[r], req[r])
      BY DEF Routed
    <3>2. Chosen(pc'[r], req'[r])
      BY <1>4, <2>3, <3>1, HandleMoves, ChosenOn
    <3>. QED BY <1>2, <2>1, <3>2
  <2>. QED BY <2>2, <2>3
<1>5. CASE UNCHANGED <<pc, req>>
  BY <1>1, <1>5 DEF Routed
<1>. QED BY <1>3, <1>4, <1>5 DEF Next, vars, Leave, Edit, Disable, Tick

\* Nothing is chosen at the start.
LEMMA InitRouted == Init => Routed
<1>. SUFFICES ASSUME Init PROVE catalog \in Catalogs /\ \A r \in Requests : Chosen(pc[r], req[r])
  BY DEF Routed
<1>1. catalog \in Catalogs /\ \A r \in Requests : pc[r] = "new" /\ req[r] = Idle
  BY DEF Init
<1>. QED BY <1>1 DEF Chosen, Idle, Caching, Trying

\* What the handlers have chosen is always as Routed says.
LEMMA RoutedAlways == Spec => []Routed
BY InitRouted, StepRouted, Invariance, PTL DEF Spec

\* The handler (resolveCandidates, sortCandidates) tries the candidates that the preferences
\* allow, no model twice, in the order that was asked for, however the catalogue is edited
\* while the aliases are looked up one by one.
THEOREM ChainHonoured == Spec => []ChainHonoursPreferences
<1>1. Routed => ChainHonoursPreferences
  BY ChosenHonours DEF Routed, ChainHonoursPreferences
<1>. QED BY <1>1, RoutedAlways, PTL

-----------------------------------------------------------------------------
(* Who is billed *)

\* What a row of the ledger says of the request x that was answered.
Billed(r) ==
  ledger[r] # {} /\ req[r].reply.kind = "upstream" =>
    \A e \in ledger[r] :
      /\ e.model = req[r].reply.model
      /\ \/ \E c \in ToSet(req[r].found) : c.model = req[r].reply.model /\ e.cost = CostAt(r, c, 1)
         \/ e.cost = 0 /\ (e.estimated \/ req[r].reply.status # "ok")

\* What has been sent is the present candidate's answer.
FromCurrent(r) == req[r].reply.model = Current(r).model /\ req[r].reply.status = req[r].answer

\* A handler that has sent an answer is still at the candidate that gave it; the row is written last.
Serving ==
  /\ DOMAIN ledger = Requests
  /\ \A r \in Requests :
       /\ req[r].spent \in {0, 1}
       /\ pc[r] \in Answered \cup Ending /\ req[r].reply # None => FromCurrent(r)
       /\ pc[r] # "done" => ledger[r] = {}
       /\ Billed(r)

\* What a step may say of the request that takes it, for the others are as they were.
LEMMA ServingOn ==
  ASSUME IInv, Serving, NEW r \in Requests, pc' = [pc EXCEPT ![r] = pc'[r]],
         \A q \in Requests : q # r => req'[q] = req[q] /\ ledger'[q] = ledger[q],
         DOMAIN ledger' = Requests, req'[r].spent \in {0, 1},
         pc'[r] \in Answered \cup Ending /\ req'[r].reply # None => FromCurrent(r)',
         pc'[r] # "done" => ledger'[r] = {}, Billed(r)'
  PROVE  Serving'
<1>1. ASSUME NEW q \in Requests
      PROVE  /\ req'[q].spent \in {0, 1}
             /\ pc'[q] \in Answered \cup Ending /\ req'[q].reply # None => FromCurrent(q)'
             /\ pc'[q] # "done" => ledger'[q] = {}
             /\ Billed(q)'
  <2>1. CASE q = r
    BY <2>1
  <2>2. CASE q # r
    <3>1. req'[q] = req[q] /\ ledger'[q] = ledger[q] /\ pc'[q] = pc[q]
      BY <2>2 DEF IInv, Shape
    <3>. QED BY <3>1 DEF Serving, Billed, FromCurrent, Current, CostAt
  <2>. QED BY <2>1, <2>2
<1>. QED BY <1>1 DEF Serving

\* The steps that write no row: what is sent is the answer of the present candidate.
LEMMA HandleServes ==
  ASSUME IInv, Serving, NEW r \in Requests, Handle(r), ~Record(r), ~Hit(r)
  PROVE  /\ ledger' = ledger /\ req'[r].spent \in {0, 1}
         /\ pc'[r] \in Answered \cup Ending /\ req'[r].reply # None => FromCurrent(r)'
<1>. USE DEF IInv, Shape, Idle, Serving, Current, FromCurrent
<1>0. pc[r] \in Early \cup Asking \cup {"copy"} => req[r].reply = None
  BY DEF Silent
<1>1. CASE ClearCache(r) \/ LoadCache(r) \/ DropExpired(r)
  BY <1>0, <1>1 DEF ClearCache, LoadCache, DropExpired, books
<1>2. CASE Resolve(r)
  <2>1. \/ \E code : Reject(r, code)
        \/ \E next, found :
             req' = [req EXCEPT ![r] = [@ EXCEPT !.next = next, !.found = found]]
        \/ \E found, chain :
             req' = [req EXCEPT ![r] = [@ EXCEPT !.next = 1, !.found = found, !.chain = chain]]
    <3>. HIDE DEF IInv, Serving, Current, FromCurrent, Shape, Idle
    <3>. QED BY <1>2 DEF Resolve
  <2>2. ledger' = ledger /\ pc'[r] \in Early \cup {"done"}
    BY <1>2 DEF Resolve, Reject, books
  <2>3. req'[r].spent = req[r].spent
    <3>0. r \in DOMAIN req /\ DOMAIN req[r] = DOMAIN Idle
      OBVIOUS
    <3>. HIDE DEF IInv, Serving, Current, FromCurrent, Shape
    <3>1. ASSUME NEW code, Reject(r, code) PROVE req'[r].spent = req[r].spent
      BY <3>0, <3>1 DEF Reject
    <3>2. ASSUME NEW next, NEW found, req' = [req EXCEPT ![r] = [@ EXCEPT !.next = next, !.found = found]]
          PROVE  req'[r].spent = req[r].spent
      BY <3>0, <3>2
    <3>3. ASSUME NEW found, NEW chain,
                 req' = [req EXCEPT ![r] = [@ EXCEPT !.next = 1, !.found = found, !.chain = chain]]
          PROVE  req'[r].spent = req[r].spent
      BY <3>0, <3>3
    <3>. QED BY <2>1, <3>1, <3>2, <3>3
  <2>. QED BY <2>2, <2>3
<1>3. CASE Reserve(r) \/ BuildFails(r) \/ Send(r)
  BY <1>0, <1>3 DEF Reserve, BuildFails, Send, Reject, books
<1>4. CASE NoAnswer(r)
  BY <1>0, <1>4 DEF NoAnswer, books
<1>5. CASE \E s \in Answers : Answer(r, s) \/ ChatAnswer(r, s)
  <2>1. ASSUME NEW s, Judge(r, s)
        PROVE  req'[r].spent = req[r].spent /\ req'[r].reply = req[r].reply
    <3>. DEFINE retry  == s = "retryable" /\ req[r].next < Len(req[r].chain)
                next   == IF retry THEN req[r].next + 1 ELSE req[r].next
                answer == IF retry THEN None ELSE s
                tried  == req[r].tried + 1
    <3>1. req' = [req EXCEPT ![r] = [@ EXCEPT !.next = next, !.answer = answer, !.tried = tried]]
      BY <2>1 DEF Judge
    <3>. HIDE DEF next, answer, tried
    <3>. QED BY <3>1
  <2>2. pc[r] \in Asking /\ ledger' = ledger
    BY <1>5 DEF Answer, ChatAnswer, books
  <2>. QED BY <1>0, <1>5, <2>1, <2>2 DEF Answer, ChatAnswer
<1>6. CASE StartStream(r)
  BY <1>6 DEF StartStream, Upstream, books
<1>7. CASE EndStream(r)
  <2>1. ledger' = ledger /\ pc[r] = "streaming" /\ pc'[r] = "settle"
    BY <1>7 DEF EndStream, books
  <2>2. \E n \in {0, 1} : req' = [req EXCEPT ![r].spent = n]
    BY <1>7 DEF EndStream, Reported
  <2>. QED BY <2>1, <2>2
<1>8. CASE CopyAnswer(r)
  <2>1. PICK spent \in {0, 1}, reply \in {Upstream(r), None} :
          req' = [req EXCEPT ![r] = [@ EXCEPT !.spent = spent, !.reply = reply]]
    BY <1>8 DEF CopyAnswer, Reported
  <2>2. ledger' = ledger
    BY <1>8 DEF CopyAnswer, books
  <2>3. /\ req'[r].next = req[r].next /\ req'[r].chain = req[r].chain /\ req'[r].answer = req[r].answer
        /\ req'[r].reply = reply /\ req'[r].spent = spent
    BY <2>1
  <2>. QED BY <2>1, <2>2, <2>3 DEF Upstream
<1>9. CASE ReadFails(r) \/ StoreCache(r) \/ Settle(r)
  BY <1>0, <1>9 DEF ReadFails, StoreCache, Settle, books
<1>. QED BY <1>1, <1>2, <1>3, <1>4, <1>5, <1>6, <1>7, <1>8, <1>9 DEF Handle

\* A handler's steps keep who is billed.
LEMMA HandleBills ==
  ASSUME IInv, Routed, Serving, NEW r \in Requests, Handle(r)
  PROVE  Serving'
<1>. USE DEF IInv, Shape, Idle
<1>1. pc' = [pc EXCEPT ![r] = pc'[r]] /\ \A q \in Requests : q # r => req'[q] = req[q]
  BY HandleComes
<1>2. pc[r] # "done" /\ ledger[r] = {}
  BY HandleMoves DEF Moves, Serving, Resolve
<1>3. CASE ~Record(r) /\ ~Hit(r)
  <2>1. /\ ledger' = ledger /\ req'[r].spent \in {0, 1}
        /\ pc'[r] \in Answered \cup Ending /\ req'[r].reply # None => FromCurrent(r)'
    BY <1>3, HandleServes
  <2>2. ledger'[r] = {} /\ Billed(r)' /\ DOMAIN ledger' = Requests
    BY <1>2, <2>1 DEF Billed, Serving
  <2>. QED BY <1>1, <2>1, <2>2, ServingOn
<1>4. CASE Hit(r)
  <2>1. /\ pc'[r] = "done" /\ req'[r].spent = req[r].spent /\ req'[r].reply.kind = "cached"
        /\ DOMAIN ledger' = Requests /\ \A q \in Requests : q # r => ledger'[q] = ledger[q]
    BY <1>4 DEF Hit, Serving
  <2>. QED BY <1>1, <2>1, ServingOn DEF Billed, Serving
<1>5. CASE Record(r)
  <2>1. /\ pc[r] = "record" /\ pc'[r] = "done" /\ req'[r].spent = req[r].spent /\ req'[r].found = req[r].found
        /\ req'[r].ask = req[r].ask /\ req'[r].reply = FinalReply(r)
    BY <1>5 DEF Record
  <2>. DEFINE row == [model |-> Current(r).model, cost |-> CostAt(r, Current(r), req[r].spent),
                      estimated |-> Estimated(r)]
  <2>2. ledger' = ledger \/ ledger' = [ledger EXCEPT ![r] = {row}]
    BY <1>5 DEF Record
  <2>3. Current(r) \in ToSet(req[r].found) /\ Current(r) \in Cands
    <3>1. Chosen(pc[r], req[r]) /\ req[r].chain # <<>> /\ req[r].next \in 1 .. Len(req[r].chain)
      BY <2>1 DEF Routed, Chosen, Trying
    <3>2. req[r].chain \in Seq(ToSet(req[r].found)) /\ req[r].found \in Seq(Cands)
      BY <3>1, ChosenHonours DEF Chosen, Resolved
    <3>3. req[r].chain[req[r].next] \in ToSet(req[r].found)
      BY <3>1, <3>2, ElementOfSeq
    <3>4. \A c \in ToSet(req[r].found) : c \in Cands
      BY <3>2, LenProperties, ElementOfSeq DEF ToSet
    <3>. QED BY <3>3, <3>4 DEF Current
  <2>4. row.cost = CostAt(r, Current(r), 1) \/ (row.cost = 0 /\ (row.estimated \/ req[r].answer # "ok"))
    <3>1. Price(Current(r)) \in Int /\ req[r].spent \in {0, 1}
      BY <2>3, CandsTyped DEF Serving
    <3>2. CASE req[r].spent = 1
      BY <3>2
    <3>3. CASE req[r].spent = 0
      <4>1. CostAt(r, Current(r), 0) = 0
        BY <3>1 DEF CostAt
      <4>2. row.cost = 0 /\ (row.estimated \/ req[r].answer # "ok")
        BY <3>3, <4>1 DEF Estimated
      <4>. QED BY <4>2
    <3>. QED BY <3>1, <3>2, <3>3
  <2>5. \A c : CostAt(r, c, 1)' = CostAt(r, c, 1)
    BY <2>1 DEF CostAt
  <2>6. FinalReply(r).kind = "upstream" =>
          FinalReply(r).model = Current(r).model /\ FinalReply(r).status = req[r].answer
    BY <2>1 DEF FinalReply, Serving, FromCurrent
  <2>7. row.model = Current(r).model
    OBVIOUS
  <2>. HIDE DEF row
  <2>8. Billed(r)'
    <3>1. CASE ledger' = ledger
      BY <1>2, <3>1 DEF Billed
    <3>2. CASE ledger' = [ledger EXCEPT ![r] = {row}]
      <4>1. ledger'[r] = {row}
        BY <3>2 DEF Serving
      <4>. QED BY <2>1, <2>3, <2>4, <2>5, <2>6, <2>7, <4>1 DEF Billed
    <3>. QED BY <2>2, <3>1, <3>2
  <2>9. DOMAIN ledger' = Requests /\ \A q \in Requests : q # r => ledger'[q] = ledger[q]
    BY <2>2 DEF Serving
  <2>. QED BY <1>1, <2>1, <2>8, <2>9, ServingOn DEF Serving
<1>. QED BY <1>3, <1>4, <1>5

\* Every step keeps who is billed.
LEMMA StepServing == IInv /\ Routed /\ Serving /\ [Next]_vars => Serving'
<1>. SUFFICES ASSUME IInv, Routed, Serving, [Next]_vars PROVE Serving'
  OBVIOUS
<1>1. ASSUME NEW r \in Requests, NEW a \in Asks, Authenticate(r, a) PROVE Serving'
  <2>. USE DEF IInv, Shape, Idle
  <2>1. pc[r] = "new" /\ ledger[r] = {} /\ ledger' = ledger
    BY <1>1 DEF Authenticate, Serving, books
  <2>2. /\ pc' = [pc EXCEPT ![r] = pc'[r]] /\ pc'[r] \in {"clear", "done"}
        /\ \A q \in Requests : q # r => req'[q] = req[q]
    BY <1>1, BeginsChoice DEF Authenticate
  <2>3. req'[r].spent = req[r].spent
    <3>1. CASE req' = [req EXCEPT ![r] = [@ EXCEPT !.ask = a, !.form = Parsed(a.body)]]
      BY <3>1
    <3>2. ASSUME NEW code, req' = [req EXCEPT ![r] = [@ EXCEPT !.ask = a, !.reply = [kind |-> code]]]
          PROVE  req'[r].spent = req[r].spent
      BY <3>2
    <3>. QED BY <1>1, <3>1, <3>2 DEF Authenticate
  <2>4. Billed(r)'
    BY <2>1 DEF Billed
  <2>. QED BY <2>1, <2>2, <2>3, <2>4, ServingOn DEF Serving
<1>2. ASSUME NEW r \in Requests, Handle(r) PROVE Serving'
  BY <1>2, HandleBills
<1>3. CASE UNCHANGED <<pc, req, ledger>>
  BY <1>3 DEF Serving, Billed, FromCurrent, Current, CostAt
<1>. QED BY <1>1, <1>2, <1>3 DEF Next, vars, books, Leave, Edit, Disable, Tick

\* Nobody is billed at the start.
LEMMA InitServing == Init => Serving
BY DEF Init, Serving, Billed, Idle

\* The usage that a handler records (forwardCompatible) is that of the upstream whose answer the
\* client was sent, at the price it had when the request was resolved, whatever failed
\* before and whatever was edited since.
THEOREM BilledRightly == Spec => []BilledAsServed
<1>1. Serving => BilledAsServed
  BY DEF Serving, Billed, BilledAsServed
<1>. QED BY <1>1, InitServing, StepServing, Invariance, RoutedAlways, PTL DEF Spec

=============================================================================
