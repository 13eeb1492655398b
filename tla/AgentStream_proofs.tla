-------------------------- MODULE AgentStream_proofs --------------------------
(***************************************************************************)
(* The agent's jobs and what a stream of a job's output gets, for every    *)
(* number of jobs, streams and lines.                                      *)
(***************************************************************************)
EXTENDS AgentStream, Fanout_proofs

-----------------------------------------------------------------------------
(***************************************************************************)
(* The registry of jobs: its types, that no goroutine sends to a closed    *)
(* channel, and that a running process is found under its id.              *)
(*                                                                         *)
(* The argument for the channels is the order of a job's goroutines: the   *)
(* waiter closes channels only after the copier has ended (Phases), and a  *)
(* channel belongs to the one job its stream has joined (Owned), so that   *)
(* no other job's waiter closes it (ClosedLast).                           *)
(***************************************************************************)

\* The goroutines of a job exist once it is created, hold channels only while
\* they send, and the waiter sends only when the copier has ended.
Phase(s) ==
  /\ start[s].pc # "created" => copier[s].pc = "none" /\ waiter[s].pc = "none"
  /\ start[s].pc # "created" => proc[s].state = "none"
  /\ start[s].pc # "new" => start[s].id \in Ids
  /\ copier[s].pc # "send" => copier[s].to = {}
  /\ waiter[s].pc # "send" => waiter[s].to = {}
  /\ waiter[s].pc \in {"send", "ended"} => copier[s].pc = "ended"
  /\ job[s].done <=> waiter[s].pc \in {"send", "ended"}
  /\ waiter[s].pc \in {"drain", "send", "ended"} => proc[s].state = "exited"
  /\ Len(job[s].replay) <= job[s].size

Phases == \A s \in Starters : Phase(s)

\* A stream that has asked for a job keeps to it.
Joined ==
  \A c \in Streams :
    stream[c].pc \in {"subscribe", "loop", "ended", "left"} => stream[c].job \in Starters

\* A job's goroutines hold only channels of streams that joined it.
Owned ==
  \A s \in Starters, c \in Streams :
    c \in job[s].subs \/ c \in copier[s].to \/ c \in waiter[s].to
      => stream[c].job = s /\ stream[c].pc \notin {"new", "notFound"}

\* A channel is closed by the waiter of the stream's own job.
ClosedLast ==
  \A c \in Streams : chan[c].closed =>
    /\ stream[c].pc \notin {"new", "notFound"}
    /\ stream[c].job \in Starters
    /\ waiter[stream[c].job].pc \in {"send", "ended"}

\* A job that was published and is not done is the one its id finds.
Published ==
  \A s \in Starters :
    start[s].pc \in {"exec", "created"} /\ ~job[s].done => jobs[start[s].id] = s

IInv == TypeOK /\ Phases /\ Joined /\ Owned /\ ClosedLast /\ Published /\ NoSendOnClosed

-----------------------------------------------------------------------------
\* The inductive invariant holds before any job.
LEMMA InitIInv == Init => IInv
<1>. SUFFICES ASSUME Init PROVE IInv
  OBVIOUS
<1>. USE AssJobsAssumption DEF Init
<1>1. StartTypes /\ ProcTypes /\ CopierTypes /\ WaiterTypes
  BY DEF StartTypes, ProcTypes, CopierTypes, WaiterTypes
<1>2. JobTypes
  <2>1. <<>> \in Seq(Lines) /\ Len(<<>>) = 0
    BY EmptySeq
  <2>. QED BY <2>1 DEF JobTypes
<1>3. StreamTypes /\ ChanTypes /\ panicked \in BOOLEAN
  <2>1. <<>> \in Seq(Lines) /\ <<>> \in Seq(Lines \cup {End}) /\ Len(<<>>) = 0
    BY EmptySeq
  <2>2. 1 \in Places
    BY DEF Places
  <2>3. [pc |-> "new", job |-> None, from |-> 1, got |-> <<>>, sawEnd |-> FALSE] \in StreamRecord
    BY <2>1, <2>2 DEF StreamRecord
  <2>4. StreamTypes
    BY <2>3 DEF StreamTypes
  <2>5. [queue |-> <<>>, closed |-> FALSE, lost |-> {}]
          \in [queue : Seq(Lines \cup {End}), closed : BOOLEAN, lost : SUBSET (Lines \cup {End})]
    BY <2>1
  <2>6. ChanTypes
    BY <2>1, <2>5 DEF ChanTypes
  <2>. QED BY <2>4, <2>6
<1>4. Phases
  BY DEF Phases, Phase
<1>5. Joined /\ Owned /\ ClosedLast /\ Published /\ NoSendOnClosed
  BY DEF Joined, Owned, ClosedLast, Published, NoSendOnClosed
<1>. QED BY <1>1, <1>2, <1>3, <1>4, <1>5 DEF IInv, TypeOK

\* What is kept of a longer output: still lines, and no more than the limit.
LEMMA KeepBound ==
  ASSUME NEW lines \in Seq(Lines)
  PROVE  /\ Keep(lines) \in Seq(Lines)
         /\ Len(Keep(lines)) <= ReplayLimit
         /\ Len(Keep(lines)) <= Len(lines)
<1>. DEFINE first == IF Len(lines) > ReplayLimit THEN Len(lines) - ReplayLimit + 1 ELSE 1
<1>1. Len(lines) \in Nat /\ ReplayLimit \in Nat \ {0}
  BY AssJobsAssumption
<1>2. first \in 1 .. Len(lines) + 1
  BY <1>1
<1>3. \A i \in first .. Len(lines) : lines[i] \in Lines
  BY <1>1, <1>2, ElementOfSeq
<1>4. /\ SubSeq(lines, first, Len(lines)) \in Seq(Lines)
      /\ Len(SubSeq(lines, first, Len(lines)))
           = IF first <= Len(lines) THEN Len(lines) - first + 1 ELSE 0
  <2>. HIDE DEF first
  <2>. QED BY <1>1, <1>2, <1>3, SubSeqProperties
<1>5. Keep(lines) = SubSeq(lines, first, Len(lines))
  BY DEF Keep
<1>. QED BY <1>1, <1>4, <1>5

-----------------------------------------------------------------------------
(* Starting a job *)

\* One lemma per action: each keeps the inductive invariant.
LEMMA StartStep ==
  ASSUME IInv, NEW s \in Starters, NEW i \in Ids, Start(s, i)
  PROVE  IInv'
<1>. USE DEF IInv, TypeOK
<1>1. UNCHANGED <<jobs, proc, job, copier, waiter, stream, chan, panicked>>
  BY DEF Start, running
<1>2. /\ start[s].pc = "new"
      /\ start'[s].pc \in {"existing", "publish"} /\ start'[s].id = i
      /\ \A q \in Starters \ {s} : start'[q] = start[q]
      /\ StartTypes'
  BY <1>1 DEF Start, StartTypes
<1>3. TypeOK'
  BY <1>1, <1>2 DEF ProcTypes, JobTypes, CopierTypes, WaiterTypes, StreamTypes, ChanTypes
<1>4. Phases'
  BY <1>1, <1>2 DEF Phases, Phase
<1>5. Joined' /\ Owned' /\ ClosedLast' /\ NoSendOnClosed'
  BY <1>1 DEF Joined, Owned, ClosedLast, NoSendOnClosed
<1>6. Published'
  BY <1>1, <1>2 DEF Published
<1>. QED BY <1>3, <1>4, <1>5, <1>6

LEMMA PublishStep ==
  ASSUME IInv, NEW s \in Starters, Publish(s) \/ ExecFails(s)
  PROVE  IInv'
<1>. USE DEF IInv, TypeOK
<1>1. UNCHANGED <<proc, job, copier, waiter, stream, chan, panicked>>
  BY DEF Publish, ExecFails, running
<1>2. start[s].pc \in {"publish", "exec"} /\ start[s].id \in Ids /\ ~job[s].done
  BY DEF Publish, ExecFails, Phases, Phase
<1>3. /\ start'[s].pc \in {"existing", "exec", "failed"} /\ start'[s].id = start[s].id
      /\ \A q \in Starters \ {s} : start'[q] = start[q]
      /\ start' \in [Starters -> [pc : {"new", "publish", "exec", "created", "existing", "failed"},
                                  id : Ids \cup {None}]]
  BY DEF Publish, ExecFails, StartTypes
<1>4. jobs' \in [Ids -> Starters \cup {None}]
  BY DEF Publish, ExecFails, StartTypes
<1>5. TypeOK'
  BY <1>1, <1>3, <1>4
     DEF StartTypes, ProcTypes, JobTypes, CopierTypes, WaiterTypes, StreamTypes, ChanTypes
<1>6. Phases'
  BY <1>1, <1>2, <1>3 DEF Phases, Phase
<1>7. Joined' /\ Owned' /\ ClosedLast' /\ NoSendOnClosed'
  BY <1>1 DEF Joined, Owned, ClosedLast, NoSendOnClosed
<1>8. Published'
  <2>1. CASE Publish(s) /\ Live(start[s].id)
    BY <2>1, <1>1, <1>3 DEF Published, Publish, StartTypes
  <2>2. CASE Publish(s) /\ ~Live(start[s].id)
    <3>1. jobs' = [jobs EXCEPT ![start[s].id] = s]
      BY <2>2 DEF Publish
    <3>2. \A q \in Starters : ~job[q].done => jobs[start[s].id] # q
      BY <2>2, AssJobsAssumption DEF Live
    <3>. QED BY <3>1, <3>2, <1>1, <1>2, <1>3 DEF Published, StartTypes
  <2>3. CASE ExecFails(s)
    <3>1. start[s].pc = "exec" /\ start'[s].pc = "failed" /\ jobs' = [jobs EXCEPT ![start[s].id] = None]
      BY <2>3 DEF ExecFails, StartTypes
    <3>2. jobs[start[s].id] = s
      BY <3>1, <1>2 DEF Published
    <3>. QED BY <3>1, <3>2, <1>1, <1>2, <1>3 DEF Published, StartTypes, Phases, Phase
  <2>. QED BY <2>1, <2>2, <2>3
<1>. QED BY <1>5, <1>6, <1>7, <1>8

LEMMA ExecStep ==
  ASSUME IInv, NEW s \in Starters, Exec(s)
  PROVE  IInv'
<1>. USE DEF IInv, TypeOK
<1>1. UNCHANGED <<jobs, job, stream, chan, panicked>>
  BY DEF Exec
<1>2. /\ start[s].pc = "exec" /\ start'[s].pc = "created" /\ start'[s].id = start[s].id
      /\ \A q \in Starters \ {s} : start'[q] = start[q]
  BY DEF Exec, StartTypes
<1>3. /\ copier'[s].pc = "read" /\ copier'[s].to = copier[s].to
      /\ \A q \in Starters \ {s} : copier'[q] = copier[q]
  BY DEF Exec, CopierTypes
<1>4. /\ waiter'[s].pc = "wait" /\ waiter'[s].to = waiter[s].to
      /\ \A q \in Starters \ {s} : waiter'[q] = waiter[q]
  BY DEF Exec, WaiterTypes
<1>5. \A q \in Starters \ {s} : proc'[q] = proc[q]
  BY DEF Exec, ProcTypes
<1>6. StartTypes' /\ ProcTypes'
  BY <1>1 DEF Exec, StartTypes, ProcTypes
<1>7. CopierTypes' /\ WaiterTypes'
  BY DEF Exec, CopierTypes, WaiterTypes
<1>8. TypeOK'
  BY <1>1, <1>6, <1>7 DEF JobTypes, StreamTypes, ChanTypes
<1>9. Phases'
  BY <1>1, <1>2, <1>3, <1>4, <1>5 DEF Phases, Phase
<1>10. Joined' /\ NoSendOnClosed'
  BY <1>1 DEF Joined, NoSendOnClosed
<1>11. Owned'
  BY <1>1, <1>3, <1>4 DEF Owned
<1>12. ClosedLast'
  BY <1>1, <1>2, <1>4 DEF ClosedLast, Phases, Phase
<1>13. Published'
  BY <1>1, <1>2 DEF Published
<1>. QED BY <1>8, <1>9, <1>10, <1>11, <1>12, <1>13

-----------------------------------------------------------------------------
(* The process *)

LEMMA ProcessStep ==
  ASSUME IInv, NEW s \in Starters, WriteLine(s) \/ Exit(s) \/ LetGo(s)
  PROVE  IInv'
<1>. USE DEF IInv, TypeOK
<1>1. UNCHANGED <<jobs, start, job, copier, waiter, stream, chan, panicked>>
  BY DEF WriteLine, Exit, LetGo, starting
<1>2. /\ proc[s].state \in {"running", "held"} /\ proc'[s].state \in {"running", "held", "exited"}
      /\ \A q \in Starters \ {s} : proc'[q] = proc[q]
  BY DEF WriteLine, Exit, LetGo, ProcTypes
<1>3. ProcTypes'
  <2>1. CASE WriteLine(s)
    BY <2>1, AssJobsAssumption DEF WriteLine, ProcTypes
  <2>2. CASE Exit(s) \/ LetGo(s)
    BY <2>2 DEF Exit, LetGo, ProcTypes
  <2>. QED BY <2>1, <2>2
<1>4. TypeOK'
  BY <1>1, <1>3 DEF StartTypes, JobTypes, CopierTypes, WaiterTypes, StreamTypes, ChanTypes
<1>5. Phases'
  BY <1>1, <1>2 DEF Phases, Phase
<1>6. Joined' /\ Owned' /\ ClosedLast' /\ Published' /\ NoSendOnClosed'
  BY <1>1 DEF Joined, Owned, ClosedLast, Published, NoSendOnClosed
<1>. QED BY <1>4, <1>5, <1>6

-----------------------------------------------------------------------------
(* The copier *)

LEMMA AppendDeltaStep ==
  ASSUME IInv, NEW s \in Starters, AppendDelta(s)
  PROVE  IInv'
<1>. USE DEF IInv, TypeOK
<1>. DEFINE line == job[s].size + 1
            kept == Keep(Append(job[s].replay, line))
<1>1. UNCHANGED <<jobs, start, proc, waiter, stream, chan, panicked>>
  BY DEF AppendDelta, starting
<1>2. line \in Lines /\ line \in 0 .. MaxLines /\ job[s].size \in Nat
  BY AssJobsAssumption DEF AppendDelta, JobTypes, ProcTypes, Lines
<1>3. /\ job[s].replay \in Seq(Lines)
      /\ Append(job[s].replay, line) \in Seq(Lines)
      /\ Len(Append(job[s].replay, line)) = Len(job[s].replay) + 1
      /\ Len(job[s].replay) \in Nat
  BY <1>2 DEF JobTypes
<1>4. kept \in Seq(Lines) /\ Len(kept) <= ReplayLimit /\ Len(kept) <= line
  <2>1. Len(job[s].replay) <= job[s].size
    BY DEF Phases, Phase
  <2>2. /\ kept \in Seq(Lines) /\ Len(kept) <= ReplayLimit
        /\ Len(kept) <= Len(Append(job[s].replay, line))
    BY <1>3, KeepBound
  <2>. HIDE DEF kept
  <2>3. Len(kept) \in Nat
    BY <2>2, LenProperties
  <2>. QED BY <2>1, <2>2, <2>3, <1>2, <1>3
<1>5. job' = [job EXCEPT ![s] = [@ EXCEPT !.size = line, !.replay = kept]]
  BY DEF AppendDelta
<1>. HIDE DEF kept
<1>6. /\ job'[s].size = line /\ job'[s].replay = kept
      /\ job'[s].done = job[s].done /\ job'[s].subs = job[s].subs
      /\ \A q \in Starters \ {s} : job'[q] = job[q]
  BY <1>5 DEF JobTypes
<1>7. JobTypes'
  BY <1>2, <1>4, <1>5, <1>6 DEF JobTypes
<1>8. /\ copier[s].pc = "read" /\ copier'[s].to = job[s].subs
      /\ copier'[s].pc = IF job[s].subs = {} THEN "read" ELSE "send"
      /\ \A q \in Starters \ {s} : copier'[q] = copier[q]
  BY DEF AppendDelta, CopierTypes
<1>9. CopierTypes'
  BY DEF AppendDelta, CopierTypes, JobTypes
<1>10. TypeOK'
  BY <1>1, <1>7, <1>9 DEF StartTypes, ProcTypes, WaiterTypes, StreamTypes, ChanTypes
<1>11. Phases'
  BY <1>1, <1>4, <1>6, <1>8 DEF Phases, Phase
<1>12. Joined' /\ ClosedLast' /\ NoSendOnClosed'
  BY <1>1 DEF Joined, ClosedLast, NoSendOnClosed
<1>13. Owned'
  BY <1>1, <1>6, <1>8 DEF Owned
<1>14. Published'
  BY <1>1, <1>6 DEF Published
<1>. QED BY <1>10, <1>11, <1>12, <1>13, <1>14

\* An offer keeps a channel's type and capacity.
LEMMA OfferType ==
  ASSUME ChanTypes, NEW c \in Streams, NEW line \in Lines \cup {End}, NEW close \in BOOLEAN,
         Offer(c, line, close)
  PROVE  /\ ChanTypes'
         /\ chan'[c].closed = close
         /\ \A d \in Streams \ {c} : chan'[d] = chan[d]
<1>. DEFINE queue == IF Len(chan[c].queue) < ChanCap THEN Append(chan[c].queue, line) ELSE chan[c].queue
            lost == IF Len(chan[c].queue) < ChanCap THEN chan[c].lost ELSE chan[c].lost \cup {line}
<1>1. /\ chan[c].queue \in Seq(Lines \cup {End})
      /\ Append(chan[c].queue, line) \in Seq(Lines \cup {End})
      /\ Len(Append(chan[c].queue, line)) = Len(chan[c].queue) + 1
      /\ Len(chan[c].queue) \in Nat /\ Len(chan[c].queue) <= ChanCap
  BY DEF ChanTypes
<1>2. queue \in Seq(Lines \cup {End}) /\ Len(queue) <= ChanCap
  BY <1>1, AssJobsAssumption
<1>3. lost \in SUBSET (Lines \cup {End})
  BY DEF ChanTypes
<1>4. chan' = [chan EXCEPT ![c] = [@ EXCEPT !.queue = queue, !.lost = lost, !.closed = close]]
  BY DEF Offer
<1>. HIDE DEF queue, lost
<1>5. /\ chan'[c].queue = queue /\ chan'[c].closed = close
      /\ \A d \in Streams \ {c} : chan'[d] = chan[d]
      /\ chan' \in [Streams -> [queue : Seq(Lines \cup {End}), closed : BOOLEAN,
                                lost : SUBSET (Lines \cup {End})]]
  BY <1>2, <1>3, <1>4 DEF ChanTypes
<1>. QED BY <1>2, <1>5 DEF ChanTypes

LEMMA SendDeltaStep ==
  ASSUME IInv, NEW s \in Starters, NEW c \in Streams, SendDelta(s, c)
  PROVE  IInv'
<1>. USE DEF IInv, TypeOK
<1>1. UNCHANGED <<jobs, start, proc, job, waiter, stream>>
  BY DEF SendDelta, starting
<1>2. c \in copier[s].to /\ copier[s].pc = "send"
  BY DEF SendDelta, Phases, Phase
<1>3. ~chan[c].closed
  BY <1>2 DEF Phases, Phase, Owned, ClosedLast
<1>4. Offer(c, job[s].size, FALSE) /\ UNCHANGED panicked
  BY <1>3 DEF SendDelta
<1>5. job[s].size \in Lines \cup {End}
  BY AssJobsAssumption DEF JobTypes, Lines, End
<1>6. ChanTypes' /\ \A d \in Streams : chan'[d].closed => chan[d].closed
  BY <1>4, <1>5, OfferType
<1>7. /\ copier'[s].to \subseteq copier[s].to
      /\ copier'[s].pc = "send" \/ (copier'[s].pc = "read" /\ copier'[s].to = {})
      /\ \A q \in Starters \ {s} : copier'[q] = copier[q]
  BY <1>2 DEF SendDelta, CopierTypes
<1>8. CopierTypes'
  BY DEF SendDelta, CopierTypes
<1>9. TypeOK'
  BY <1>1, <1>4, <1>6, <1>8 DEF StartTypes, ProcTypes, JobTypes, WaiterTypes, StreamTypes
<1>10. Phases'
  BY <1>1, <1>2, <1>7 DEF Phases, Phase
<1>11. Joined' /\ NoSendOnClosed' /\ Published'
  BY <1>1, <1>4 DEF Joined, NoSendOnClosed, Published
<1>12. Owned'
  BY <1>1, <1>7 DEF Owned
<1>13. ClosedLast'
  BY <1>1, <1>6 DEF ClosedLast
<1>. QED BY <1>9, <1>10, <1>11, <1>12, <1>13

LEMMA CopyEndsStep ==
  ASSUME IInv, NEW s \in Starters, CopyEnds(s)
  PROVE  IInv'
<1>. USE DEF IInv, TypeOK
<1>1. UNCHANGED <<jobs, start, proc, job, waiter, stream, chan, panicked>>
  BY DEF CopyEnds, starting
<1>2. /\ copier[s].pc = "read" /\ copier'[s].pc = "ended" /\ copier'[s].to = copier[s].to
      /\ \A q \in Starters \ {s} : copier'[q] = copier[q]
  BY DEF CopyEnds, CopierTypes
<1>3. CopierTypes'
  BY DEF CopyEnds, CopierTypes
<1>4. TypeOK'
  BY <1>1, <1>3 DEF StartTypes, ProcTypes, JobTypes, WaiterTypes, StreamTypes, ChanTypes
<1>5. Phases'
  BY <1>1, <1>2 DEF Phases, Phase
<1>6. Joined' /\ ClosedLast' /\ Published' /\ NoSendOnClosed'
  BY <1>1 DEF Joined, ClosedLast, Published, NoSendOnClosed
<1>7. Owned'
  BY <1>1, <1>2 DEF Owned
<1>. QED BY <1>4, <1>5, <1>6, <1>7

-----------------------------------------------------------------------------
(* The waiter *)

LEMMA WaitReturnsStep ==
  ASSUME IInv, NEW s \in Starters, WaitReturns(s)
  PROVE  IInv'
<1>. USE DEF IInv, TypeOK
<1>1. UNCHANGED <<jobs, start, proc, job, copier, stream, chan, panicked>>
  BY DEF WaitReturns, starting
<1>2. /\ waiter[s].pc = "wait" /\ waiter'[s].pc = "drain" /\ waiter'[s].to = waiter[s].to
      /\ proc[s].state = "exited"
      /\ \A q \in Starters \ {s} : waiter'[q] = waiter[q]
  BY DEF WaitReturns, WaiterTypes
<1>3. WaiterTypes'
  BY DEF WaitReturns, WaiterTypes
<1>4. TypeOK'
  BY <1>1, <1>3 DEF StartTypes, ProcTypes, JobTypes, CopierTypes, StreamTypes, ChanTypes
<1>5. Phases'
  BY <1>1, <1>2 DEF Phases, Phase
<1>6. Joined' /\ Published' /\ NoSendOnClosed'
  BY <1>1 DEF Joined, Published, NoSendOnClosed
<1>7. Owned' /\ ClosedLast'
  BY <1>1, <1>2 DEF Owned, ClosedLast
<1>. QED BY <1>4, <1>5, <1>6, <1>7

LEMMA FinishStep ==
  ASSUME IInv, NEW s \in Starters, Finish(s)
  PROVE  IInv'
<1>. USE DEF IInv, TypeOK
<1>1. UNCHANGED <<jobs, start, proc, copier, stream, chan, panicked>>
  BY DEF Finish, starting
<1>2. /\ waiter[s].pc = "drain" /\ copier[s].pc = "ended"
      /\ waiter'[s].to = job[s].subs
      /\ waiter'[s].pc = IF job[s].subs = {} THEN "ended" ELSE "send"
      /\ \A q \in Starters \ {s} : waiter'[q] = waiter[q]
  BY DEF Finish, WaiterTypes
<1>3. /\ job'[s].done = TRUE /\ job'[s].subs = {}
      /\ job'[s].size = job[s].size /\ job'[s].replay = job[s].replay
      /\ \A q \in Starters \ {s} : job'[q] = job[q]
  BY DEF Finish, JobTypes
<1>4. WaiterTypes'
  BY DEF Finish, WaiterTypes, JobTypes
<1>5. JobTypes'
  <2>1. job' \in [Starters -> [size : 0 .. MaxLines, replay : Seq(Lines), done : BOOLEAN,
                               subs : SUBSET Streams]]
    BY DEF Finish, JobTypes
  <2>. QED BY <2>1, <1>3 DEF JobTypes
<1>6. TypeOK'
  BY <1>1, <1>4, <1>5 DEF StartTypes, ProcTypes, CopierTypes, StreamTypes, ChanTypes
<1>7. Phases'
  BY <1>1, <1>2, <1>3 DEF Phases, Phase
<1>8. Joined' /\ NoSendOnClosed'
  BY <1>1 DEF Joined, NoSendOnClosed
<1>9. Owned'
  BY <1>1, <1>2, <1>3 DEF Owned
<1>10. ClosedLast'
  BY <1>1, <1>2 DEF ClosedLast
<1>11. Published'
  BY <1>1, <1>3 DEF Published
<1>. QED BY <1>6, <1>7, <1>8, <1>9, <1>10, <1>11

LEMMA SendEndStep ==
  ASSUME IInv, NEW s \in Starters, NEW c \in Streams, SendEnd(s, c)
  PROVE  IInv'
<1>. USE DEF IInv, TypeOK
<1>1. UNCHANGED <<jobs, start, proc, job, copier, stream, panicked>>
  BY DEF SendEnd, starting
<1>2. c \in waiter[s].to /\ waiter[s].pc = "send"
  BY DEF SendEnd, Phases, Phase
<1>3. stream[c].job = s /\ stream[c].pc \notin {"new", "notFound"}
  BY <1>2 DEF Owned
<1>4. ChanTypes' /\ \A d \in Streams \ {c} : chan'[d] = chan[d]
  BY OfferType DEF SendEnd
<1>5. /\ waiter'[s].to \subseteq waiter[s].to
      /\ waiter'[s].pc = "send" \/ (waiter'[s].pc = "ended" /\ waiter'[s].to = {})
      /\ \A q \in Starters \ {s} : waiter'[q] = waiter[q]
  BY <1>2 DEF SendEnd, WaiterTypes
<1>6. WaiterTypes'
  BY DEF SendEnd, WaiterTypes
<1>7. TypeOK'
  BY <1>1, <1>4, <1>6 DEF StartTypes, ProcTypes, JobTypes, CopierTypes, StreamTypes
<1>8. Phases'
  BY <1>1, <1>2, <1>5 DEF Phases, Phase
<1>9. Joined' /\ NoSendOnClosed' /\ Published'
  BY <1>1 DEF Joined, NoSendOnClosed, Published
<1>10. Owned'
  BY <1>1, <1>5 DEF Owned
<1>11. ClosedLast'
  BY <1>1, <1>2, <1>3, <1>4, <1>5 DEF ClosedLast
<1>. QED BY <1>7, <1>8, <1>9, <1>10, <1>11

-----------------------------------------------------------------------------
(* Streams *)

LEMMA StreamStep ==
  ASSUME IInv, NEW c \in Streams, NEW i \in Ids, Stream(c, i)
  PROVE  IInv'
<1>. USE DEF IInv, TypeOK
<1>1. UNCHANGED <<jobs, start, proc, job, copier, waiter, chan, panicked>>
  BY DEF Stream, starting, running
<1>2. /\ stream[c].pc = "new"
      /\ stream'[c].pc = IF jobs[i] = None THEN "notFound" ELSE "subscribe"
      /\ stream'[c].job = jobs[i] /\ jobs[i] \in Starters \cup {None}
      /\ \A d \in Streams \ {c} : stream'[d] = stream[d]
  BY DEF Stream, StreamTypes, StreamRecord, StartTypes
<1>3. StreamTypes'
  <2>. DEFINE record == [stream[c] EXCEPT !.pc = IF jobs[i] = None THEN "notFound" ELSE "subscribe",
                                          !.job = jobs[i]]
  <2>1. record \in StreamRecord
    BY <1>2 DEF StreamTypes, StreamRecord
  <2>2. stream' = [stream EXCEPT ![c] = record]
    BY DEF Stream, StreamTypes
  <2>. QED BY <2>1, <2>2 DEF StreamTypes
<1>4. TypeOK'
  BY <1>1, <1>3 DEF StartTypes, ProcTypes, JobTypes, CopierTypes, WaiterTypes, ChanTypes
<1>5. Phases' /\ Published' /\ NoSendOnClosed'
  BY <1>1 DEF Phases, Phase, Published, NoSendOnClosed
<1>6. Joined'
  BY <1>2 DEF Joined
<1>7. Owned'
  BY <1>1, <1>2 DEF Owned, JobTypes, CopierTypes, WaiterTypes
<1>8. ClosedLast'
  BY <1>1, <1>2 DEF ClosedLast
<1>. QED BY <1>4, <1>5, <1>6, <1>7, <1>8

\* A stream in its loop that goes on with the same job.
LEMMA LoopStep ==
  ASSUME IInv, NEW c \in Streams, stream[c].pc = "loop",
         StreamTypes', ChanTypes', JobTypes',
         stream'[c].pc \in {"loop", "ended", "left"} /\ stream'[c].job = stream[c].job,
         \A d \in Streams \ {c} : stream'[d] = stream[d],
         \A d \in Streams : chan'[d].closed = chan[d].closed,
         \A s \in Starters : /\ job'[s].size = job[s].size /\ job'[s].replay = job[s].replay
                             /\ job'[s].done = job[s].done /\ job'[s].subs \subseteq job[s].subs,
         UNCHANGED <<starting, running, panicked>>
  PROVE  IInv'
<1>. USE DEF IInv, TypeOK, starting, running
<1>1. TypeOK'
  BY DEF StartTypes, ProcTypes, CopierTypes, WaiterTypes
<1>2. Phases' /\ Published' /\ NoSendOnClosed'
  BY DEF Phases, Phase, Published, NoSendOnClosed
<1>3. Joined' /\ ClosedLast'
  BY DEF Joined, ClosedLast
<1>4. Owned'
  BY DEF Owned
<1>. QED BY <1>1, <1>2, <1>3, <1>4

LEMMA ReceiveStep ==
  ASSUME IInv, NEW c \in Streams, Receive(c)
  PROVE  IInv'
<1>. DEFINE line == Head(chan[c].queue)
            rest == Tail(chan[c].queue)
<1>1. TypeOK /\ stream[c].pc = "loop" /\ UNCHANGED <<starting, running, job, panicked>>
  BY DEF IInv, Receive
<1>2. /\ line \in Lines \cup {End} /\ rest \in Seq(Lines \cup {End})
      /\ Len(rest) <= ChanCap
  <2>1. chan[c].queue \in Seq(Lines \cup {End}) /\ chan[c].queue # <<>> /\ Len(chan[c].queue) <= ChanCap
    BY <1>1 DEF Receive, TypeOK, ChanTypes
  <2>2. Len(chan[c].queue) \in Nat /\ Len(rest) = Len(chan[c].queue) - 1
    BY <2>1, HeadTailProperties, LenProperties
  <2>. QED BY <2>1, <2>2, HeadTailProperties, AssJobsAssumption
<1>3. chan' = [chan EXCEPT ![c].queue = rest]
  BY DEF Receive
<1>4. line # End => Append(stream[c].got, line) \in Seq(Lines)
  BY <1>1, <1>2 DEF TypeOK, StreamTypes, StreamRecord
<1>5. \/ line = End /\ stream' = [stream EXCEPT ![c] = [@ EXCEPT !.pc = "ended", !.sawEnd = TRUE]]
      \/ line # End /\ stream' = [stream EXCEPT ![c].got = Append(stream[c].got, line)]
  BY DEF Receive
<1>. HIDE DEF line, rest
<1>6. ChanTypes' /\ \A d \in Streams : chan'[d].closed = chan[d].closed
  BY <1>1, <1>2, <1>3 DEF TypeOK, ChanTypes
<1>7. StreamTypes'
  <2>1. CASE line = End
    <3>1. [stream[c] EXCEPT !.pc = "ended", !.sawEnd = TRUE] \in StreamRecord
      BY <1>1 DEF TypeOK, StreamTypes, StreamRecord
    <3>2. stream' = [stream EXCEPT ![c] = [stream[c] EXCEPT !.pc = "ended", !.sawEnd = TRUE]]
      BY <1>5, <2>1
    <3>. QED BY <1>1, <3>1, <3>2 DEF TypeOK, StreamTypes
  <2>2. CASE line # End
    <3>1. [stream[c] EXCEPT !.got = Append(stream[c].got, line)] \in StreamRecord
      BY <1>1, <1>4, <2>2 DEF TypeOK, StreamTypes, StreamRecord
    <3>2. stream' = [stream EXCEPT ![c] = [stream[c] EXCEPT !.got = Append(stream[c].got, line)]]
      BY <1>5, <2>2
    <3>. QED BY <1>1, <3>1, <3>2 DEF TypeOK, StreamTypes
  <2>. QED BY <2>1, <2>2
<1>8. /\ stream'[c].pc \in {"loop", "ended"} /\ stream'[c].job = stream[c].job
      /\ \A d \in Streams \ {c} : stream'[d] = stream[d]
  BY <1>1, <1>5 DEF TypeOK, StreamTypes, StreamRecord
<1>9. JobTypes'
  BY <1>1 DEF TypeOK, JobTypes
<1>. QED BY <1>1, <1>6, <1>7, <1>8, <1>9, LoopStep

LEMMA ClosedStep ==
  ASSUME IInv, NEW c \in Streams, Closed(c)
  PROVE  IInv'
<1>1. TypeOK /\ stream[c].pc = "loop" /\ UNCHANGED <<starting, running, job, chan, panicked>>
  BY DEF IInv, Closed
<1>2. /\ stream'[c].pc = "ended" /\ stream'[c].job = stream[c].job
      /\ \A d \in Streams \ {c} : stream'[d] = stream[d]
      /\ StreamTypes'
  BY <1>1 DEF Closed, TypeOK, StreamTypes, StreamRecord
<1>3. ChanTypes' /\ JobTypes'
  BY <1>1 DEF TypeOK, ChanTypes, JobTypes
<1>. QED BY <1>1, <1>2, <1>3, LoopStep

LEMMA LeaveStep ==
  ASSUME IInv, NEW c \in Streams, Leave(c)
  PROVE  IInv'
<1>1. /\ TypeOK /\ stream[c].pc = "loop" /\ stream[c].job \in Starters
      /\ UNCHANGED <<starting, running, chan, panicked>>
  BY DEF IInv, Leave, Joined
<1>2. /\ stream'[c].pc = "left" /\ stream'[c].job = stream[c].job
      /\ \A d \in Streams \ {c} : stream'[d] = stream[d]
      /\ StreamTypes'
  BY <1>1 DEF Leave, TypeOK, StreamTypes, StreamRecord
<1>3. \A s \in Starters : /\ job'[s].size = job[s].size /\ job'[s].replay = job[s].replay
                          /\ job'[s].done = job[s].done /\ job'[s].subs \subseteq job[s].subs
  BY <1>1 DEF Leave, TypeOK, JobTypes
<1>4. JobTypes'
  <2>1. job' \in [Starters -> [size : 0 .. MaxLines, replay : Seq(Lines), done : BOOLEAN,
                               subs : SUBSET Streams]]
    BY <1>1 DEF Leave, TypeOK, JobTypes
  <2>. QED BY <2>1, <1>1, <1>3 DEF TypeOK, JobTypes
<1>5. ChanTypes'
  BY <1>1 DEF TypeOK, ChanTypes
<1>. QED BY <1>1, <1>2, <1>3, <1>4, <1>5, LoopStep

LEMMA SubscribeStep ==
  ASSUME IInv, NEW c \in Streams, Subscribe(c)
  PROVE  IInv'
<1>. DEFINE s == stream[c].job
            from == job[s].size - Len(job[s].replay) + 1
<1>. USE DEF IInv, TypeOK
<1>1. /\ stream[c].pc = "subscribe" /\ s \in Starters
      /\ UNCHANGED <<jobs, start, proc, copier, waiter, chan, panicked>>
  BY DEF Subscribe, Joined, starting, running
<1>2. from \in Places
  <2>1. Len(job[s].replay) \in Nat /\ job[s].size \in 0 .. MaxLines
    BY <1>1, LenProperties DEF JobTypes
  <2>2. Len(job[s].replay) <= job[s].size
    BY <1>1 DEF Phases, Phase
  <2>. QED BY <2>1, <2>2, AssJobsAssumption DEF Places
<1>3. stream' = [stream EXCEPT ![c] =
                   [@ EXCEPT !.pc = IF job[s].done THEN "ended" ELSE "loop",
                             !.from = from, !.got = job[s].replay, !.sawEnd = job[s].done]]
  BY DEF Subscribe
<1>. HIDE DEF from
<1>4. /\ stream'[c].pc \in {"loop", "ended"} /\ stream'[c].job = s
      /\ \A d \in Streams \ {c} : stream'[d] = stream[d]
  BY <1>3 DEF StreamTypes, StreamRecord
<1>5. StreamTypes'
  <2>. DEFINE record == [stream[c] EXCEPT !.pc = IF job[s].done THEN "ended" ELSE "loop",
                                          !.from = from, !.got = job[s].replay, !.sawEnd = job[s].done]
  <2>1. job[s].replay \in Seq(Lines) /\ job[s].done \in BOOLEAN
    BY <1>1 DEF JobTypes
  <2>2. record \in StreamRecord
    BY <1>2, <2>1 DEF StreamTypes, StreamRecord
  <2>3. stream' = [stream EXCEPT ![c] = record]
    BY <1>3
  <2>. QED BY <2>2, <2>3 DEF StreamTypes
<1>6. \A q \in Starters :
        /\ job'[q].size = job[q].size /\ job'[q].replay = job[q].replay /\ job'[q].done = job[q].done
        /\ job'[q].subs \subseteq job[q].subs \cup (IF q = s THEN {c} ELSE {})
  BY <1>1 DEF Subscribe, JobTypes
<1>7. JobTypes'
  <2>1. job' \in [Starters -> [size : 0 .. MaxLines, replay : Seq(Lines), done : BOOLEAN,
                               subs : SUBSET Streams]]
    BY <1>1 DEF Subscribe, JobTypes
  <2>. QED BY <2>1, <1>6 DEF JobTypes
<1>8. TypeOK'
  BY <1>1, <1>5, <1>7 DEF StartTypes, ProcTypes, CopierTypes, WaiterTypes, ChanTypes
<1>. HIDE DEF s
<1>9. Phases' /\ Published' /\ NoSendOnClosed'
  BY <1>1, <1>6 DEF Phases, Phase, Published, NoSendOnClosed
<1>10. Joined'
  BY <1>1, <1>4 DEF Joined
<1>11. ClosedLast'
  BY <1>1, <1>4 DEF ClosedLast, s
<1>12. Owned'
  BY <1>1, <1>4, <1>6 DEF Owned, s
<1>. QED BY <1>8, <1>9, <1>10, <1>11, <1>12

-----------------------------------------------------------------------------
\* Every step keeps the inductive invariant.
LEMMA NextIInv == IInv /\ [Next]_vars => IInv'
<1>. SUFFICES ASSUME IInv, [Next]_vars PROVE IInv'
  OBVIOUS
<1>1. CASE UNCHANGED vars
  BY <1>1 DEF vars, starting, running, IInv, TypeOK, StartTypes, ProcTypes, JobTypes, CopierTypes,
     WaiterTypes, StreamTypes, ChanTypes, Phases, Phase, Joined, Owned, ClosedLast, Published,
     NoSendOnClosed
<1>2. ASSUME NEW s \in Starters,
             (\E i \in Ids : Start(s, i)) \/ StartNext(s) \/ WriteLine(s) \/ Exit(s) \/ LetGo(s)
               \/ CopyNext(s) \/ WaitNext(s)
      PROVE  IInv'
  BY <1>2, StartStep, PublishStep, ExecStep, ProcessStep, AppendDeltaStep, SendDeltaStep,
     CopyEndsStep, WaitReturnsStep, FinishStep, SendEndStep DEF StartNext, CopyNext, WaitNext
<1>3. ASSUME NEW c \in Streams, (\E i \in Ids : Stream(c, i)) \/ StreamNext(c) \/ Leave(c)
      PROVE  IInv'
  BY <1>3, StreamStep, SubscribeStep, ReceiveStep, ClosedStep, LeaveStep DEF StreamNext
<1>. QED BY <1>1, <1>2, <1>3 DEF Next

\* The inductive invariant: the order of a job's goroutines, whose channels they
\* hold, and where a published job is found.
THEOREM Invariance == Spec => []IInv
BY InitIInv, NextIInv, PTL DEF Spec

\* The registry, jobs, goroutines, streams and channels keep their types, the
\* replay its limit and the channels their capacity.
THEOREM TypeCorrect == Spec => []TypeOK
<1>1. IInv => TypeOK
  BY DEF IInv
<1>. QED BY <1>1, Invariance, PTL

\* No goroutine ever sends to a closed channel: finish and appendDelta never
\* race for one, however many streams come and go.
THEOREM NoPanic == Spec => []NoSendOnClosed
<1>1. IInv => NoSendOnClosed
  BY DEF IInv
<1>. QED BY <1>1, Invariance, PTL

\* A running process is the one its job id finds, whatever requests raced to
\* start it.
THEOREM LiveFound == Spec => []LiveJobIsFound
<1>1. IInv => LiveJobIsFound
  BY DEF IInv, Phases, Phase, Published, LiveJobIsFound
<1>. QED BY <1>1, Invariance, PTL

-----------------------------------------------------------------------------
(***************************************************************************)
(* The streams: every kept line from where one joined on, once and in      *)
(* order, but for those its channel had no room for, and the end last.     *)
(*                                                                         *)
(* The argument follows a line from the job to the stream.  The output a   *)
(* stream has is the numbers from .. top, in what it was given, its        *)
(* channel's queue and what was lost (Complete); top is the job's size, or *)
(* one less as long as the copier still holds the channel for the last     *)
(* line.  A stream joins where the replay ends, in the step that makes it  *)
(* a subscriber, so nothing falls between the two.                         *)
(*                                                                         *)
(* The console's prompts read those streams.  What a prompt has handed on  *)
(* is the first part of what its current stream has got (Reading), so it   *)
(* is in order because the stream's output is; and it asks for a stream a  *)
(* second time only when it has handed on nothing of the first.            *)
(***************************************************************************)

\* The last line that has left the copier for stream c, or that it will not get.
Top(c) ==
  LET s == stream[c].job
  IN  IF c \in copier[s].to THEN job[s].size - 1 ELSE job[s].size

\* A copier ends when it has copied everything, sends no line 0, and keeps the
\* last lines.
Copied ==
  \A s \in Starters :
    /\ copier[s].pc = "ended" => job[s].size = proc[s].lines /\ proc[s].state = "exited"
    /\ copier[s].pc = "send" => job[s].size # 0
    /\ \A n \in 1 .. Len(job[s].replay) :
         job[s].replay[n] = job[s].size - Len(job[s].replay) + n

\* Nobody knows a channel before its stream has subscribed.
Unknown ==
  \A c \in Streams : stream[c].pc \in {"new", "notFound", "subscribe"} =>
    /\ chan[c].queue = <<>> /\ chan[c].lost = {} /\ ~chan[c].closed
    /\ \A s \in Starters : c \notin job[s].subs /\ c \notin copier[s].to /\ c \notin waiter[s].to

\* A stream in its loop is a subscriber until its job is done.
Subscribed ==
  \A c \in Streams :
    stream[c].pc = "loop" => c \in job[stream[c].job].subs \/ job[stream[c].job].done

\* The end is sent when the channel is closed, and not before; a stream ends after
\* its job's copier.
Ending ==
  \A c \in Streams :
    /\ HasEnd(chan[c].queue) => chan[c].closed
    /\ chan[c].closed => HasEnd(chan[c].queue) \/ End \in chan[c].lost \/ stream[c].sawEnd
    /\ stream[c].pc = "ended" =>
         /\ stream[c].sawEnd \/ End \in chan[c].lost
         /\ copier[stream[c].job].pc = "ended"

\* Every stream has its lines.
Flowing ==
  \A c \in Streams : stream[c].pc \in {"loop", "ended"} =>
    Complete(Lines, stream[c].got, chan[c].queue, chan[c].lost, stream[c].from, Top(c))

SInv == Copied /\ Unknown /\ Subscribed /\ Ending /\ Flowing

-----------------------------------------------------------------------------
(* Lines on their way *)

\* The lines of a job, and the end, are as the lemmas on events have them.
LEMMA LinesAreNumbered == Lines \in SUBSET (Nat \ {0}) /\ End = EndMark
BY AssJobsAssumption DEF Lines, End, EndMark

\* The kept lines of a longer output are still its last ones.
LEMMA KeepsLines ==
  ASSUME NEW replay \in Seq(Lines), NEW size \in Nat, size + 1 \in Lines,
         \A n \in 1 .. Len(replay) : replay[n] = size - Len(replay) + n
  PROVE  \A n \in 1 .. Len(Keep(Append(replay, size + 1))) :
           Keep(Append(replay, size + 1))[n] = size + 1 - Len(Keep(Append(replay, size + 1))) + n
<1>1. Keep(Append(replay, size + 1)) = KeepLast(Append(replay, size + 1), ReplayLimit)
  BY DEF Keep, KeepLast
<1>2. Lines \in SUBSET (Nat \ {0}) /\ ReplayLimit \in Nat \ {0}
  BY LinesAreNumbered, AssJobsAssumption
<1>3. LET kept == KeepLast(Append(replay, size + 1), ReplayLimit)
      IN  \A n \in 1 .. Len(kept) : kept[n] = size + 1 - Len(kept) + n
  <2>1. PICK lines \in SUBSET (Nat \ {0}) : lines = Lines
    BY <1>2
  <2>2. PICK limit \in Nat \ {0} : limit = ReplayLimit
    BY <1>2
  <2>3. replay \in Seq(lines) /\ size + 1 \in lines
    BY <2>1
  <2>4. LET kept == KeepLast(Append(replay, size + 1), limit)
        IN  \A n \in 1 .. Len(kept) : kept[n] = size + 1 - Len(kept) + n
    BY <2>3, KeepsTail
  <2>. QED BY <2>2, <2>4
<1>. QED BY <1>1, <1>3

\* An offer appends to the queue, or counts as lost.
LEMMA OfferedLine ==
  ASSUME ChanTypes, NEW c \in Streams, NEW line \in Lines \cup {End}, NEW close \in BOOLEAN,
         Offer(c, line, close)
  PROVE  /\ \/ /\ chan'[c].queue = Append(chan[c].queue, line)
               /\ chan'[c].lost = chan[c].lost
            \/ /\ chan'[c].queue = chan[c].queue
               /\ chan'[c].lost = chan[c].lost \cup {line}
         /\ chan'[c].closed = close
         /\ \A d \in Streams \ {c} : chan'[d] = chan[d]
<1>. DEFINE queue == IF Len(chan[c].queue) < ChanCap THEN Append(chan[c].queue, line) ELSE chan[c].queue
            lost == IF Len(chan[c].queue) < ChanCap THEN chan[c].lost ELSE chan[c].lost \cup {line}
<1>1. chan' = [chan EXCEPT ![c] = [@ EXCEPT !.queue = queue, !.lost = lost, !.closed = close]]
  BY DEF Offer
<1>2. \/ queue = Append(chan[c].queue, line) /\ lost = chan[c].lost
      \/ queue = chan[c].queue /\ lost = chan[c].lost \cup {line}
  OBVIOUS
<1>. HIDE DEF queue, lost
<1>3. chan'[c].queue = queue /\ chan'[c].lost = lost /\ chan'[c].closed = close
  BY <1>1 DEF ChanTypes
<1>4. \A d \in Streams \ {c} : chan'[d] = chan[d]
  BY <1>1 DEF ChanTypes
<1>. QED BY <1>2, <1>3, <1>4

-----------------------------------------------------------------------------
(* The steps *)

\* No job, no stream and no line.
LEMMA InitSInv == Init => SInv
<1>. SUFFICES ASSUME Init PROVE SInv
  OBVIOUS
<1>1. Len(<<>>) = 0 /\ \A n \in 1 .. 0 : FALSE
  BY EmptySeq
<1>2. Copied
  BY <1>1 DEF Init, Copied
<1>3. Unknown /\ Subscribed
  BY DEF Init, Unknown, Subscribed
<1>4. Ending
  BY <1>1 DEF Init, Ending, HasEnd
<1>5. Flowing
  BY DEF Init, Flowing
<1>. QED BY <1>2, <1>3, <1>4, <1>5 DEF SInv

\* A step that touches no stream, no channel and no subscriber.
LEMMA QuietStep ==
  ASSUME IInv, SInv, UNCHANGED <<job, stream, chan>>, Copied',
         \A s \in Starters :
           /\ copier'[s].to = copier[s].to /\ waiter'[s].to = waiter[s].to
           /\ copier[s].pc = "ended" => copier'[s].pc = "ended"
  PROVE  SInv'
<1>. USE DEF IInv, SInv
<1>1. Unknown' /\ Subscribed'
  BY DEF Unknown, Subscribed
<1>2. Ending'
  BY DEF Ending, Joined
<1>3. \A c \in Streams : stream[c].pc \in {"loop", "ended"} => Top(c)' = Top(c)
  BY DEF Top, Joined
<1>4. Flowing'
  BY <1>3 DEF Flowing
<1>. QED BY <1>1, <1>2, <1>4

LEMMA StartingSInv ==
  ASSUME IInv, SInv, NEW s \in Starters,
         (\E i \in Ids : Start(s, i)) \/ Publish(s) \/ Exec(s) \/ ExecFails(s)
  PROVE  SInv'
<1>1. UNCHANGED <<job, stream, chan>>
  BY DEF Start, Publish, Exec, ExecFails
<1>2. CASE Exec(s)
  <2>1. /\ copier[s].pc = "none"
        /\ \A q \in Starters \ {s} : copier'[q] = copier[q] /\ waiter'[q] = waiter[q] /\ proc'[q] = proc[q]
        /\ copier'[s].pc = "read" /\ copier'[s].to = copier[s].to /\ waiter'[s].to = waiter[s].to
    BY <1>2 DEF Exec, IInv, TypeOK, StartTypes, ProcTypes, CopierTypes, WaiterTypes, Phases, Phase
  <2>2. Copied'
    BY <1>1, <2>1 DEF SInv, Copied
  <2>. QED BY <1>1, <2>1, <2>2, QuietStep
<1>3. CASE ~Exec(s)
  <2>1. UNCHANGED <<proc, copier, waiter>>
    BY <1>3 DEF Start, Publish, ExecFails, running
  <2>2. Copied'
    BY <1>1, <2>1 DEF SInv, Copied
  <2>. QED BY <1>1, <2>1, <2>2, QuietStep
<1>. QED BY <1>2, <1>3

LEMMA ProcessSInv ==
  ASSUME IInv, SInv, NEW s \in Starters, WriteLine(s) \/ Exit(s) \/ LetGo(s)
  PROVE  SInv'
<1>1. UNCHANGED <<job, stream, chan, copier, waiter>>
  BY DEF WriteLine, Exit, LetGo
<1>2. proc[s].state \in {"running", "held"} /\ \A q \in Starters \ {s} : proc'[q] = proc[q]
  BY DEF WriteLine, Exit, LetGo, IInv, TypeOK, ProcTypes
<1>3. Copied'
  BY <1>1, <1>2 DEF SInv, Copied
<1>. QED BY <1>1, <1>3, QuietStep

LEMMA CopyEndsSInv ==
  ASSUME IInv, SInv, NEW s \in Starters, CopyEnds(s)
  PROVE  SInv'
<1>1. UNCHANGED <<job, stream, chan, waiter, proc>>
  BY DEF CopyEnds
<1>2. /\ copier[s].pc = "read" /\ copier'[s].pc = "ended" /\ copier'[s].to = copier[s].to
      /\ \A q \in Starters \ {s} : copier'[q] = copier[q]
  BY DEF CopyEnds, IInv, TypeOK, CopierTypes
<1>3. job[s].size = proc[s].lines /\ proc[s].state = "exited"
  BY DEF CopyEnds, IInv, TypeOK, WaiterTypes, Phases, Phase
<1>4. Copied'
  BY <1>1, <1>2, <1>3 DEF SInv, Copied
<1>. QED BY <1>1, <1>2, <1>4, QuietStep

LEMMA WaitReturnsSInv ==
  ASSUME IInv, SInv, NEW s \in Starters, WaitReturns(s)
  PROVE  SInv'
<1>1. UNCHANGED <<job, stream, chan, copier, proc>>
  BY DEF WaitReturns
<1>2. \A q \in Starters : waiter'[q].to = waiter[q].to
  BY DEF WaitReturns, IInv, TypeOK, WaiterTypes
<1>3. Copied'
  BY <1>1 DEF SInv, Copied
<1>. QED BY <1>1, <1>2, <1>3, QuietStep

LEMMA AppendDeltaSInv ==
  ASSUME IInv, SInv, NEW s \in Starters, AppendDelta(s)
  PROVE  SInv'
<1>. DEFINE line == job[s].size + 1
            kept == Keep(Append(job[s].replay, line))
<1>. USE DEF IInv, TypeOK, SInv
<1>1. UNCHANGED <<proc, waiter, stream, chan>>
  BY DEF AppendDelta
<1>2. line \in Lines /\ job[s].size \in Nat /\ job[s].replay \in Seq(Lines)
  BY AssJobsAssumption DEF AppendDelta, JobTypes, ProcTypes, Lines
<1>3. \A n \in 1 .. Len(kept) : kept[n] = line - Len(kept) + n
  <2>1. \A n \in 1 .. Len(job[s].replay) : job[s].replay[n] = job[s].size - Len(job[s].replay) + n
    BY DEF Copied
  <2>2. PICK r \in Seq(Lines), z \in Nat : r = job[s].replay /\ z = job[s].size
    BY <1>2
  <2>. HIDE DEF IInv, TypeOK, SInv
  <2>3. \A n \in 1 .. Len(Keep(Append(r, z + 1))) :
          Keep(Append(r, z + 1))[n] = z + 1 - Len(Keep(Append(r, z + 1))) + n
    BY <1>2, <2>1, <2>2, KeepsLines
  <2>. QED BY <2>2, <2>3
<1>4. job' = [job EXCEPT ![s] = [@ EXCEPT !.size = line, !.replay = kept]]
  BY DEF AppendDelta
<1>. HIDE DEF kept
<1>5. /\ job'[s].size = line /\ job'[s].replay = kept
      /\ job'[s].done = job[s].done /\ job'[s].subs = job[s].subs
      /\ \A q \in Starters \ {s} : job'[q] = job[q]
  BY <1>4 DEF JobTypes
<1>6. /\ copier[s].pc = "read" /\ copier[s].to = {} /\ copier'[s].to = job[s].subs
      /\ copier'[s].pc = IF job[s].subs = {} THEN "read" ELSE "send"
      /\ \A q \in Starters \ {s} : copier'[q] = copier[q]
  BY DEF AppendDelta, CopierTypes, Phases, Phase
<1>7. Copied'
  BY <1>1, <1>2, <1>3, <1>5, <1>6 DEF Copied
<1>8. Unknown' /\ Subscribed'
  BY <1>1, <1>5, <1>6 DEF Unknown, Subscribed, Joined
<1>9. Ending'
  BY <1>1, <1>6 DEF Ending, Joined
<1>10. \A c \in Streams : stream[c].pc \in {"loop", "ended"} => Top(c)' = Top(c)
  <2>1. ASSUME NEW c \in Streams, stream[c].pc \in {"loop", "ended"}
        PROVE  Top(c)' = Top(c)
    <3>1. CASE stream[c].job = s
      <4>1. stream[c].pc = "loop" /\ ~job[s].done
        BY <2>1, <3>1, <1>6 DEF Ending, Phases, Phase
      <4>2. c \in job[s].subs
        BY <4>1, <3>1 DEF Subscribed
      <4>. QED BY <3>1, <4>2, <1>1, <1>2, <1>5, <1>6 DEF Top
    <3>2. CASE stream[c].job # s
      BY <2>1, <3>2, <1>1, <1>5, <1>6 DEF Top, Joined
    <3>. QED BY <3>1, <3>2
  <2>. QED BY <2>1
<1>11. Flowing'
  BY <1>1, <1>10 DEF Flowing
<1>. QED BY <1>7, <1>8, <1>9, <1>11

LEMMA SendDeltaSInv ==
  ASSUME IInv, SInv, NEW s \in Starters, NEW c \in Streams, SendDelta(s, c)
  PROVE  SInv'
<1>. USE DEF IInv, TypeOK, SInv
<1>1. UNCHANGED <<proc, job, waiter, stream>>
  BY DEF SendDelta
<1>2. /\ c \in copier[s].to /\ copier[s].pc = "send" /\ ~job[s].done
      /\ stream[c].job = s /\ stream[c].pc \notin {"new", "notFound", "subscribe"}
  BY DEF SendDelta, Phases, Phase, Owned, Unknown
<1>3. ~chan[c].closed
  BY <1>2 DEF Phases, Phase, ClosedLast
<1>4. Offer(c, job[s].size, FALSE)
  BY <1>3 DEF SendDelta
<1>5. job[s].size \in Lines /\ job[s].size - 1 \in Nat /\ job[s].size # End
  BY <1>2, AssJobsAssumption DEF JobTypes, Lines, End, Copied
<1>6. /\ \/ /\ chan'[c].queue = Append(chan[c].queue, job[s].size)
            /\ chan'[c].lost = chan[c].lost
         \/ /\ chan'[c].queue = chan[c].queue
            /\ chan'[c].lost = chan[c].lost \cup {job[s].size}
      /\ ~chan'[c].closed
      /\ \A d \in Streams \ {c} : chan'[d] = chan[d]
  BY <1>4, <1>5, OfferedLine
<1>7. /\ copier'[s].to = copier[s].to \ {c}
      /\ copier'[s].pc \in {"read", "send"}
      /\ \A q \in Starters \ {s} : copier'[q] = copier[q]
  BY DEF SendDelta, CopierTypes
<1>8. Copied'
  BY <1>1, <1>2, <1>7 DEF Copied
<1>9. Unknown' /\ Subscribed'
  BY <1>1, <1>2, <1>6, <1>7 DEF Unknown, Subscribed
<1>10. ~HasEnd(chan'[c].queue)
  <2>1. ~HasEnd(chan[c].queue) /\ chan[c].queue \in Seq(Lines \cup {End})
    BY <1>3 DEF Ending, ChanTypes
  <2>. QED BY <2>1, <1>5, <1>6, LinesAreNumbered, EndAppended
<1>11. stream[c].pc # "ended"
  BY <1>2 DEF Ending
<1>12. \A d \in Streams : stream[d].pc = "ended" => stream[d].job \in Starters \ {s}
  BY <1>2 DEF Ending, Joined
<1>13. Ending'
  BY <1>1, <1>6, <1>7, <1>10, <1>11, <1>12 DEF Ending
<1>14. \A d \in Streams \ {c} : stream[d].pc \in {"loop", "ended"} => Top(d)' = Top(d)
  BY <1>1, <1>7 DEF Top, Joined
<1>15. stream[c].pc = "loop" =>
         Complete(Lines, stream[c].got, chan'[c].queue, chan'[c].lost, stream[c].from, Top(c)')
  <2>1. SUFFICES ASSUME stream[c].pc = "loop"
                 PROVE  Complete(Lines, stream[c].got, chan'[c].queue, chan'[c].lost, stream[c].from, Top(c)')
    OBVIOUS
  <2>2. Top(c)' = job[s].size /\ Top(c) = job[s].size - 1
    BY <1>1, <1>2, <1>7 DEF Top
  <2>3. Complete(Lines, stream[c].got, chan[c].queue, chan[c].lost, stream[c].from, job[s].size - 1)
    BY <2>1, <2>2 DEF Flowing
  <2>4. /\ stream[c].got \in Seq(Lines) /\ chan[c].queue \in Seq(Lines \cup {End})
        /\ stream[c].from \in Int
    BY AssJobsAssumption DEF StreamTypes, StreamRecord, ChanTypes, Places
  <2>5. job[s].size - 1 + 1 = job[s].size
    BY <1>5, AssJobsAssumption DEF Lines
  <2>. DEFINE top == job[s].size - 1
  <2>. HIDE DEF IInv, TypeOK, SInv
  <2>6. top \in Nat /\ Complete(Lines, stream[c].got, chan[c].queue, chan[c].lost, stream[c].from, top)
    BY <1>5, <2>3
  <2>. HIDE DEF top
  <2>7. /\ Complete(Lines, stream[c].got, Append(chan[c].queue, top + 1), chan[c].lost, stream[c].from, top + 1)
        /\ Complete(Lines, stream[c].got, chan[c].queue, chan[c].lost \cup {top + 1}, stream[c].from, top + 1)
    BY <2>4, <2>6, LinesAreNumbered, Sending
  <2>8. top + 1 = job[s].size
    BY <2>5 DEF top
  <2>. QED BY <1>6, <2>2, <2>7, <2>8
<1>16. Flowing'
  BY <1>1, <1>6, <1>11, <1>14, <1>15 DEF Flowing
<1>. QED BY <1>8, <1>9, <1>13, <1>16

LEMMA FinishSInv ==
  ASSUME IInv, SInv, NEW s \in Starters, Finish(s)
  PROVE  SInv'
<1>. USE DEF IInv, TypeOK, SInv
<1>1. UNCHANGED <<proc, copier, stream, chan>>
  BY DEF Finish
<1>2. /\ waiter'[s].to = job[s].subs
      /\ \A q \in Starters \ {s} : waiter'[q] = waiter[q]
  BY DEF Finish, WaiterTypes
<1>3. /\ job'[s].done = TRUE /\ job'[s].subs = {}
      /\ job'[s].size = job[s].size /\ job'[s].replay = job[s].replay
      /\ \A q \in Starters \ {s} : job'[q] = job[q]
  BY DEF Finish, JobTypes
<1>4. Copied' /\ Unknown' /\ Ending'
  BY <1>1, <1>2, <1>3 DEF Copied, Unknown, Ending
<1>5. Subscribed'
  BY <1>1, <1>3 DEF Subscribed, Joined
<1>6. \A c \in Streams : Top(c)' = Top(c) \/ stream[c].pc \notin {"loop", "ended"}
  BY <1>1, <1>3 DEF Top, Joined
<1>7. Flowing'
  BY <1>1, <1>6 DEF Flowing
<1>. QED BY <1>4, <1>5, <1>7

LEMMA SendEndSInv ==
  ASSUME IInv, SInv, NEW s \in Starters, NEW c \in Streams, SendEnd(s, c)
  PROVE  SInv'
<1>. USE DEF IInv, TypeOK, SInv
<1>1. UNCHANGED <<proc, job, copier, stream>>
  BY DEF SendEnd
<1>2. c \in waiter[s].to /\ stream[c].job = s /\ stream[c].pc \notin {"new", "notFound", "subscribe"}
  BY DEF SendEnd, Owned, Unknown
<1>3. /\ \/ /\ chan'[c].queue = Append(chan[c].queue, End)
            /\ chan'[c].lost = chan[c].lost
         \/ /\ chan'[c].queue = chan[c].queue
            /\ chan'[c].lost = chan[c].lost \cup {End}
      /\ chan'[c].closed
      /\ \A d \in Streams \ {c} : chan'[d] = chan[d]
  BY OfferedLine DEF SendEnd
<1>4. \A q \in Starters : waiter'[q].to \subseteq waiter[q].to
  BY DEF SendEnd, WaiterTypes
<1>5. Copied' /\ Subscribed'
  BY <1>1 DEF Copied, Subscribed
<1>6. Unknown'
  BY <1>1, <1>2, <1>3, <1>4 DEF Unknown
<1>7. HasEnd(chan'[c].queue) \/ End \in chan'[c].lost
  <2>1. chan[c].queue \in Seq(Lines \cup {End})
    BY DEF ChanTypes
  <2>. QED BY <2>1, <1>3, LinesAreNumbered, EndAppended
<1>8. End \in chan[c].lost => End \in chan'[c].lost
  BY <1>3
<1>9. Ending'
  BY <1>1, <1>3, <1>7, <1>8 DEF Ending
<1>10. \A d \in Streams : Top(d)' = Top(d)
  BY <1>1 DEF Top
<1>11. stream[c].pc \in {"loop", "ended"} =>
         Complete(Lines, stream[c].got, chan'[c].queue, chan'[c].lost, stream[c].from, Top(c))
  <2>1. SUFFICES ASSUME stream[c].pc \in {"loop", "ended"}
                 PROVE  Complete(Lines, stream[c].got, chan'[c].queue, chan'[c].lost, stream[c].from, Top(c))
    OBVIOUS
  <2>2. Complete(Lines, stream[c].got, chan[c].queue, chan[c].lost, stream[c].from, Top(c))
    BY <2>1 DEF Flowing
  <2>3. /\ stream[c].got \in Seq(Lines) /\ chan[c].queue \in Seq(Lines \cup {End})
        /\ stream[c].from \in Int
    BY AssJobsAssumption DEF StreamTypes, StreamRecord, ChanTypes, Places
  <2>4. Top(c) \in Nat
    BY <1>2, AssJobsAssumption DEF Top, JobTypes, Copied, Phases, Phase
  <2>. HIDE DEF IInv, TypeOK, SInv
  <2>5. /\ Complete(Lines, stream[c].got, Append(chan[c].queue, End), chan[c].lost, stream[c].from, Top(c))
        /\ Complete(Lines, stream[c].got, chan[c].queue, chan[c].lost \cup {End}, stream[c].from, Top(c))
    BY <2>2, <2>3, <2>4, LinesAreNumbered, SendingEnd
  <2>. QED BY <1>3, <2>5
<1>12. Flowing'
  BY <1>1, <1>3, <1>10, <1>11 DEF Flowing
<1>. QED BY <1>5, <1>6, <1>9, <1>12

LEMMA StreamSInv ==
  ASSUME IInv, SInv, NEW c \in Streams, NEW i \in Ids, Stream(c, i)
  PROVE  SInv'
<1>. USE DEF IInv, TypeOK, SInv
<1>1. UNCHANGED <<proc, job, copier, waiter, chan>>
  BY DEF Stream, running
<1>2. /\ stream[c].pc = "new" /\ stream'[c].pc \in {"notFound", "subscribe"}
      /\ stream'[c].sawEnd = stream[c].sawEnd
      /\ \A d \in Streams \ {c} : stream'[d] = stream[d]
  BY DEF Stream, StreamTypes, StreamRecord
<1>3. Copied' /\ Unknown' /\ Subscribed'
  BY <1>1, <1>2 DEF Copied, Unknown, Subscribed
<1>4. Ending'
  BY <1>1, <1>2 DEF Ending
<1>5. \A d \in Streams \ {c} : Top(d)' = Top(d)
  BY <1>1, <1>2 DEF Top
<1>6. Flowing'
  BY <1>1, <1>2, <1>5 DEF Flowing
<1>. QED BY <1>3, <1>4, <1>6

LEMMA SubscribeSInv ==
  ASSUME IInv, SInv, NEW c \in Streams, Subscribe(c)
  PROVE  SInv'
<1>. DEFINE s == stream[c].job
            from == job[s].size - Len(job[s].replay) + 1
<1>. USE DEF IInv, TypeOK, SInv
<1>1. /\ stream[c].pc = "subscribe" /\ s \in Starters
      /\ UNCHANGED <<proc, copier, waiter, chan>>
  BY DEF Subscribe, Joined, running
<1>2. stream' = [stream EXCEPT ![c] =
                   [@ EXCEPT !.pc = IF job[s].done THEN "ended" ELSE "loop",
                             !.from = from, !.got = job[s].replay, !.sawEnd = job[s].done]]
  BY DEF Subscribe
<1>. HIDE DEF from
<1>3. /\ stream'[c].pc = IF job[s].done THEN "ended" ELSE "loop"
      /\ stream'[c].job = s /\ stream'[c].from = from /\ stream'[c].got = job[s].replay
      /\ stream'[c].sawEnd = job[s].done
      /\ \A d \in Streams \ {c} : stream'[d] = stream[d]
  BY <1>2 DEF StreamTypes, StreamRecord
<1>4. \A q \in Starters :
        /\ job'[q].size = job[q].size /\ job'[q].replay = job[q].replay /\ job'[q].done = job[q].done
        /\ job[q].subs \subseteq job'[q].subs /\ job'[q].subs \subseteq job[q].subs \cup {c}
  BY <1>1 DEF Subscribe, JobTypes
<1>5. ~job[s].done => c \in job'[s].subs
  BY <1>1 DEF Subscribe, JobTypes
<1>6. job[s].done => copier[s].pc = "ended"
  BY <1>1 DEF Phases, Phase
<1>7. /\ chan[c].queue = <<>> /\ chan[c].lost = {} /\ ~chan[c].closed
      /\ c \notin copier[s].to
  BY <1>1 DEF Unknown
<1>8. Complete(Lines, job[s].replay, <<>>, {}, from, job[s].size)
  <2>1. job[s].replay \in Seq(Lines) /\ job[s].size \in Nat /\ Len(job[s].replay) <= job[s].size
    BY <1>1, AssJobsAssumption DEF JobTypes, Phases, Phase
  <2>2. \A n \in 1 .. Len(job[s].replay) : job[s].replay[n] = job[s].size - Len(job[s].replay) + n
    BY <1>1 DEF Copied
  <2>. HIDE DEF IInv, TypeOK, SInv, s
  <2>. QED BY <2>1, <2>2, LinesAreNumbered, Joining DEF from
<1>. HIDE DEF s
<1>9. Copied' /\ Unknown' /\ Subscribed'
  BY <1>1, <1>3, <1>4, <1>5 DEF Copied, Unknown, Subscribed, Joined
<1>10. ~HasEnd(chan[c].queue)
  BY <1>7 DEF Ending
<1>11. Ending'
  BY <1>1, <1>3, <1>6, <1>7, <1>10 DEF Ending
<1>12. \A d \in Streams \ {c} : stream[d].pc \in {"loop", "ended"} => Top(d)' = Top(d)
  BY <1>1, <1>3, <1>4 DEF Top, Joined
<1>13. Top(c)' = job[s].size
  BY <1>1, <1>3, <1>4, <1>7 DEF Top
<1>14. Flowing'
  BY <1>1, <1>3, <1>7, <1>8, <1>12, <1>13 DEF Flowing
<1>. QED BY <1>9, <1>11, <1>14

LEMMA ReceiveSInv ==
  ASSUME IInv, SInv, NEW c \in Streams, Receive(c)
  PROVE  SInv'
<1>. DEFINE queue == chan[c].queue
            line == Head(queue)
            rest == Tail(queue)
            got == stream[c].got
<1>. USE DEF IInv, TypeOK, SInv
<1>1. /\ stream[c].pc = "loop" /\ queue # <<>> /\ queue \in Seq(Lines \cup {End}) /\ got \in Seq(Lines)
      /\ UNCHANGED <<proc, copier, waiter, job>>
  BY DEF Receive, running, ChanTypes, StreamTypes, StreamRecord
<1>2. stream[c].job \in Starters
  BY <1>1 DEF Joined
<1>3. /\ chan'[c].queue = rest /\ chan'[c].closed = chan[c].closed /\ chan'[c].lost = chan[c].lost
      /\ \A d \in Streams \ {c} : chan'[d] = chan[d]
  BY DEF Receive, ChanTypes
<1>4. \/ /\ line = End
         /\ stream'[c].pc = "ended" /\ stream'[c].sawEnd = TRUE /\ stream'[c].got = got
      \/ /\ line # End
         /\ stream'[c].pc = "loop" /\ stream'[c].sawEnd = stream[c].sawEnd
         /\ stream'[c].got = Append(got, line)
  <2>1. stream \in [Streams -> StreamRecord]
    BY DEF StreamTypes
  <2>2. CASE line = End
    <3>1. stream' = [stream EXCEPT ![c] = [@ EXCEPT !.pc = "ended", !.sawEnd = TRUE]]
      BY <2>2 DEF Receive
    <3>. QED BY <2>1, <2>2, <3>1 DEF StreamRecord
  <2>3. CASE line # End
    <3>1. stream' = [stream EXCEPT ![c].got = Append(got, line)]
      BY <2>3 DEF Receive
    <3>. HIDE DEF line
    <3>. QED BY <1>1, <2>1, <2>3, <3>1 DEF StreamRecord
  <2>. QED BY <2>2, <2>3
<1>5. /\ stream'[c].job = stream[c].job /\ stream'[c].from = stream[c].from
      /\ \A d \in Streams \ {c} : stream'[d] = stream[d]
  BY DEF Receive, StreamTypes, StreamRecord
<1>6. /\ HasEnd(queue) => line = End \/ HasEnd(rest)
      /\ HasEnd(rest) => HasEnd(queue)
      /\ line = End => HasEnd(queue)
  <2>1. line = queue[1] /\ 1 \in 1 .. Len(queue)
    <3>1. Len(queue) \in Nat /\ Len(queue) # 0
      BY <1>1, LenProperties, EmptySeq
    <3>. QED BY <1>1, <3>1
  <2>2. line = End => HasEnd(queue)
    BY <2>1, LinesAreNumbered DEF HasEnd
  <2>. HIDE DEF IInv, TypeOK, SInv
  <2>. QED BY <1>1, <2>2, LinesAreNumbered, EndTaken
<1>7. line = End => copier[stream[c].job].pc = "ended"
  BY <1>2, <1>6 DEF Ending, ClosedLast, Phases, Phase
<1>8. /\ line # End => Complete(Lines, Append(got, line), rest, chan[c].lost, stream[c].from, Top(c))
      /\ line = End => Complete(Lines, got, rest, chan[c].lost, stream[c].from, Top(c))
  <2>1. Complete(Lines, got, queue, chan[c].lost, stream[c].from, Top(c))
    BY <1>1 DEF Flowing
  <2>. HIDE DEF IInv, TypeOK, SInv
  <2>. QED BY <1>1, <2>1, LinesAreNumbered, Receiving
<1>. HIDE DEF queue, line, rest, got
<1>9. Copied' /\ Unknown' /\ Subscribed'
  BY <1>1, <1>2, <1>3, <1>4, <1>5 DEF Copied, Unknown, Subscribed
<1>10. Ending'
  BY <1>1, <1>2, <1>3, <1>4, <1>5, <1>6, <1>7 DEF Ending, queue
<1>11. \A d \in Streams : Top(d)' = Top(d)
  BY <1>1, <1>5 DEF Top
<1>12. Flowing'
  BY <1>1, <1>3, <1>4, <1>5, <1>8, <1>11 DEF Flowing
<1>. QED BY <1>9, <1>10, <1>12

LEMMA ClosedSInv ==
  ASSUME IInv, SInv, NEW c \in Streams, Closed(c)
  PROVE  SInv'
<1>. USE DEF IInv, TypeOK, SInv
<1>1. /\ stream[c].pc = "loop" /\ stream[c].job \in Starters /\ chan[c].queue = <<>> /\ chan[c].closed
      /\ UNCHANGED <<proc, copier, waiter, job, chan>>
  BY DEF Closed, Joined, running
<1>2. /\ stream'[c].pc = "ended"
      /\ stream'[c].sawEnd = stream[c].sawEnd /\ stream'[c].got = stream[c].got
      /\ stream'[c].job = stream[c].job /\ stream'[c].from = stream[c].from
      /\ \A d \in Streams \ {c} : stream'[d] = stream[d]
  BY DEF Closed, StreamTypes, StreamRecord
<1>3. ~HasEnd(chan[c].queue)
  BY <1>1, EmptySeq DEF HasEnd
<1>4. copier[stream[c].job].pc = "ended"
  BY <1>1 DEF ClosedLast, Phases, Phase
<1>5. Copied' /\ Unknown' /\ Subscribed'
  BY <1>1, <1>2 DEF Copied, Unknown, Subscribed
<1>6. Ending'
  BY <1>1, <1>2, <1>3, <1>4 DEF Ending
<1>7. \A d \in Streams : Top(d)' = Top(d)
  BY <1>1, <1>2 DEF Top
<1>8. Flowing'
  BY <1>1, <1>2, <1>7 DEF Flowing
<1>. QED BY <1>5, <1>6, <1>8

LEMMA LeaveSInv ==
  ASSUME IInv, SInv, NEW c \in Streams, Leave(c)
  PROVE  SInv'
<1>. USE DEF IInv, TypeOK, SInv
<1>1. /\ stream[c].pc = "loop" /\ stream[c].job \in Starters
      /\ UNCHANGED <<proc, copier, waiter, chan>>
  BY DEF Leave, Joined, running
<1>2. /\ stream'[c].pc = "left"
      /\ stream'[c].sawEnd = stream[c].sawEnd /\ stream'[c].job = stream[c].job
      /\ \A d \in Streams \ {c} : stream'[d] = stream[d]
  BY DEF Leave, StreamTypes, StreamRecord
<1>3. \A s \in Starters :
        /\ job'[s].size = job[s].size /\ job'[s].replay = job[s].replay /\ job'[s].done = job[s].done
        /\ job'[s].subs \subseteq job[s].subs /\ job[s].subs \subseteq job'[s].subs \cup {c}
  BY <1>1 DEF Leave, JobTypes
<1>4. Copied' /\ Unknown' /\ Ending'
  BY <1>1, <1>2, <1>3 DEF Copied, Unknown, Ending
<1>5. Subscribed'
  BY <1>1, <1>2, <1>3 DEF Subscribed, Joined
<1>6. \A d \in Streams \ {c} : stream[d].pc \in {"loop", "ended"} => Top(d)' = Top(d)
  BY <1>1, <1>2, <1>3 DEF Top, Joined
<1>7. Flowing'
  BY <1>1, <1>2, <1>6 DEF Flowing
<1>. QED BY <1>4, <1>5, <1>7

-----------------------------------------------------------------------------
\* Every step keeps the streams' invariant.
LEMMA NextSInv == IInv /\ SInv /\ [Next]_vars => SInv'
<1>. SUFFICES ASSUME IInv, SInv, [Next]_vars PROVE SInv'
  OBVIOUS
<1>1. CASE UNCHANGED vars
  <2>1. UNCHANGED <<job, stream, chan, copier, waiter, proc>>
    BY <1>1 DEF vars, running
  <2>2. Copied'
    BY <2>1 DEF SInv, Copied
  <2>. QED BY <2>1, <2>2, QuietStep
<1>2. ASSUME NEW s \in Starters,
             (\E i \in Ids : Start(s, i)) \/ StartNext(s) \/ WriteLine(s) \/ Exit(s) \/ LetGo(s)
               \/ CopyNext(s) \/ WaitNext(s)
      PROVE  SInv'
  BY <1>2, StartingSInv, ProcessSInv, AppendDeltaSInv, SendDeltaSInv, CopyEndsSInv, WaitReturnsSInv,
     FinishSInv, SendEndSInv DEF StartNext, CopyNext, WaitNext
<1>3. ASSUME NEW c \in Streams, (\E i \in Ids : Stream(c, i)) \/ StreamNext(c) \/ Leave(c)
      PROVE  SInv'
  BY <1>3, StreamSInv, SubscribeSInv, ReceiveSInv, ClosedSInv, LeaveSInv DEF StreamNext
<1>. QED BY <1>1, <1>2, <1>3 DEF Next

\* The streams' inductive invariant: where each line of a job is.
THEOREM StreamInvariance == Spec => [](IInv /\ SInv)
<1>1. Init => IInv /\ SInv
  BY InitIInv, InitSInv
<1>2. IInv /\ SInv /\ [Next]_vars => (IInv /\ SInv)'
  BY NextIInv, NextSInv
<1>. QED BY <1>1, <1>2, PTL DEF Spec

\* A stream that ends is told so after all the output, or its channel was full
\* when it was to be told, whatever else the job's goroutines were doing.
THEOREM EndComesLast == Spec => []EndIsLast
<1>1. IInv /\ SInv => EndIsLast
  BY DEF IInv, SInv, Ending, Copied, Joined, EndIsLast
<1>. QED BY <1>1, StreamInvariance, PTL

\* A stream has the kept output and all that followed, in order and without
\* repetitions, in what it was given, in its channel, or counted as lost because
\* the channel was full; however its subscription met the copier.
THEOREM NoGaps == Spec => []NothingMissed
<1>1. ASSUME IInv, SInv PROVE NothingMissed
  <2>. SUFFICES ASSUME NEW c \in Streams, stream[c].pc \in {"loop", "ended"}
                PROVE  /\ ToSet(stream[c].got) \cup InTransit(c) \cup (chan[c].lost \ {End})
                            = stream[c].from .. job[stream[c].job].size
                       /\ \A i, j \in DOMAIN stream[c].got : i < j => stream[c].got[i] < stream[c].got[j]
    BY DEF NothingMissed
  <2>. DEFINE s == stream[c].job
              got == stream[c].got
              queue == chan[c].queue
              lost == chan[c].lost
              from == stream[c].from
              size == job[s].size
  <2>1. Complete(Lines, got, queue, lost, from, Top(c))
    BY <1>1 DEF SInv, Flowing
  <2>2. /\ s \in Starters /\ got \in Seq(Lines) /\ queue \in Seq(Lines \cup {End})
        /\ lost \subseteq Lines \cup {End} /\ from \in Places /\ size \in 0 .. MaxLines
    BY <1>1 DEF IInv, TypeOK, Joined, StreamTypes, StreamRecord, ChanTypes, JobTypes
  <2>3. c \in copier[s].to => size # 0
    BY <1>1, <2>2 DEF IInv, SInv, Phases, Phase, Copied
  <2>4. Top(c) = IF c \in copier[s].to THEN size - 1 ELSE size
    BY DEF Top
  <2>. HIDE DEF s, got, queue, lost, from, size
  <2>5. DOMAIN got = 1 .. Len(got) /\ DOMAIN queue = 1 .. Len(queue)
    BY <2>2, LenProperties
  <2>6. /\ ToSet(got) = {got[m] : m \in 1 .. Len(got)}
        /\ ToSet(queue) = {queue[n] : n \in 1 .. Len(queue)}
    BY <2>5 DEF ToSet
  <2>7. ToSet(got) \subseteq Lines /\ ToSet(queue) \subseteq Lines \cup {End} /\ End \notin Lines
    <3>1. /\ \A m \in 1 .. Len(got) : got[m] \in Lines
          /\ \A n \in 1 .. Len(queue) : queue[n] \in Lines \cup {End}
      BY <2>2, ElementOfSeq
    <3>2. End \notin Lines
      BY DEF Lines, End
    <3>. QED BY <2>6, <3>1, <3>2
  <2>8. InTransit(c) = (IF c \in copier[s].to THEN {size} ELSE {}) \cup (ToSet(queue) \ {End})
    BY DEF InTransit, s, size, queue
  <2>. DEFINE all == ToSet(got) \cup InTransit(c) \cup (lost \ {End})
  <2>9. from .. size \subseteq Lines /\ all \subseteq Lines
    <3>1. from .. size \subseteq Lines
      BY <2>2, AssJobsAssumption DEF Lines, Places
    <3>2. c \in copier[s].to => size \in Lines
      BY <2>2, <2>3, AssJobsAssumption DEF Lines
    <3>. QED BY <2>2, <2>7, <2>8, <3>1, <3>2
  <2>10. \A x \in Lines : x \in all <=> x \in from .. size
    <3>1. ASSUME NEW x \in Lines PROVE x \in all <=> x \in from .. size
      <4>1. x \in all <=> \/ \E m \in 1 .. Len(got) : got[m] = x
                          \/ \E n \in 1 .. Len(queue) : queue[n] = x
                          \/ x \in lost
                          \/ c \in copier[s].to /\ x = size
        BY <2>6, <2>7, <2>8
      <4>2. x \in all <=> (from <= x /\ x <= Top(c)) \/ (c \in copier[s].to /\ x = size)
        BY <2>1, <4>1 DEF Complete
      <4>3. from <= Top(c) + 1
        BY <2>1 DEF Complete
      <4>4. x \in Int /\ from \in Int /\ size \in Int
        BY <2>2, AssJobsAssumption DEF Lines, Places
      <4>. QED BY <2>4, <4>2, <4>3, <4>4
    <3>. QED BY <3>1
  <2>11. all = from .. size
    BY <2>9, <2>10
  <2>12. \A i, j \in DOMAIN got : i < j => got[i] < got[j]
    BY <2>1, <2>5 DEF Complete
  <2>. QED BY <2>11, <2>12 DEF got, lost, from, size, s
<1>. QED BY <1>1, StreamInvariance, PTL

-----------------------------------------------------------------------------
(* The console's prompts *)

ClientRecord ==
  [pc : {"new", "waitOld", "start", "starting", "elsewhere", "stream", "read", "waitDone", "done"},
   attempt : {1, 2}, read : Nat, out : Seq(Lines), result : {"none", "ok", "error"}]

\* What the stream of a client's current attempt has got, the client has handed on
\* up to where it reads; a stream that it reads has not been left.
Reading(k) ==
  LET got == stream[call(k)].got
  IN  /\ client[k].read = Len(client[k].out) /\ client[k].read <= Len(got)
      /\ \A n \in 1 .. client[k].read : client[k].out[n] = got[n]
      /\ stream[call(k)].pc \in {"notFound", "subscribe", "loop", "ended"}
      /\ stream[call(k)].pc \in {"notFound", "subscribe"} => client[k].out = <<>>

\* A client hands something on only while it reads, and then returns.
HandedOn ==
  \A k \in Clients :
    /\ client[k].pc \notin {"read", "done"} => client[k].out = <<>>
    /\ client[k].pc = "read" => Reading(k)
    /\ \A m, n \in 1 .. Len(client[k].out) : m < n => client[k].out[m] < client[k].out[n]

CInv == client \in [Clients -> ClientRecord] /\ HandedOn

LEMMA CallIsStream ==
  ASSUME client \in [Clients -> ClientRecord], NEW k \in Clients
  PROVE  call(k) \in Streams
BY AgentStreamAssumption DEF call, ClientRecord

LEMMA InitCInv == ClientInit => CInv
<1>1. <<>> \in Seq(Lines) /\ Len(<<>>) = 0
  BY EmptySeq
<1>. QED BY <1>1 DEF ClientInit, CInv, ClientRecord, HandedOn, Reading

\* Every step is one of the agent's jobs, or leaves them as they are.
LEMMA PromptIsNext ==
  ASSUME CInv, [PromptNext]_<<vars, cvars>>
  PROVE  [Next]_vars
<1>1. ASSUME NEW k \in Clients, ClientNext(k, JobId[k])
      PROVE  [Next]_vars
  <2>1. k \in Starters /\ JobId[k] \in Ids
    BY AgentStreamAssumption
  <2>2. CASE StartJob(k, JobId[k])
    BY <2>1, <2>2 DEF StartJob, Next
  <2>3. CASE Request(k, JobId[k])
    BY <2>1, <2>3, CallIsStream DEF CInv, Request, Next
  <2>4. CASE UNCHANGED vars
    BY <2>4
  <2>. QED BY <1>1, <2>2, <2>3, <2>4 DEF ClientNext, Check, WaitOld, StartUnavailable, Started, NotFound,
       DialFails, PipeFails, Read, ReadEnd, Break, WaitDone
<1>2. AgentNext => Next
  BY DEF AgentNext, Next
<1>. QED BY <1>1, <1>2 DEF PromptNext, vars

\* A step of one client leaves the others where they are.
LEMMA OthersKept ==
  ASSUME StreamTypes, CInv, NEW k \in Clients, client'[k] \in ClientRecord,
         client' = [client EXCEPT ![k] = client'[k]],
         UNCHANGED stream \/ Request(k, JobId[k]),
         client'[k].pc \notin {"read", "done"} => client'[k].out = <<>>,
         client'[k].pc = "read" => Reading(k)',
         \A m, n \in 1 .. Len(client'[k].out) : m < n => client'[k].out[m] < client'[k].out[n]
  PROVE  CInv'
<1>1. client' \in [Clients -> ClientRecord]
  BY DEF CInv
<1>2. \A j \in Clients \ {k} : client'[j] = client[j] /\ call(j)' = call(j) /\ call(j) # call(k)
  BY DEF CInv, call
<1>3. \A j \in Clients \ {k} : stream'[call(j)] = stream[call(j)]
  <2>1. CASE Request(k, JobId[k])
    <3>1. \A c \in Streams \ {call(k)} : stream'[c] = stream[c]
      BY <2>1 DEF Request, Stream, StreamTypes
    <3>. QED BY <1>2, <3>1, CallIsStream DEF CInv
  <2>. QED BY <2>1
<1>4. \A j \in Clients \ {k} : Reading(j) => Reading(j)'
  BY <1>2, <1>3 DEF Reading
<1>5. \A j \in Clients : j = k \/ j \in Clients \ {k}
  OBVIOUS
<1>. QED BY <1>1, <1>2, <1>4, <1>5 DEF CInv, HandedOn

\* A stream gets more, and is not left while its client reads it.
LEMMA Growing ==
  ASSUME IInv, AgentNext, NEW c \in Streams
  PROVE  \/ stream'[c] = stream[c]
         \/ /\ stream[c].pc = "subscribe"
            /\ stream'[c].pc \in {"loop", "ended"}
         \/ /\ stream[c].pc = "loop" /\ stream'[c].pc \in {"loop", "ended", "left"}
            /\ stream'[c].pc = "left" => Gone(c)
            /\ stream[c].got \in Seq(Lines) /\ stream'[c].got \in Seq(Lines)
            /\ \/ stream'[c].got = stream[c].got
               \/ \E line \in Lines : stream'[c].got = Append(stream[c].got, line)
<1>. USE DEF IInv, TypeOK, StreamTypes, StreamRecord
<1>1. CASE UNCHANGED stream
  BY <1>1
<1>2. ASSUME NEW d \in Streams, Subscribe(d)
      PROVE  \/ stream'[c] = stream[c]
             \/ stream[c].pc = "subscribe" /\ stream'[c].pc \in {"loop", "ended"}
  BY <1>2 DEF Subscribe
<1>3. ASSUME NEW d \in Streams, Closed(d)
      PROVE  \/ stream'[c] = stream[c]
             \/ stream[c].pc = "loop" /\ stream'[c].pc = "ended" /\ stream'[c].got = stream[c].got
  BY <1>3 DEF Closed
<1>4. ASSUME NEW d \in Streams, Leave(d)
      PROVE  \/ stream'[c] = stream[c]
             \/ c = d /\ stream[c].pc = "loop" /\ stream'[c].pc = "left" /\ stream'[c].got = stream[c].got
  BY <1>4 DEF Leave
<1>5. ASSUME NEW d \in Streams, Receive(d)
      PROVE  \/ stream'[c] = stream[c]
             \/ /\ stream[c].pc = "loop" /\ stream'[c].pc \in {"loop", "ended"}
                /\ \/ stream'[c].got = stream[c].got
                   \/ \E line \in Lines : stream'[c].got = Append(stream[c].got, line)
  <2>. DEFINE queue == chan[d].queue
              line == Head(queue)
  <2>1. /\ stream[d].pc = "loop" /\ queue # <<>> /\ queue \in Seq(Lines \cup {End})
        /\ stream[d].got \in Seq(Lines)
    BY <1>5 DEF Receive, ChanTypes
  <2>2. line \in Lines \cup {End}
    BY <2>1, HeadTailProperties
  <2>3. CASE line = End
    <3>1. stream' = [stream EXCEPT ![d] = [@ EXCEPT !.pc = "ended", !.sawEnd = TRUE]]
      BY <1>5, <2>3 DEF Receive
    <3>. QED BY <2>1, <3>1
  <2>4. CASE line # End
    <3>1. stream' = [stream EXCEPT ![d].got = Append(stream[d].got, line)]
      BY <1>5, <2>4 DEF Receive
    <3>. HIDE DEF line
    <3>2. c # d => stream'[c] = stream[c]
      BY <3>1
    <3>3. c = d => stream'[c].pc = "loop" /\ stream'[c].got = Append(stream[c].got, line)
      BY <2>1, <3>1
    <3>. QED BY <2>1, <2>2, <2>4, <3>2, <3>3
  <2>. QED BY <2>3, <2>4
<1>6. AgentNext =>
        \/ UNCHANGED stream
        \/ \E d \in Streams : Subscribe(d) \/ Receive(d) \/ Closed(d) \/ (Gone(d) /\ Leave(d))
  BY DEF AgentNext, Start, StartNext, Publish, Exec, ExecFails, WriteLine, Exit, LetGo, CopyNext, AppendDelta,
     CopyEnds, SendDelta, WaitNext, WaitReturns, Finish, SendEnd, StreamNext
<1>7. stream[c].got \in Seq(Lines)
  OBVIOUS
<1>8. \A line \in Lines : Append(stream[c].got, line) \in Seq(Lines)
  BY <1>7, AppendProperties
<1>. HIDE DEF IInv, TypeOK, StreamTypes, StreamRecord
<1>. QED BY <1>1, <1>2, <1>3, <1>4, <1>5, <1>6, <1>7, <1>8

\* The agent does not disturb what has been handed on.
LEMMA AgentKeeps ==
  ASSUME IInv, IInv', CInv, AgentNext
  PROVE  CInv'
<1>1. client' = client /\ \A k \in Clients : call(k)' = call(k)
  BY DEF AgentNext, cvars, call
<1>2. ASSUME NEW k \in Clients, client[k].pc = "read", Reading(k)
      PROVE  Reading(k)'
  <2>. DEFINE c == call(k)
              got == stream[c].got
              out == client[k].out
  <2>1. c \in Streams
    BY CallIsStream DEF CInv
  <2>2. ~Gone(c)
    BY <1>2 DEF Gone, call
  <2>3. out \in Seq(Lines) /\ Len(out) \in Nat /\ (out = <<>> => Len(out) = 0)
    BY LenProperties, EmptySeq DEF CInv, ClientRecord
  <2>4. CASE stream'[c] = stream[c]
    BY <1>1, <1>2, <2>4 DEF Reading
  <2>5. CASE stream[c].pc = "subscribe" /\ stream'[c].pc \in {"loop", "ended"}
    <3>1. out = <<>> /\ client[k].read = 0
      BY <1>2, <2>3, <2>5 DEF Reading
    <3>2. Len(stream'[c].got) \in Nat
      <4>1. stream'[c].got \in Seq(Lines)
        BY <2>1 DEF IInv, TypeOK, StreamTypes, StreamRecord
      <4>. QED BY <4>1, LenProperties
    <3>. QED BY <1>1, <1>2, <2>3, <2>5, <3>1, <3>2 DEF Reading
  <2>6. CASE /\ stream[c].pc = "loop" /\ stream'[c].pc \in {"loop", "ended"}
             /\ got \in Seq(Lines)
             /\ \/ stream'[c].got = got
                \/ \E line \in Lines : stream'[c].got = Append(got, line)
    <3>1. Len(got) \in Nat
      BY <2>6, LenProperties
    <3>2. Len(got) <= Len(stream'[c].got) /\ \A n \in 1 .. Len(got) : stream'[c].got[n] = got[n]
      BY <2>6, <3>1, AppendProperties
    <3>3. Len(stream'[c].got) \in Nat
      BY <2>6, <3>1, AppendProperties
    <3>4. \A n \in 1 .. client[k].read : client[k].out[n] = stream'[c].got[n]
      BY <1>2, <2>3, <3>1, <3>2 DEF Reading
    <3>5. client[k].read = Len(client[k].out) /\ client[k].read <= Len(stream'[c].got)
      BY <1>2, <2>3, <3>1, <3>2, <3>3 DEF Reading
    <3>. QED BY <1>1, <2>6, <3>4, <3>5 DEF Reading
  <2>. QED BY <2>1, <2>2, <2>4, <2>5, <2>6, Growing
<1>. QED BY <1>1, <1>2 DEF CInv, HandedOn

\* A client that goes on, or returns, with what it has handed on.
LEMMA Moving ==
  ASSUME IInv, CInv, NEW k \in Clients, UNCHANGED stream,
         NEW pc \in {"waitOld", "start", "starting", "elsewhere", "stream", "waitDone", "done"},
         NEW attempt \in {1, 2}, NEW result \in {"none", "ok", "error"},
         client' = [client EXCEPT ![k] = [@ EXCEPT !.pc = pc, !.attempt = attempt, !.result = result]],
         pc = "done" \/ client[k].out = <<>>
  PROVE  CInv'
<1>1. /\ client'[k] \in ClientRecord /\ client'[k].pc = pc /\ client'[k].out = client[k].out
      /\ client' = [client EXCEPT ![k] = client'[k]]
  BY DEF CInv, ClientRecord
<1>2. \A m, n \in 1 .. Len(client[k].out) : m < n => client[k].out[m] < client[k].out[n]
  BY DEF CInv, HandedOn
<1>. QED BY <1>1, <1>2, OthersKept DEF IInv, TypeOK

\* Nothing is handed on before a stream is read.
LEMMA Empty ==
  ASSUME CInv, NEW k \in Clients,
         client[k].pc \notin {"read", "done"} \/ (client[k].pc = "read" /\ client[k].read = 0)
  PROVE  client[k].out = <<>>
<1>1. client[k].out \in Seq(Lines)
  BY DEF CInv, ClientRecord
<1>2. Len(client[k].out) = 0 => client[k].out = <<>>
  BY <1>1, EmptySeq
<1>. QED BY <1>2 DEF CInv, HandedOn, Reading

LEMMA MovingSteps ==
  ASSUME IInv, CInv, NEW k \in Clients, NEW i \in Ids,
         \/ Check(k, i) \/ WaitOld(k, i) \/ StartJob(k, i) \/ StartUnavailable(k) \/ Started(k)
         \/ NotFound(k, i) \/ DialFails(k) \/ PipeFails(k) \/ ReadEnd(k, i) \/ Break(k, i) \/ WaitDone(k, i)
  PROVE  CInv'
<1>. DEFINE Goes(pc, attempt, result) ==
              client' = [client EXCEPT ![k] = [@ EXCEPT !.pc = pc, !.attempt = attempt, !.result = result]]
<1>1. UNCHANGED stream
  BY DEF Check, WaitOld, StartJob, StartUnavailable, Started, NotFound, DialFails, PipeFails, ReadEnd, Break,
     WaitDone, vars, Start
<1>2. /\ client[k].attempt \in {1, 2} /\ client[k].result \in {"none", "ok", "error"}
      /\ client[k] \in ClientRecord
  BY DEF CInv, ClientRecord
<1>3. \A pc : At(k, pc) => Goes(pc, client[k].attempt, client[k].result)
  BY <1>2 DEF At, CInv, ClientRecord
<1>4. \A result : Return(k, result) => Goes("done", client[k].attempt, result)
  BY <1>2 DEF Return, CInv, ClientRecord
<1>5. Fails(k, i) => Goes("done", client[k].attempt, "ok") \/ Goes("done", client[k].attempt, "error")
  BY <1>4 DEF Fails
<1>6. ASSUME NEW pc \in {"waitOld", "start", "starting", "elsewhere", "stream", "waitDone", "done"},
             NEW attempt \in {1, 2}, NEW result \in {"none", "ok", "error"},
             Goes(pc, attempt, result), pc = "done" \/ client[k].out = <<>>
      PROVE  CInv'
  BY <1>1, <1>6, Moving
<1>7. WaitDone(k, i) => Goes("stream", 2, client[k].result) \/ Return(k, "error")
  BY <1>2 DEF WaitDone, CInv, ClientRecord
<1>. HIDE DEF Goes
<1>8. CASE NotFound(k, i) \/ ReadEnd(k, i) \/ Break(k, i)
  <2>1. Goes("done", client[k].attempt, "ok") \/ Goes("done", client[k].attempt, "error")
    BY <1>4, <1>5, <1>8 DEF NotFound, ReadEnd, Break
  <2>. QED BY <1>2, <1>6, <2>1
<1>9. CASE Check(k, i) \/ WaitOld(k, i) \/ StartJob(k, i) \/ StartUnavailable(k) \/ DialFails(k)
  <2>1. client[k].out = <<>>
    BY <1>9, Empty DEF Check, WaitOld, StartJob, StartUnavailable, DialFails
  <2>2. \E pc \in {"waitOld", "start", "starting", "elsewhere"} : Goes(pc, client[k].attempt, client[k].result)
    BY <1>3, <1>9 DEF Check, WaitOld, StartJob, StartUnavailable, DialFails
  <2>. QED BY <1>2, <1>6, <2>1, <2>2
<1>10. CASE Started(k)
  <2>1. client[k].out = <<>>
    BY <1>10, Empty DEF Started
  <2>2. Goes("stream", client[k].attempt, client[k].result) \/ Goes("done", client[k].attempt, "error")
    BY <1>3, <1>4, <1>10 DEF Started
  <2>. QED BY <1>2, <1>6, <2>1, <2>2
<1>11. CASE PipeFails(k)
  <2>1. client[k].out = <<>>
    BY <1>11, Empty DEF PipeFails
  <2>2. Goes("waitDone", client[k].attempt, client[k].result) \/ Goes("done", client[k].attempt, "ok")
    BY <1>3, <1>4, <1>11 DEF PipeFails
  <2>. QED BY <1>2, <1>6, <2>1, <2>2
<1>12. CASE WaitDone(k, i)
  <2>1. client[k].out = <<>>
    BY <1>12, Empty DEF WaitDone
  <2>2. Goes("stream", 2, client[k].result) \/ Goes("done", client[k].attempt, "error")
    BY <1>4, <1>7, <1>12
  <2>. QED BY <1>2, <1>6, <2>1, <2>2
<1>. QED BY <1>8, <1>9, <1>10, <1>11, <1>12

LEMMA RequestKeeps ==
  ASSUME IInv, IInv', CInv, NEW k \in Clients, Request(k, JobId[k])
  PROVE  CInv'
<1>. DEFINE c == call(k)
<1>1. client[k].pc = "stream" /\ client' = [client EXCEPT ![k] = [@ EXCEPT !.pc = "read", !.read = 0]]
  BY DEF Request
<1>2. client[k].out = <<>>
  BY <1>1, Empty
<1>3. /\ client'[k] \in ClientRecord /\ client'[k].pc = "read" /\ client'[k].read = 0
      /\ client'[k].out = <<>> /\ client'[k].attempt = client[k].attempt
      /\ client' = [client EXCEPT ![k] = client'[k]]
  BY <1>1, <1>2 DEF CInv, ClientRecord
<1>4. c \in Streams /\ call(k)' = c
  BY <1>3, CallIsStream DEF CInv, call
<1>5. stream'[c].pc \in {"notFound", "subscribe"} /\ Len(stream'[c].got) \in Nat
  <2>1. stream'[c].pc \in {"notFound", "subscribe"}
    BY <1>4 DEF Request, Stream, IInv, TypeOK, StreamTypes, StreamRecord
  <2>2. stream'[c].got \in Seq(Lines)
    BY <1>4 DEF IInv, TypeOK, StreamTypes, StreamRecord
  <2>. QED BY <2>1, <2>2, LenProperties
<1>6. Len(<<>>) = 0
  BY EmptySeq
<1>7. Reading(k)'
  BY <1>3, <1>4, <1>5, <1>6 DEF Reading
<1>. QED BY <1>3, <1>6, <1>7, OthersKept DEF IInv, TypeOK

\* The next line is larger than those handed on, as it is in what the stream has got.
LEMMA ReadKeeps ==
  ASSUME IInv, SInv, CInv, NEW k \in Clients, Read(k, JobId[k])
  PROVE  CInv'
<1>. DEFINE c == call(k)
            got == stream[c].got
            n == client[k].read
            out == client[k].out
            line == got[n + 1]
<1>1. /\ client[k].pc = "read" /\ stream[c].pc \in {"loop", "ended", "left"} /\ n < Len(got)
      /\ client' = [client EXCEPT ![k] = [@ EXCEPT !.read = n + 1, !.out = Append(out, line)]]
      /\ UNCHANGED stream
  BY DEF Read, vars
<1>2. /\ c \in Streams /\ got \in Seq(Lines) /\ out \in Seq(Lines) /\ n \in Nat
      /\ Len(got) \in Nat /\ Len(out) \in Nat
  <2>1. c \in Streams
    BY CallIsStream DEF CInv
  <2>. QED BY <2>1, LenProperties DEF IInv, TypeOK, StreamTypes, StreamRecord, CInv, ClientRecord
<1>3. n = Len(out) /\ (\A m \in 1 .. n : out[m] = got[m]) /\ stream[c].pc \in {"loop", "ended"}
  BY <1>1 DEF CInv, HandedOn, Reading
<1>4. \A m, l \in 1 .. Len(got) : m < l => got[m] < got[l]
  BY <1>2, <1>3 DEF SInv, Flowing, Complete
<1>5. line \in Lines
  BY <1>1, <1>2, ElementOfSeq
<1>6. /\ Append(out, line) \in Seq(Lines) /\ Len(Append(out, line)) = n + 1
      /\ \A m \in 1 .. n : Append(out, line)[m] = got[m]
      /\ Append(out, line)[n + 1] = got[n + 1]
  BY <1>2, <1>3, <1>5, AppendProperties
<1>7. /\ client'[k].pc = "read" /\ client'[k].read = n + 1 /\ client'[k].out = Append(out, line)
      /\ client'[k].attempt = client[k].attempt /\ client'[k] \in ClientRecord
      /\ client' = [client EXCEPT ![k] = client'[k]]
  <2>1. client \in [Clients -> ClientRecord]
    BY DEF CInv
  <2>. HIDE DEF line, out, n
  <2>2. n + 1 \in Nat
    BY <1>2
  <2>. QED BY <1>1, <1>6, <2>1, <2>2 DEF ClientRecord
<1>8. call(k)' = c
  BY <1>7 DEF call
<1>. DEFINE new == Append(out, line)
<1>. HIDE DEF line, out, n, got, c, new
<1>9. \A m \in 1 .. n + 1 : new[m] = got[m]
  BY <1>2, <1>6 DEF new
<1>10. Reading(k)'
  BY <1>1, <1>2, <1>3, <1>6, <1>7, <1>8, <1>9 DEF Reading, got, new
<1>11. \A m, l \in 1 .. n + 1 : m < l => new[m] < new[l]
  BY <1>1, <1>2, <1>4, <1>9
<1>. QED BY <1>1, <1>6, <1>7, <1>10, <1>11, OthersKept DEF IInv, TypeOK, new

LEMMA PromptKeeps ==
  ASSUME IInv, IInv', SInv, CInv, [PromptNext]_<<vars, cvars>>
  PROVE  CInv'
<1>1. CASE UNCHANGED <<vars, cvars>>
  BY <1>1 DEF vars, cvars, CInv, HandedOn, Reading, call
<1>2. ASSUME NEW k \in Clients, ClientNext(k, JobId[k])
      PROVE  CInv'
  <2>1. JobId[k] \in Ids
    BY AgentStreamAssumption
  <2>. QED BY <1>2, <2>1, MovingSteps, RequestKeeps, ReadKeeps DEF ClientNext
<1>. QED BY <1>1, <1>2, AgentKeeps DEF PromptNext

\* The prompts' inductive invariant, beside those of the jobs and the streams.
THEOREM PromptInvariance == PromptSpec => [](IInv /\ SInv /\ CInv)
<1>1. Init /\ ClientInit => IInv /\ SInv /\ CInv
  BY InitIInv, InitSInv, InitCInv
<1>2. IInv /\ SInv /\ CInv /\ [PromptNext]_<<vars, cvars>> => (IInv /\ SInv /\ CInv)'
  <2>. SUFFICES ASSUME IInv, SInv, CInv, [PromptNext]_<<vars, cvars>>
                PROVE  IInv' /\ SInv' /\ CInv'
    OBVIOUS
  <2>1. [Next]_vars
    BY PromptIsNext
  <2>2. IInv' /\ SInv'
    BY <2>1, NextIInv, NextSInv
  <2>. QED BY <2>2, PromptKeeps
<1>. QED BY <1>1, <1>2, PTL DEF PromptSpec

\* The caller of a prompt is handed the job's lines in order and none of them twice,
\* although a stream that is asked for again begins with the replay.
THEOREM HandedOnOnce == PromptSpec => []OutputOnce
<1>1. CInv => OutputOnce
  <2>1. ASSUME NEW out \in Seq(Lines)
        PROVE  DOMAIN out = 1 .. Len(out)
    BY <2>1, LenProperties
  <2>. QED BY <2>1 DEF CInv, HandedOn, OutputOnce, ClientRecord
<1>. QED BY <1>1, PromptInvariance, PTL

\* A prompt that is run again without the agent has handed on nothing of its job.
THEOREM CleanFallback == PromptSpec => []FallbackIsClean
<1>1. CInv => FallbackIsClean
  BY DEF CInv, HandedOn, FallbackIsClean
<1>. QED BY <1>1, PromptInvariance, PTL
=============================================================================
