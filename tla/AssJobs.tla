------------------------------- MODULE AssJobs -------------------------------
(***************************************************************************)
(* The job registry of the agent that runs inside a container (jobs.go): a *)
(* client starts a process under a job id; any number of clients stream    *)
(* its output, and may come and go while it runs or after it has ended.    *)
(*                                                                         *)
(* A job is run by two goroutines: copyOutput reads the process's output   *)
(* line by line, and waitAndClose waits for the process to exit.  Both     *)
(* copy the set of subscribers under the job's lock and send to their      *)
(* channels without it.  A job object is named after the request that      *)
(* created it, and a line of output is its number.                         *)
(***************************************************************************)
EXTENDS Integers, Sequences, FiniteSets, SequencesExt

CONSTANTS
  Ids,         \* job ids
  Starters,    \* requests that start a job, and the jobs they create
  Streams,     \* requests that stream a job's output
  MaxLines,    \* bound on the lines a process writes
  ChanCap,     \* capacity of a subscriber's channel (128)
  ReplayLimit, \* how much output a job keeps (4 MiB)
  Faults,      \* what may go wrong in this instance
  None         \* no job

ASSUME AssJobsAssumption ==
  /\ MaxLines \in Nat
  /\ ChanCap \in Nat \ {0} /\ ReplayLimit \in Nat \ {0}
  /\ Faults \subseteq {"startError", "leave"}
  /\ None \notin Starters

VARIABLES
  jobs,     \* the registry: the job of each id
  start,    \* each starting request: [pc, id]
  proc,     \* each job's process: [state, lines]; "held" has exited, its output is not closed
  job,      \* each job object: [size, replay, done, subs]
  copier,   \* each job's copyOutput: [pc, to]
  waiter,   \* each job's waitAndClose: [pc, to]
  stream,   \* each stream: [pc, job, from, got, sawEnd]
  chan,     \* each stream's channel: [queue, closed, lost]; lost is history
  panicked  \* a closed channel was sent to

starting == <<jobs, start>>
running == <<proc, copier, waiter>>
vars == <<jobs, start, proc, job, copier, waiter, stream, chan, panicked>>

End == 0 \* the done or error event, among line numbers

Init ==
  /\ jobs = [i \in Ids |-> None]
  /\ start = [s \in Starters |-> [pc |-> "new", id |-> None]]
  /\ proc = [s \in Starters |-> [state |-> "none", lines |-> 0]]
  /\ job = [s \in Starters |-> [size |-> 0, replay |-> <<>>, done |-> FALSE, subs |-> {}]]
  /\ copier = [s \in Starters |-> [pc |-> "none", to |-> {}]]
  /\ waiter = [s \in Starters |-> [pc |-> "none", to |-> {}]]
  /\ stream = [c \in Streams |-> [pc |-> "new", job |-> None, from |-> 1, got |-> <<>>, sawEnd |-> FALSE]]
  /\ chan = [c \in Streams |-> [queue |-> <<>>, closed |-> FALSE, lost |-> {}]]
  /\ panicked = FALSE

-----------------------------------------------------------------------------
(* start *)

\* A job of this id that is not done.
Live(i) == jobs[i] # None /\ ~job[jobs[i]].done

\* The first look: a job that is running is joined.
Start(s, i) ==
  /\ start[s].pc = "new"
  /\ start' = [start EXCEPT ![s] = [pc |-> IF Live(i) THEN "existing" ELSE "publish", id |-> i]]
  /\ UNCHANGED <<jobs, running, job, stream, chan, panicked>>

\* Mutant: the registry is not looked at again.
PublishBlindly(s) ==
  /\ start[s].pc = "publish"
  /\ start' = [start EXCEPT ![s].pc = "exec"]
  /\ jobs' = [jobs EXCEPT ![start[s].id] = s]
  /\ UNCHANGED <<running, job, stream, chan, panicked>>

\* The log file was opened without the lock; the registry is looked at again.
Publish(s) ==
  /\ start[s].pc = "publish"
  /\ IF Live(start[s].id)
     THEN start' = [start EXCEPT ![s].pc = "existing"] /\ UNCHANGED jobs
     ELSE start' = [start EXCEPT ![s].pc = "exec"] /\ jobs' = [jobs EXCEPT ![start[s].id] = s]
  /\ UNCHANGED <<running, job, stream, chan, panicked>>

\* The process is started, and the two goroutines.
Exec(s) ==
  /\ start[s].pc = "exec"
  /\ start' = [start EXCEPT ![s].pc = "created"]
  /\ proc' = [proc EXCEPT ![s].state = "running"]
  /\ copier' = [copier EXCEPT ![s].pc = "read"]
  /\ waiter' = [waiter EXCEPT ![s].pc = "wait"]
  /\ UNCHANGED <<jobs, job, stream, chan, panicked>>

\* The command does not start: the job is withdrawn, and is never done.
ExecFails(s) ==
  /\ "startError" \in Faults
  /\ start[s].pc = "exec"
  /\ start' = [start EXCEPT ![s].pc = "failed"]
  /\ jobs' = [jobs EXCEPT ![start[s].id] = None]
  /\ UNCHANGED <<running, job, stream, chan, panicked>>

-----------------------------------------------------------------------------
(* The process *)

\* The process itself, or one it has left behind that holds its output.
WriteLine(s) ==
  /\ proc[s].state \in {"running", "held"} /\ proc[s].lines < MaxLines
  /\ proc' = [proc EXCEPT ![s].lines = @ + 1]
  /\ UNCHANGED <<starting, job, copier, waiter, stream, chan, panicked>>

\* It exits, and with it the output is closed, or is still held by a descendant.
Exit(s) ==
  /\ proc[s].state = "running"
  /\ \E state \in {"held", "exited"} : proc' = [proc EXCEPT ![s].state = state]
  /\ UNCHANGED <<starting, job, copier, waiter, stream, chan, panicked>>

\* The last descendant that holds the output closes it.
LetGo(s) ==
  /\ proc[s].state = "held"
  /\ proc' = [proc EXCEPT ![s].state = "exited"]
  /\ UNCHANGED <<starting, job, copier, waiter, stream, chan, panicked>>

-----------------------------------------------------------------------------
(* copyOutput and waitAndClose *)

\* Mutant: what does not fit is cut off at the end, not at the beginning.
KeepHead(lines) == SubSeq(lines, 1, IF Len(lines) > ReplayLimit THEN ReplayLimit ELSE Len(lines))

\* The last ReplayLimit lines.
Keep(lines) ==
  SubSeq(lines, IF Len(lines) > ReplayLimit THEN Len(lines) - ReplayLimit + 1 ELSE 1, Len(lines))

\* appendDelta: the next line is kept, and the subscribers it goes to are fixed.
AppendDelta(s) ==
  /\ copier[s].pc = "read" /\ job[s].size < proc[s].lines
  /\ job' = [job EXCEPT ![s] =
       [@ EXCEPT !.size = job[s].size + 1,
                 !.replay = Keep(Append(job[s].replay, job[s].size + 1))]]
  /\ copier' = [copier EXCEPT ![s] =
       [pc |-> IF job[s].subs = {} THEN "read" ELSE "send", to |-> job[s].subs]]
  /\ UNCHANGED <<starting, proc, waiter, stream, chan, panicked>>

\* A send that never waits: what does not fit in the channel is lost.
Offer(c, line, close) ==
  LET room  == Len(chan[c].queue) < ChanCap
      queue == IF room THEN Append(chan[c].queue, line) ELSE chan[c].queue
      lost  == IF room THEN chan[c].lost ELSE chan[c].lost \cup {line}
  IN  chan' = [chan EXCEPT ![c] = [@ EXCEPT !.queue = queue, !.lost = lost, !.closed = close]]

SendDelta(s, c) ==
  /\ c \in copier[s].to
  /\ IF chan[c].closed
     THEN panicked' = TRUE /\ UNCHANGED chan
     ELSE Offer(c, job[s].size, FALSE) /\ UNCHANGED panicked
  /\ copier' = [copier EXCEPT ![s] =
       [pc |-> IF @.to = {c} THEN "read" ELSE "send", to |-> @.to \ {c}]]
  /\ UNCHANGED <<starting, proc, job, waiter, stream>>

\* The pipe is at its end: everything the process wrote has been copied.
CopyEnds(s) ==
  /\ copier[s].pc = "read"
  /\ job[s].size = proc[s].lines
  /\ waiter[s].pc \notin {"none", "wait"}
  /\ copier' = [copier EXCEPT ![s].pc = "ended"]
  /\ UNCHANGED <<starting, proc, job, waiter, stream, chan, panicked>>

\* cmd.Wait returns once the process has exited and, the output being no file but the
\* writer of a pipe of this program and no WaitDelay being set, all who hold the output
\* have closed it; then the pipe is closed.
WaitReturns(s) ==
  /\ waiter[s].pc = "wait" /\ proc[s].state = "exited"
  /\ waiter' = [waiter EXCEPT ![s].pc = "drain"]
  /\ UNCHANGED <<starting, proc, job, copier, stream, chan, panicked>>

\* Mutant: the copier is not waited for.
FinishAtOnce(s) ==
  /\ waiter[s].pc = "drain"
  /\ job' = [job EXCEPT ![s] = [@ EXCEPT !.done = TRUE, !.subs = {}]]
  /\ waiter' = [waiter EXCEPT ![s] =
       [pc |-> IF job[s].subs = {} THEN "ended" ELSE "send", to |-> job[s].subs]]
  /\ UNCHANGED <<starting, proc, copier, stream, chan, panicked>>

\* Mutant: the subscribers are forgotten before they are copied.
FinishKeepsSubscribers(s) ==
  /\ waiter[s].pc = "drain" /\ copier[s].pc = "ended"
  /\ job' = [job EXCEPT ![s] = [@ EXCEPT !.done = TRUE, !.subs = {}]]
  /\ waiter' = [waiter EXCEPT ![s] = [pc |-> "ended", to |-> {}]]
  /\ UNCHANGED <<starting, proc, copier, stream, chan, panicked>>

\* finish, once the copier has ended: the job is done and has no subscribers.
Finish(s) ==
  /\ waiter[s].pc = "drain" /\ copier[s].pc = "ended"
  /\ job' = [job EXCEPT ![s] = [@ EXCEPT !.done = TRUE, !.subs = {}]]
  /\ waiter' = [waiter EXCEPT ![s] =
       [pc |-> IF job[s].subs = {} THEN "ended" ELSE "send", to |-> job[s].subs]]
  /\ UNCHANGED <<starting, proc, copier, stream, chan, panicked>>

\* Each subscriber is sent the end, if it has room for it, and closed.
SendEnd(s, c) ==
  /\ c \in waiter[s].to
  /\ Offer(c, End, TRUE)
  /\ waiter' = [waiter EXCEPT ![s] =
       [pc |-> IF @.to = {c} THEN "ended" ELSE "send", to |-> @.to \ {c}]]
  /\ UNCHANGED <<starting, proc, job, copier, stream, panicked>>

-----------------------------------------------------------------------------
(* handleJobStream *)

Stream(c, i) ==
  /\ stream[c].pc = "new"
  /\ stream' = [stream EXCEPT ![c] =
       [@ EXCEPT !.pc = IF jobs[i] = None THEN "notFound" ELSE "subscribe",
                 !.job = jobs[i]]]
  /\ UNCHANGED <<starting, running, job, chan, panicked>>

\* The output so far and the place among the subscribers are taken in one step.
Subscribe(c) ==
  LET s == stream[c].job
  IN  /\ stream[c].pc = "subscribe"
      /\ stream' = [stream EXCEPT ![c] =
            [@ EXCEPT !.pc = IF job[s].done THEN "ended" ELSE "loop",
                      !.from = job[s].size - Len(job[s].replay) + 1,
                      !.got = job[s].replay,
                      !.sawEnd = job[s].done]]
      /\ job' = IF job[s].done THEN job ELSE [job EXCEPT ![s].subs = @ \cup {c}]
      /\ UNCHANGED <<starting, running, chan, panicked>>

Receive(c) ==
  LET line == Head(chan[c].queue)
  IN  /\ stream[c].pc = "loop" /\ chan[c].queue # <<>>
      /\ chan' = [chan EXCEPT ![c].queue = Tail(@)]
      /\ IF line = End
         THEN stream' = [stream EXCEPT ![c] = [@ EXCEPT !.pc = "ended", !.sawEnd = TRUE]]
         ELSE stream' = [stream EXCEPT ![c].got = Append(@, line)]
      /\ UNCHANGED <<starting, running, job, panicked>>

\* A closed channel that is empty ends the stream without a word.
Closed(c) ==
  /\ stream[c].pc = "loop" /\ chan[c].queue = <<>> /\ chan[c].closed
  /\ stream' = [stream EXCEPT ![c].pc = "ended"]
  /\ UNCHANGED <<starting, running, job, chan, panicked>>

\* The client goes away: unsubscribe.
Leave(c) ==
  /\ "leave" \in Faults
  /\ stream[c].pc = "loop"
  /\ stream' = [stream EXCEPT ![c].pc = "left"]
  /\ job' = [job EXCEPT ![stream[c].job].subs = @ \ {c}]
  /\ UNCHANGED <<starting, running, chan, panicked>>

StartNext(s) == Publish(s) \/ Exec(s) \/ ExecFails(s)
CopyNext(s) == AppendDelta(s) \/ CopyEnds(s) \/ \E c \in Streams : SendDelta(s, c)
WaitNext(s) == WaitReturns(s) \/ Finish(s) \/ \E c \in Streams : SendEnd(s, c)
StreamNext(c) == Subscribe(c) \/ Receive(c) \/ Closed(c)

Next ==
  \/ \E s \in Starters :
       \/ \E i \in Ids : Start(s, i)
       \/ StartNext(s) \/ WriteLine(s) \/ Exit(s) \/ LetGo(s) \/ CopyNext(s) \/ WaitNext(s)
  \/ \E c \in Streams : (\E i \in Ids : Stream(c, i)) \/ StreamNext(c) \/ Leave(c)

Spec == Init /\ [][Next]_vars

\* The goroutines of jobs and streams run; processes need not end, nor let go of the output.
FairSpec ==
  /\ Spec
  /\ \A s \in Starters : WF_vars(CopyNext(s)) /\ WF_vars(WaitNext(s))
  /\ \A c \in Streams : WF_vars(StreamNext(c))

-----------------------------------------------------------------------------
(* Properties *)

Lines == 1 .. MaxLines
Places == 1 .. MaxLines + 1

StartTypes ==
  /\ jobs \in [Ids -> Starters \cup {None}]
  /\ start \in [Starters -> [pc : {"new", "publish", "exec", "created", "existing", "failed"},
                             id : Ids \cup {None}]]

ProcTypes == proc \in [Starters -> [state : {"none", "running", "held", "exited"}, lines : 0 .. MaxLines]]

JobTypes ==
  /\ job \in [Starters -> [size : 0 .. MaxLines, replay : Seq(Lines), done : BOOLEAN,
                           subs : SUBSET Streams]]
  /\ \A s \in Starters : Len(job[s].replay) <= ReplayLimit

CopierTypes == copier \in [Starters -> [pc : {"none", "read", "send", "ended"}, to : SUBSET Streams]]

WaiterTypes ==
  waiter \in [Starters -> [pc : {"none", "wait", "drain", "send", "ended"}, to : SUBSET Streams]]

StreamRecord ==
  [pc : {"new", "notFound", "subscribe", "loop", "ended", "left"},
   job : Starters \cup {None}, from : Places, got : Seq(Lines), sawEnd : BOOLEAN]

StreamTypes == stream \in [Streams -> StreamRecord]

ChanTypes ==
  /\ chan \in [Streams -> [queue : Seq(Lines \cup {End}), closed : BOOLEAN,
                           lost : SUBSET (Lines \cup {End})]]
  /\ \A c \in Streams : Len(chan[c].queue) <= ChanCap

\* The types, and the limits of the replay and of the channels.
TypeOK ==
  /\ StartTypes /\ ProcTypes /\ JobTypes /\ CopierTypes /\ WaiterTypes /\ StreamTypes /\ ChanTypes
  /\ panicked \in BOOLEAN

\* No goroutine sends to a channel that another has closed, which would bring
\* the agent down.
NoSendOnClosed == ~panicked

\* There is one process per job id at a time, what it has left behind included, and it
\* can be found.
LiveJobIsFound ==
  \A s \in Starters : proc[s].state \in {"running", "held"} => jobs[start[s].id] = s

\* The lines a stream has been given or is about to be given.
InTransit(c) ==
  LET s == stream[c].job
  IN  (IF c \in copier[s].to THEN {job[s].size} ELSE {}) \cup (ToSet(chan[c].queue) \ {End})

\* A stream gets the kept output and what follows it, in order, without gaps or
\* repetitions, but for lines that came while its channel was full.
NothingMissed ==
  \A c \in Streams : stream[c].pc \in {"loop", "ended"} =>
    /\ ToSet(stream[c].got) \cup InTransit(c) \cup (chan[c].lost \ {End})
         = stream[c].from .. job[stream[c].job].size
    /\ \A i, j \in DOMAIN stream[c].got : i < j => stream[c].got[i] < stream[c].got[j]

\* A stream that ends is told so, after all the output, that of descendants included,
\* unless its channel was full at that moment.
EndIsLast ==
  \A c \in Streams : stream[c].pc = "ended" =>
    /\ stream[c].sawEnd \/ End \in chan[c].lost
    /\ job[stream[c].job].size = proc[stream[c].job].lines
    /\ proc[stream[c].job].state = "exited"

\* The streams of a job end, each by itself or because its client leaves, once the job's
\* process has exited and its output is closed; while a descendant holds it, they wait.
StreamsEnd ==
  \A c \in Streams, s \in Starters :
    stream[c].pc = "loop" /\ stream[c].job = s /\ proc[s].state = "exited"
      ~> stream[c].pc \in {"ended", "left"}
=============================================================================
