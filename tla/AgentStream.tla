----------------------------- MODULE AgentStream -----------------------------
(***************************************************************************)
(* The console's side of an agent's job (workers/cloud_agent_ass_jobs.go   *)
(* and runCloudAgentCodexASSJob): it waits for an older job of the same id, *)
(* starts its own, streams the output, and asks again when the request for  *)
(* the stream fails on a closed pipe.  When the agent cannot be reached the *)
(* prompt is run in the container in another way.                          *)
(*                                                                         *)
(* A client is named after the request with which it starts its job, and   *)
(* its streams are <<client, attempt>>.                                    *)
(***************************************************************************)
EXTENDS AssJobs

CONSTANTS
  Clients,   \* the starters that are prompts of the console
  JobId,     \* the job id of each prompt's chat session
  ScanLimit  \* the longest replay that fits a line of the client's scanner

ASSUME AgentStreamAssumption ==
  /\ Clients \subseteq Starters
  /\ JobId \in [Clients -> Ids]
  /\ Streams = Clients \X {1, 2}

VARIABLES
  client,  \* each: [pc, attempt, read, out, result]
  failing  \* the jobs whose process exits with an error

cvars == <<client, failing>>

ClientInit ==
  /\ client = [k \in Clients |-> [pc |-> "new", attempt |-> 1, read |-> 0, out |-> <<>>, result |-> "none"]]
  /\ failing \in SUBSET Starters

call(k) == <<k, client[k].attempt>>
At(k, pc) == client' = [client EXCEPT ![k].pc = pc] /\ UNCHANGED failing
Return(k, result) ==
  /\ client' = [client EXCEPT ![k] = [@ EXCEPT !.pc = "done", !.result = result]]
  /\ UNCHANGED failing

\* The job that a query for the id is answered with is done, without an error.
DoneWell(i) == jobs[i] # None /\ job[jobs[i]].done /\ jobs[i] \notin failing

\* What is left of a stream that failed: if there was any output and the job has
\* ended well meanwhile, what there is counts as the whole.
Fails(k, i) ==
  \/ client[k].out # <<>> /\ DoneWell(i) /\ Return(k, "ok")
  \/ Return(k, "error")

-----------------------------------------------------------------------------
(* Starting *)

\* runCloudAgentCodexASSJob: an active job of this id is waited for; if it
\* cannot be asked about, it is not.
Check(k, i) ==
  /\ client[k].pc = "new"
  /\ \/ Live(i) /\ At(k, "waitOld")
     \/ At(k, "start")
  /\ UNCHANGED vars

WaitOld(k, i) ==
  /\ client[k].pc = "waitOld"
  /\ At(k, "start")
  /\ UNCHANGED vars

\* StartCloudAgentASSJob: the request reaches the agent.
StartJob(k, i) ==
  /\ client[k].pc = "start"
  /\ At(k, "starting")
  /\ Start(k, i)

\* The agent is old, or cannot be reached, or its answer is lost, the job started
\* or not: the prompt is run without the agent.
StartUnavailable(k) ==
  /\ client[k].pc \in {"start", "starting"}
  /\ At(k, "elsewhere")
  /\ UNCHANGED vars

\* A job that was there already is joined as if it were one's own.
Started(k) ==
  /\ client[k].pc = "starting"
  /\ \/ start[k].pc \in {"created", "existing"} /\ At(k, "stream")
     \/ start[k].pc = "failed" /\ Return(k, "error")
  /\ UNCHANGED vars

-----------------------------------------------------------------------------
(* StreamCloudAgentASSJobLive *)

Request(k, i) ==
  /\ client[k].pc = "stream"
  /\ client' = [client EXCEPT ![k] = [@ EXCEPT !.pc = "read", !.read = 0]]
  /\ UNCHANGED failing
  /\ Stream(call(k), i)

NotFound(k, i) ==
  /\ client[k].pc = "read" /\ stream[call(k)].pc = "notFound"
  /\ Fails(k, i)
  /\ UNCHANGED vars

\* There is no connection: the prompt, whose job has been started, is run
\* without the agent.
DialFails(k) ==
  /\ client[k].pc = "stream"
  /\ At(k, "elsewhere")
  /\ UNCHANGED vars

\* The request fails on a closed pipe before its answer has begun.  The first
\* time the job is waited for; after that it has ended, well or not.
PipeFails(k) ==
  /\ client[k].pc \in {"stream", "read"} /\ client[k].read = 0
  /\ IF client[k].attempt = 1 THEN At(k, "waitDone") ELSE Return(k, "ok")
  /\ UNCHANGED vars

\* The event with the replay is read, then lines one by one.
Read(k, i) ==
  LET c == call(k)
      n == client[k].read
  IN  /\ client[k].pc = "read" /\ stream[c].pc \in {"loop", "ended", "left"}
      /\ n < Len(stream[c].got)
      /\ client' = [client EXCEPT ![k] = [@ EXCEPT !.read = n + 1, !.out = Append(client[k].out, stream[c].got[n + 1])]]
      /\ UNCHANGED <<vars, failing>>

\* Mutant: a stream that breaks on a closed pipe is asked for again.
BreakResumes(k, i) ==
  /\ client[k].pc = "read"
  /\ IF client[k].attempt = 1 THEN At(k, "waitDone") ELSE Return(k, "ok")
  /\ UNCHANGED vars

\* Mutant: a stream that breaks is taken for an agent that is not there.
BreakFallsBack(k, i) ==
  /\ client[k].pc = "read"
  /\ At(k, "elsewhere")
  /\ UNCHANGED vars

\* The connection breaks while it is read, or the replay does not fit a line:
\* whatever the reason, it is not asked for again.
Break(k, i) ==
  /\ client[k].pc = "read"
  /\ Fails(k, i)
  /\ UNCHANGED vars

\* The done or the error event, or the end of the answer, which is taken for done.
ReadEnd(k, i) ==
  LET c == call(k)
  IN  /\ client[k].pc = "read" /\ stream[c].pc = "ended" /\ client[k].read = Len(stream[c].got)
      /\ IF stream[c].sawEnd /\ stream[c].job \in failing THEN Fails(k, i) ELSE Return(k, "ok")
      /\ UNCHANGED vars

TooLong(k) == client[k].read = 0 /\ Len(stream[call(k)].got) > ScanLimit

-----------------------------------------------------------------------------
(* StreamCloudAgentASSJobWithRecovery *)

\* The job is done, or cannot be asked about.
WaitDone(k, i) ==
  /\ client[k].pc = "waitDone"
  /\ \/ /\ DoneWell(i)
        /\ client' = [client EXCEPT ![k] = [@ EXCEPT !.pc = "stream", !.attempt = 2]]
        /\ UNCHANGED failing
     \/ Return(k, "error")
  /\ UNCHANGED vars

ClientNext(k, i) ==
  \/ Check(k, i) \/ WaitOld(k, i) \/ StartJob(k, i) \/ StartUnavailable(k) \/ Started(k)
  \/ Request(k, i) \/ NotFound(k, i) \/ DialFails(k) \/ PipeFails(k)
  \/ ~TooLong(k) /\ (Read(k, i) \/ ReadEnd(k, i))
  \/ Break(k, i) \/ WaitDone(k, i)

\* The agent's stream ends early only when its client has gone.
Gone(c) == client[c[1]].pc # "read" \/ client[c[1]].attempt # c[2]

\* The agent, and other requests that start a job.
AgentNext ==
  /\ UNCHANGED cvars
  /\ \/ \E s \in Starters \ Clients, i \in Ids : Start(s, i)
     \/ \E s \in Starters : StartNext(s) \/ WriteLine(s) \/ Exit(s) \/ LetGo(s) \/ CopyNext(s) \/ WaitNext(s)
     \/ \E c \in Streams : StreamNext(c) \/ (Gone(c) /\ Leave(c))

PromptNext == AgentNext \/ \E k \in Clients : ClientNext(k, JobId[k])

PromptSpec == Init /\ ClientInit /\ [][PromptNext]_<<vars, cvars>>

-----------------------------------------------------------------------------
(* Properties *)

\* The output given to the caller is the job's lines in order, none of them
\* twice, although a stream that is asked for again begins with the replay.
OutputOnce ==
  \A k \in Clients : \A m, n \in DOMAIN client[k].out : m < n => client[k].out[m] < client[k].out[n]

\* A prompt is run again without the agent only as long as the caller has seen
\* nothing of its job.
FallbackIsClean ==
  \A k \in Clients : client[k].pc = "elsewhere" => client[k].out = <<>>

=============================================================================
