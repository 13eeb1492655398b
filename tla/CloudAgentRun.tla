----------------------------- MODULE CloudAgentRun -----------------------------
(***************************************************************************)
(* A chat session whose questions a cloud agent answers                    *)
(* (internal/console/chat_cloud_agent_stream.go).  A question starts a     *)
(* run in memory, or joins the one the session has; the run collects the   *)
(* agent's output, stores the session after every piece and broadcasts it  *)
(* to the requests that watch; a page that comes back watches again, and   *)
(* after a restart of the console reads the agent's job, which has gone    *)
(* on.  Pages save the session meanwhile.  A run is named after the        *)
(* request whose question it answers.                                      *)
(***************************************************************************)
EXTENDS ConsoleBase, ChatSessions, FiniteSets

CONSTANTS
  Clients,   \* requests: questions, pages that come back, page saves
  MaxPieces, \* bound: pieces of output of one run
  SubCap,    \* capacity of a watcher's channel (32 in the code)
  Asks       \* what clients do: subset of {"chat", "resume", "save"}

ASSUME CloudAgentRunAssumption == None \notin Clients

VARIABLES
  record,    \* the stored session
  registry,  \* the session's run in memory, or None
  run,       \* [Clients -> run]
  client,    \* [Clients -> request]
  job        \* the agent's job: its run, its output, whether it has ended

rvars == <<record, registry, run, client, job, spent>>

\* pc of a run: created, running; then progress (a piece or an operation to store), put,
\* tell (to broadcast); final, finalput, mark, farewell, over.
\* done, failed, stuck: its flags under its mutex; stuck is a mutex that is never unlocked.
NoRun == [pc |-> "none", base |-> <<>>, content |-> 0, op |-> "none", event |-> None, ok |-> TRUE, named |-> TRUE,
          done |-> FALSE, failed |-> FALSE, stuck |-> FALSE, seen |-> NoSession]

\* chan is the request's channel at the run it watches, open while the run knows it;
\* got the pieces the page has been given; told how the request ended.
NoClient == [pc |-> "idle", run |-> None, chan |-> <<>>, open |-> FALSE, got |-> 0, told |-> None,
             seen |-> NoSession, page |-> NoSession]

Event(type, n) == [type |-> type, n |-> n]

RInit ==
  /\ record = NoSession
  /\ registry = None
  /\ run = [c \in Clients |-> NoRun]
  /\ client = [c \in Clients |-> NoClient]
  /\ job = [of |-> None, out |-> 0, state |-> "none"]
  /\ spent = {}

Waits(c) == client[c].pc = "idle"

\* The run that is active in the eyes of a save: it waits for the run's mutex.
ActiveRun == IF registry = None \/ run[registry].done THEN None ELSE registry

-----------------------------------------------------------------------------
\* Questions.

\* The history a page sends with its question: all that is stored, or what an older page shows.
Histories == {record.msgs, <<>>}

\* Mutant: look first, register later.
StartAlways(c, history) ==
  /\ registry' = c
  /\ run' = [run EXCEPT ![c] = [NoRun EXCEPT !.pc = "created", !.base = Append(history, Question(c))]]
  /\ client' = [client EXCEPT ![c] = [NoClient EXCEPT !.pc = "start", !.run = c]]

StartOrGet(c, history) ==
  IF registry = None
  THEN /\ registry' = c
       /\ run' = [run EXCEPT ![c] = [NoRun EXCEPT !.pc = "created", !.base = Append(history, Question(c))]]
       /\ client' = [client EXCEPT ![c] = [NoClient EXCEPT !.pc = "start", !.run = c]]
  ELSE /\ client' = [client EXCEPT ![c] = [NoClient EXCEPT !.pc = "subscribe", !.run = registry]]
       /\ UNCHANGED <<registry, run>>

Chat(c) ==
  /\ "chat" \in Asks /\ Waits(c)
  /\ \E history \in Histories : StartOrGet(c, history)
  /\ UNCHANGED <<record, job, spent>>

\* persistStreamingStart reads the session, then puts it.
PersistStartGet(c) ==
  /\ client[c].pc = "start"
  /\ client' = [client EXCEPT ![c] = [@ EXCEPT !.pc = "startput", !.seen = record]]
  /\ UNCHANGED <<record, registry, run, job, spent>>

PersistStartPut(c) ==
  /\ client[c].pc = "startput"
  /\ record' = Persisted(client[c].seen, run[c].base, "streaming", FALSE)
  /\ client' = [client EXCEPT ![c] = [@ EXCEPT !.pc = "subscribe", !.seen = NoSession]]
  /\ UNCHANGED <<registry, run, job, spent>>

\* The store fails: the run is taken out of the registry, with whoever has joined it.
PersistStartFails(c) ==
  /\ client[c].pc \in {"start", "startput"} /\ Fault("store")
  /\ registry' = IF registry = c THEN None ELSE registry
  /\ run' = [run EXCEPT ![c].pc = "over"]
  /\ client' = [client EXCEPT ![c] = [@ EXCEPT !.pc = "end", !.told = "replace", !.seen = NoSession]]
  /\ UNCHANGED <<record, job>>

\* The request subscribes and, if it created the run, starts it.  A run that is done has
\* its last event ready, an error only if the failure is already marked.
Subscribe(c) ==
  LET r == client[c].run IN
  /\ client[c].pc = "subscribe" /\ ~run[r].stuck
  /\ client' = [client EXCEPT ![c] = [@ EXCEPT !.pc = IF run[r].done THEN "last" ELSE "loop",
                              !.open = ~run[r].done,
                              !.got = run[r].content,
                              !.told = IF ~run[r].done THEN None ELSE IF run[r].failed THEN "error" ELSE "done"]]
  /\ run' = [run EXCEPT ![r].pc = IF r = c THEN "ready" ELSE @]
  /\ UNCHANGED <<record, registry, job, spent>>

-----------------------------------------------------------------------------
\* The run.

\* The agent is asked; its older job for the session has ended by then.
Execute(r) ==
  /\ run[r].pc = "ready" /\ job.state # "running"
  /\ run' = [run EXCEPT ![r].pc = "running"]
  /\ job' = [of |-> r, out |-> 0, state |-> "running"]
  /\ UNCHANGED <<record, registry, client, spent>>

AppendDelta(r) ==
  /\ run[r].pc = "running" /\ ~run[r].stuck /\ run[r].content < MaxPieces /\ job.state = "running"
  /\ job' = [job EXCEPT !.out = @ + 1]
  /\ run' = [run EXCEPT ![r] = [@ EXCEPT !.pc = "progress", !.content = run[r].content + 1, !.event = Event("delta", run[r].content + 1)]]
  /\ UNCHANGED <<record, registry, client, spent>>

\* The agent has used the browser: the operation is stored and broadcast, then a screenshot is taken.
AppendOperation(r) ==
  /\ run[r].pc = "running" /\ ~run[r].stuck /\ run[r].op = "none" /\ Fault("shot")
  /\ run' = [run EXCEPT ![r] = [@ EXCEPT !.pc = "progress", !.op = "merged", !.event = Event("operation", 0)]]
  /\ UNCHANGED <<record, registry, client, job>>

PersistProgressGet(r) ==
  /\ run[r].pc = "progress" /\ ~run[r].stuck
  /\ run' = [run EXCEPT ![r] = [@ EXCEPT !.pc = "put", !.seen = record]]
  /\ UNCHANGED <<record, registry, client, job, spent>>

PersistProgressPut(r) ==
  /\ run[r].pc = "put"
  /\ record' = Persisted(run[r].seen, AppendProgress(run[r].base, r, run[r].content, run[r].op # "none"), "streaming", FALSE)
  /\ run' = [run EXCEPT ![r] = [@ EXCEPT !.pc = "tell", !.seen = NoSession]]
  /\ UNCHANGED <<registry, client, job, spent>>

\* A write that fails is logged.
PersistFails(r) ==
  /\ run[r].pc \in {"progress", "put", "final", "finalput"} /\ ~run[r].stuck /\ Fault("store")
  /\ run' = [run EXCEPT ![r] = [@ EXCEPT !.seen = NoSession,
                                         !.pc = IF run[r].pc \in {"progress", "put"} THEN "tell"
                                                ELSE IF run[r].ok THEN "farewell" ELSE "mark"]]
  /\ UNCHANGED <<record, registry, client, job>>

Watchers(r) == {c \in Clients : client[c].run = r /\ client[c].open}

\* Mutant: a full channel misses the event.
SentOrDropped(r, event) ==
  [c \in Clients |->
     IF c \in Watchers(r) /\ Len(client[c].chan) < SubCap THEN [client[c] EXCEPT !.chan = Append(@, event)]
     ELSE client[c]]

\* Every watcher of the run gets the event; one whose channel is full is closed.
Sent(r, event) ==
  [c \in Clients |->
     IF c \notin Watchers(r) THEN client[c]
     ELSE IF Len(client[c].chan) < SubCap THEN [client[c] EXCEPT !.chan = Append(@, event)]
     ELSE [client[c] EXCEPT !.open = FALSE]]

Broadcast(r) ==
  /\ run[r].pc = "tell" /\ ~run[r].stuck
  /\ client' = Sent(r, run[r].event)
  /\ run' = [run EXCEPT ![r] = [@ EXCEPT !.pc = "running", !.event = None,
                        !.op = IF run[r].event.type = "operation" THEN "capture" ELSE run[r].op]]
  /\ UNCHANGED <<record, registry, job, spent>>

\* The screenshot is recorded with the mutex held, and broadcast waits for the same mutex.
CaptureScreenshot(r) ==
  /\ run[r].op = "capture" /\ ~run[r].stuck
  /\ run' = [run EXCEPT ![r] = [@ EXCEPT !.stuck = TRUE, !.op = "captured"]]
  /\ UNCHANGED <<record, registry, client, job, spent>>

CaptureFails(r) ==
  /\ run[r].op = "capture"
  /\ run' = [run EXCEPT ![r].op = "captured"]
  /\ UNCHANGED <<record, registry, client, job, spent>>

\* The execution returns; from here on the run is done, although nothing says so yet.
\* named: one that fails with no output got far enough to name the model, and shows a placeholder.
Complete(r) ==
  /\ run[r].pc = "running" /\ ~run[r].stuck
  /\ \/ /\ run[r].content > 0
        /\ run' = [run EXCEPT ![r] = [@ EXCEPT !.pc = "final", !.done = TRUE]]
        /\ job' = [job EXCEPT !.state = "done"]
        /\ UNCHANGED spent
     \/ /\ Fault("fail")
        /\ \E named \in {run[r].content > 0, TRUE} :
             run' = [run EXCEPT ![r] = [@ EXCEPT !.pc = "final", !.done = TRUE, !.ok = FALSE, !.named = named]]
        /\ job' = [job EXCEPT !.state = "failed"]
  /\ UNCHANGED <<record, registry, client>>

CompleteGet(r) ==
  /\ run[r].pc = "final" /\ ~run[r].stuck
  /\ run' = [run EXCEPT ![r] = [@ EXCEPT !.pc = "finalput", !.seen = record]]
  /\ UNCHANGED <<record, registry, client, job, spent>>

CompletePut(r) ==
  /\ run[r].pc = "finalput"
  /\ record' = Persisted(run[r].seen, AppendProgress(run[r].base, r, run[r].content, run[r].named \/ run[r].op # "none"),
                         IF run[r].ok THEN "completed" ELSE StatusForError(run[r].named), ~run[r].ok)
  /\ run' = [run EXCEPT ![r] = [@ EXCEPT !.pc = IF run[r].ok THEN "farewell" ELSE "mark", !.seen = NoSession]]
  /\ UNCHANGED <<registry, client, job, spent>>

MarkFailed(r) ==
  /\ run[r].pc = "mark" /\ ~run[r].stuck
  /\ run' = [run EXCEPT ![r] = [@ EXCEPT !.pc = "farewell", !.failed = TRUE]]
  /\ UNCHANGED <<record, registry, client, job, spent>>

BroadcastEnd(r) ==
  /\ run[r].pc = "farewell" /\ ~run[r].stuck
  /\ client' = Sent(r, Event(IF run[r].ok THEN "done" ELSE "error", 0))
  /\ run' = [run EXCEPT ![r].pc = "delete"]
  /\ UNCHANGED <<record, registry, job, spent>>

Delete(r) ==
  /\ run[r].pc = "delete"
  /\ registry' = IF registry = r THEN None ELSE registry
  /\ run' = [run EXCEPT ![r].pc = "over"]
  /\ UNCHANGED <<record, client, job, spent>>

RunNext(r) ==
  \/ Execute(r) \/ AppendDelta(r) \/ PersistProgressGet(r) \/ PersistProgressPut(r) \/ Broadcast(r)
  \/ Complete(r) \/ CompleteGet(r) \/ CompletePut(r) \/ MarkFailed(r) \/ BroadcastEnd(r) \/ Delete(r)

-----------------------------------------------------------------------------
\* Watching a run.

Ended(c, how) == [client[c] EXCEPT !.pc = "end", !.told = how, !.seen = NoSession, !.page = NoSession]

\* An event of the channel is written to the page; the last one ends the request.
Receive(c) ==
  LET event == Head(client[c].chan) IN
  /\ client[c].pc = "loop" /\ client[c].chan # <<>>
  /\ client' = [client EXCEPT ![c] = [@ EXCEPT !.chan = Tail(client[c].chan),
                                              !.got = IF event.type = "delta" THEN event.n ELSE client[c].got,
                                              !.pc = IF event.type \in {"done", "error"} THEN "leave" ELSE "loop",
                                              !.told = IF event.type \in {"done", "error"} THEN event.type ELSE None]]
  /\ UNCHANGED <<record, registry, run, job, spent>>

\* A closed channel ends the request without a last event.
ChannelClosed(c) ==
  /\ client[c].pc = "loop" /\ client[c].chan = <<>> /\ ~client[c].open
  /\ client' = [client EXCEPT ![c] = [@ EXCEPT !.pc = "leave", !.told = "cut"]]
  /\ UNCHANGED <<record, registry, run, job, spent>>

LastEvent(c) ==
  /\ client[c].pc = "last"
  /\ client' = [client EXCEPT ![c].pc = "leave"]
  /\ UNCHANGED <<record, registry, run, job, spent>>

\* The page is closed, or a write to it fails; the run goes on.
Disconnect(c) ==
  /\ client[c].pc \in {"loop", "replay"} /\ Fault("leave")
  /\ client' = [client EXCEPT ![c] = IF client[c].pc = "loop" THEN [@ EXCEPT !.pc = "leave", !.told = "left"] ELSE Ended(c, "left")]
  /\ UNCHANGED <<record, registry, run, job>>

Unsubscribe(c) ==
  /\ client[c].pc = "leave" /\ ~run[client[c].run].stuck
  /\ client' = [client EXCEPT ![c] = [Ended(c, client[c].told) EXCEPT !.open = FALSE, !.chan = <<>>]]
  /\ UNCHANGED <<record, registry, run, job, spent>>

-----------------------------------------------------------------------------
\* Pages that come back.

Resume(c) ==
  /\ "resume" \in Asks /\ Waits(c) /\ record # NoSession
  /\ client' = [client EXCEPT ![c] = [NoClient EXCEPT !.pc = IF registry = None THEN "stored" ELSE "subscribe", !.run = registry]]
  /\ UNCHANGED <<record, registry, run, job, spent>>

\* Without a run the stored session answers, or sends the request to the agent's job.
StoredResume(c) ==
  LET event == StoredResumeEvents(record) IN
  /\ client[c].pc = "stored"
  /\ client' = [client EXCEPT ![c] = IF event = "reconnect" THEN [@ EXCEPT !.pc = "job"] ELSE Ended(c, event)]
  /\ UNCHANGED <<record, registry, run, job, spent>>

\* A job that runs or has ended is read from its beginning, with the session as it is now.
FindJob(c) ==
  /\ client[c].pc = "job"
  /\ client' = [client EXCEPT ![c] = IF job.of = None \/ record = NoSession THEN [@ EXCEPT !.pc = "lost"]
                                    ELSE [@ EXCEPT !.pc = "replay", !.page = record, !.run = job.of]]
  /\ UNCHANGED <<record, registry, run, job, spent>>

\* A newer job of the session takes the place of the one that is read: the stream ends.
Replay(c) ==
  /\ client[c].pc = "replay" /\ job.of = client[c].run /\ client[c].got < job.out
  /\ client' = [client EXCEPT ![c].got = @ + 1]
  /\ UNCHANGED <<record, registry, run, job, spent>>

ReplayEnds(c) ==
  /\ client[c].pc = "replay"
  /\ \/ job.of # client[c].run
     \/ job.state # "running" /\ client[c].got = job.out
  /\ client' = [client EXCEPT ![c] = [@ EXCEPT !.pc = "resumeget",
                                              !.told = IF job.of = client[c].run /\ job.state = "done" THEN "done" ELSE "error"]]
  /\ UNCHANGED <<record, registry, run, job, spent>>

ResumeGet(c) ==
  /\ client[c].pc = "resumeget"
  /\ client' = [client EXCEPT ![c] = [@ EXCEPT !.pc = "resumeput", !.seen = record]]
  /\ UNCHANGED <<record, registry, run, job, spent>>

\* The whole answer is appended to the messages that were stored when the job was found.
ResumePut(c) ==
  LET ok == client[c].told = "done" IN
  /\ client[c].pc = "resumeput"
  /\ record' = Persisted(client[c].seen, AppendProgress(client[c].page.msgs, client[c].run, client[c].got, ok),
                         IF ok THEN "completed" ELSE StatusForError(client[c].got > 0), ~ok)
  /\ client' = [client EXCEPT ![c] = Ended(c, client[c].told)]
  /\ UNCHANGED <<registry, run, job, spent>>

\* There is no job to read: the session is marked interrupted, if it is still there.
LostGet(c) ==
  /\ client[c].pc = "lost"
  /\ client' = [client EXCEPT ![c] = IF record = NoSession THEN Ended(c, "error") ELSE [@ EXCEPT !.pc = "lostput", !.seen = record]]
  /\ UNCHANGED <<record, registry, run, job, spent>>

LostPut(c) ==
  /\ client[c].pc = "lostput"
  /\ record' = Persisted(client[c].seen, client[c].seen.msgs, "interrupted", TRUE)
  /\ client' = [client EXCEPT ![c] = Ended(c, "error")]
  /\ UNCHANGED <<registry, run, job, spent>>

WatchNext(c) ==
  \/ PersistStartGet(c) \/ PersistStartPut(c) \/ Subscribe(c) \/ Receive(c) \/ ChannelClosed(c) \/ LastEvent(c)
  \/ Unsubscribe(c) \/ StoredResume(c) \/ FindJob(c) \/ Replay(c) \/ ReplayEnds(c) \/ ResumeGet(c) \/ ResumePut(c)
  \/ LostGet(c) \/ LostPut(c)

-----------------------------------------------------------------------------
\* Page saves, deletion, the agent on its own, a restart.

\* A page sends what it shows: all that is stored or an older state, perhaps under a new name.
Pages ==
  [status : {"ready", "streaming"}, msgs : {record.msgs, <<>>}, title : {"named"}, custom : {FALSE}, error : {FALSE}]
    \cup [status : {"none"}, msgs : {<<>>}, title : {"named"}, custom : {TRUE}, error : {FALSE}]

SaveGet(c) ==
  /\ "save" \in Asks /\ Waits(c)
  /\ \E page \in Pages : client' = [client EXCEPT ![c] = [NoClient EXCEPT !.pc = "save", !.seen = record, !.page = page]]
  /\ UNCHANGED <<record, registry, run, job, spent>>

\* Up to 20 seconds later, if a model is asked for a title; looking for an active run waits for its mutex,
\* and does so twice, between which a run may end or begin.
SavePut(c) ==
  /\ client[c].pc = "save" /\ (registry # None => ~run[registry].stuck)
  /\ \E generated, still \in BOOLEAN : record' = Saved(client[c].seen, client[c].page, generated, ActiveRun # None, still)
  /\ client' = [client EXCEPT ![c] = Ended(c, "saved")]
  /\ UNCHANGED <<registry, run, job, spent>>

DeleteSession ==
  /\ Fault("delete") /\ record' = NoSession
  /\ UNCHANGED <<registry, run, client, job>>

\* The job of a run that a restart has ended goes on at the agent.
JobAlone == job.state = "running" /\ run[job.of].pc = "none"

JobOutput ==
  /\ JobAlone /\ job.out < MaxPieces
  /\ job' = [job EXCEPT !.out = @ + 1]
  /\ UNCHANGED <<record, registry, run, client, spent>>

JobEnds ==
  /\ JobAlone
  /\ \/ job' = [job EXCEPT !.state = "done"] /\ UNCHANGED spent
     \/ job' = [job EXCEPT !.state = "failed"] /\ Fault("fail")
  /\ UNCHANGED <<record, registry, run, client>>

ConsoleRestart ==
  /\ Fault("restart")
  /\ registry' = None
  /\ run' = [c \in Clients |-> NoRun]
  /\ client' = [c \in Clients |-> IF Waits(c) THEN NoClient ELSE [NoClient EXCEPT !.pc = "end", !.told = "restart"]]
  /\ UNCHANGED <<record, job>>

RNext ==
  \/ \E c \in Clients :
       \/ Chat(c) \/ Resume(c) \/ SaveGet(c) \/ SavePut(c) \/ WatchNext(c) \/ PersistStartFails(c) \/ Disconnect(c)
       \/ RunNext(c) \/ AppendOperation(c) \/ CaptureScreenshot(c) \/ CaptureFails(c) \/ PersistFails(c)
  \/ DeleteSession \/ JobOutput \/ JobEnds \/ ConsoleRestart

RSpec == RInit /\ [][RNext]_rvars

\* Runs and requests go on, and what an agent executes ends.
Fairness ==
  /\ WF_rvars(JobEnds)
  /\ \A c \in Clients : WF_rvars(RunNext(c)) /\ WF_rvars(WatchNext(c))

FairSpec == RSpec /\ Fairness

-----------------------------------------------------------------------------
\* A page that has been given all pieces up to n may be given piece m.
GoesOn(m, n) == m \in {n, n + 1}

\* A request that watches a run is given every piece of the answer in order: what it was
\* synchronised with, then each next piece, at most the one that was being broadcast when it
\* subscribed twice.
ReplyHasNoGaps ==
  \A c \in Clients : client[c].pc = "loop" =>
    LET chan == client[c].chan
        Delta(i) == chan[i].type = "delta"
    IN  \A i \in DOMAIN chan : Delta(i) =>
          \/ GoesOn(chan[i].n, client[c].got) /\ \A j \in 1 .. i - 1 : ~Delta(j)
          \/ \E j \in 1 .. i - 1 :
               Delta(j) /\ GoesOn(chan[i].n, chan[j].n) /\ \A k \in j + 1 .. i - 1 : ~Delta(k)

\* However questions, restarts and failing stores interleave, one run of a session executes.
OneRunExecutes ==
  \A q, r \in Clients :
    {run[q].pc, run[r].pc} \cap {"none", "created", "over"} = {} => q = r

\* A request that watches a run is let go in the end, unless the run never started or its mutex is
\* held for good.
WatchersAreLetGo ==
  \A c \in Clients :
    client[c].pc = "loop" ~>
      \/ client[c].pc # "loop"
      \/ run[client[c].run].stuck
      \/ run[client[c].run].pc = "over" /\ ~run[client[c].run].done

\* A run that executes gets to its end.
RunsEnd == \A r \in Clients : run[r].pc = "running" ~> run[r].pc \in {"none", "over"}
===============================================================================
