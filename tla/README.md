# AIYolo in TLA+

This directory specifies the stateful parts of AIYolo (the Go program under
`src/`): the quota transactions of the gateway's PostgreSQL store, the gateway's
request handler with its translation between APIs, the agent that runs inside
cloud containers (jobs, shells, files, commands), and the console that
administers all of it and talks to agents and providers. TLC checks the modules
on small instances; TLAPS proves the properties that matter most for every value
of the constants.

1. [The system](#1-the-system)
2. [Modules](#2-modules)
3. [Runs](#3-runs)
4. [Properties](#4-properties)
5. [Proofs](#5-proofs)
6. [Where the code and its documents disagree](#6-where-the-code-and-its-documents-disagree)
7. [Other observations](#7-other-observations)
8. [What is not modelled](#8-what-is-not-modelled)
9. [What could come next](#9-what-could-come-next)

## 1. The system

AIYolo is a gateway for model APIs, a console (administration, chat and a small
IDE), and agents in containers on worker machines.

    client --> gateway handler --> upstream providers
                  |     |
                  |     +--> response cache (memory)
                  v
              PostgreSQL: api keys, routes, providers | quota_reservations,
                  ^                                   | rate_limit_windows, usage_ledger
                  |
    browser --> console --ssh--> worker --> container: aiyolo-ass (jobs, shells, files)

### Components, their state, and what is hard about them

**Quota store** (`storage/postgres.go`, `quota.go`). Three tables,
`quota_reservations`, `rate_limit_windows` and `usage_ledger`, and one advisory
lock per API key. `ReserveQuota` and `SettleQuota` are transactions of several
statements under the lock; `InsertUsage` is a statement without one. Hard:
transactions interleave, any statement may fail, a commit's answer may be lost,
the process may die, request ids repeat, minutes, days and months end under way.

**Gateway request handler** (`gateway/handlers.go`). One goroutine per request;
the shared response cache; the catalogue, which administrators edit. Hard:
failover with early exits from the middle of the loop, clients that leave at any
step, answers that break after their headers, a catalogue read one alias at a
time, usage that a stream reports in parts.

**Responses compatibility** (`gateway/responses_compat.go`). Translates between
the responses and the chat-completions APIs, whole or as streams. Hard: what a
client sends need not fit what a provider accepts; calls, words and reasoning
arrive in pieces and interleaved.

**Agent** (`ass/`). *Jobs*: a registry, subscribers with bounded channels, a
bounded replay, two goroutines a job. *Shells*: the same with sessions that are
closed by three parties. *Files*: an optimistic revision check, atomic
replacement, rename, copy, delete, all without locks. *Commands*: a timeout, a
process group, bounded output.

**Cloud agents on workers** (`workers/cloud_agent*.go`). The console's side of
the agent: the script that makes a container, the stream of a job with its
recovery and its fallback, the calls of the workspace, terminals over SSH.

**Console** (`console/`). *Agent runs* by chat session with their watchers;
*chat sessions*, each a stored record that everyone reads, changes and puts back;
*terminals* by key; *environments*, the account and container of a user; *chats*
answered by a provider in several turns; *workers* with their probes and
initialisations; *API keys*; *providers, models and prices*. Hard: rows are read,
seconds or minutes of work follow, and the row is written back whole; runs are
joined while they end, and restarted consoles find agents that went on.

**Application, artifacts, proxies, front end** (`app/`, `artifacts/`, `proxy/`,
`console/static`). Configuration and start-up, a reader of an S3 bucket, dialers,
browser code: nearly no state.

`PROJECT.json` lists every component with its status, and every hazard at the
line where it bites, with the properties that are about it.

### How the parts interact

The handler calls the quota store three times per request, each a transaction of
its own, and survives the failure of any of them (`QuotaStore` has the
transactions, `Gateway` one step per call). It reads the catalogue while the
console edits it (`Gateway.Edit`, `Gateway.Disable`; `Catalogue` has the edits).
The console runs commands in containers through the worker's SSH and the agent's
HTTP interface: `AgentStream` composes the console's client with `AssJobs`,
`Workspace` the console's requests with `AssFiles`. A cloud-agent run relays a
job to browsers and stores what it relays: `CloudAgentRun` has the run over
`ChatSessions`, with the job as it appears to the console.

## 2. Modules

Names of definitions are those of the code where it has one. A history variable
is marked as such where it is declared; no guard of an action reads one.
`PROJECT.json` maps every definition to the lines it stands for.

| module | models | from |
|---|---|---|
| `QuotaTables` | rows, limits, what the statements compute | `000001_init.up.sql`, `quota.go`, `postgres.go:211-337` |
| `Admission` | the promise: admission and settlement in one step each | `postgres.go:211-337` |
| `QuotaStore` | the transactions, statement by statement | `postgres.go:211-337`, `547-553`, `handlers.go:338-554` |
| `RequestForm` | what the handler reads from a body | `gateway/handlers.go:692-909` |
| `Ordered` | what a sort by a strict order returns | `gateway/handlers.go:1055-1087` |
| `Routing` | filters and order of candidates | `gateway/handlers.go:944-1109`, `1694-1743` |
| `Accounting` | the promise of the books: admit, close, record | `gateway/handlers.go:338-554` |
| `Gateway` | `forwardCompatible` | `gateway/handlers.go:160-559`, `1254-1860` |
| `UsageMeter` | usage of an answer or of the events of a stream | `gateway/handlers.go:517-549`, `1560-1677` |
| `ResponsesItems`, `Conversation` | conversions between the two APIs; a client that keeps its conversation | `responses_compat.go:190-846` |
| `ResponsesStream` | a stream translated event by event | `responses_compat.go:635-889` |
| `AssJobs` | the job registry | `jobs.go:20-444` |
| `AgentStream` | the console's client of a job, over `AssJobs` | `cloud_agent_ass_jobs.go`, `cloud_agent_codex.go:89-194` |
| `AssExec` | one-off commands | `ass/server.go:1145-1513` |
| `Fanout` | bounded replay and bounded channels of shells | `shell_sessions.go:300-399` |
| `AssShells` | the agent's shells | `shell_sessions.go:17-469` |
| `ConsoleShells` | the console's terminals | `chat_shell_registry.go`, `chat_shell.go:577-695`, `cloud_agent_shell.go` |
| `AssFiles` | the agent's file operations | `ass/server.go:107-1424` |
| `Workspace` | the console's workspace requests, over `AssFiles` | `chat_workspace.go:201-1165`, `cloud_agent_ass.go:116-485` |
| `ChatSessions` | the stored record and how a write merges with it | `chat_sessions.go` |
| `CloudAgentRun` | runs, watchers, resumption, saves | `chat_cloud_agent_stream.go` |
| `AgentAccount` | preparation, restart and configuration of a user's agent | `chat_environment.go`, `chat_shell.go:92-575`, `cloud_agent.go:184-783` |
| `ChatTurn` | a question that a provider answers, and who stores its reply | `chat_stream.go:104-1368`, `chat_support.go`, `chat_sessions.go:436-625` |
| `WorkerInit` | edits, probes and initialisations of a worker | `console/workers.go`, `bootstrap_ansible.go` |
| `KeyAdmin` | API keys under their administrators | `console/handlers.go:306-383`, `936-1001`, `memory.go` |
| `Catalogue` | providers, routes, prices and imports | `console/handlers.go:398-652`, `openrouter.go`, `models_support.go` |
| `ConsoleBase` | the requests, and the faults one behaviour may have, of the console's modules | |
| `MC*` | instances for TLC | |
| `*_proofs` | theorems and their proofs | |

**Quota.** `pc[r]` is the next statement of request `r`. `Call` fixes what the
handler passes to `ReserveQuota`; `LockReserve` is `pg_advisory_xact_lock`;
`CountActive`, `CountWindow`, `CheckDaily` and `CheckMonthly` are the four
checks, each reading what has committed by then (READ COMMITTED); `Commit` makes
the row and the counter visible. Writes are modelled at the commit, which is
sound because every writer of these rows holds the key's lock; an id that another
key also uses meets the primary key, which `DuplicateId` models. `InsertUsage` is
a step of its own, as it is in the code. Failures: `Abort`, `Commit` to
`"failed"` (the answer is lost), `Abandon`, `SettleError`, `InsertError`,
`Crash`. `SetPolicy` is an administrator. Amounts are small numbers. `blind` is
history: the keys for which a budget check ran while spending of that key was in
neither table. `Admission` has the same tables and leaves budgets out, because the
code does not check them atomically with the ledger.

**Gateway.** `pc[r]` is where the handler is, `req[r]` its local variables. One
unit of tokens stands for the usage of an answer, so that a cost is a price.
`Authenticate` parses the body first, as the code does: a malformed request is
refused before its key is looked at. `Resolve` reads one alias per step from the
catalogue as it is at that moment. `Answer`, `ChatAnswer` and `Judge` are the
attempt loop, with statuses grouped as `retryableUpstreamStatus` groups them;
`NoAnswer` is a transport that cannot be made, a dial error or a canceled
context; `BuildFails` is the return in the middle of the loop. An answer, or the part of
a stream that came before it broke, may have reported usage or none (`Reported`); a
success without any is recorded with the mark `estimated` and costs nothing
(`Estimated`). The cache is one
entry per key and body; load, deletion of an expired entry and store are separate
steps since the lock is released between them. `Accounting` sees the books
through `bills <- [r |-> {e.cost : e \in ledger[r]}]`.

**Responses.** A text is a sequence of pieces and a piece is blank or not, since
that is what the code looks at. `Conversation` lets a client send its items in
any order that it could come to; `ResponsesStream` compares what was streamed
with what the same completion gives when it is not.

**Agent.** A job object is named after the request that created it. `Start` and
`Publish` are the two looks at the registry around the creation of the log;
`AppendDelta` is the locked half of `appendDelta`, `SendDelta` one send without
the lock; `Finish` and `SendEnd` the same for the end. `panicked` records a send
to a closed channel. A process that has exited may leave a descendant that holds its
output (`"held"`): `cmd.Wait` returns only when that is closed too (`LetGo`), since the
output is the writer of a pipe of the agent and no `WaitDelay` is set. `Offer` never waits: what does not fit is lost, which `lost`
(history) records. A replay is counted in lines, not in bytes. `AgentStream` adds
the client: it waits for an older job, starts its own, streams, asks again when a
stream broke, and falls back. `AssShells` and `ConsoleShells` have the same
shape; whoever is first closes a session. In `AssFiles` a path is the sequence of
its names and a file the index of its content, so that an open file stays itself
while it is renamed or replaced. A write is four steps: the look, the temporary file
(`CreateTemp`, empty), its data (`WriteTemp`, which may fail), and the rename over the
file (`Replace`).

**Console.** `CloudAgentRun` splits every store access in its read and its write,
and every broadcast from the change it announces, as the run's mutex does.
`AgentAccount` has the account, the session's record, the credential, the
container and the releases as a preparation meets them one after another. In
`WorkerInit`, `KeyAdmin` and `Catalogue` a request reads a row, works, and puts
the whole row back. `ChatTurn` follows one question through its turns, its pieces
to a page that may leave, the usage record, and the store of the session: the handler
reads what is stored (`StoreGet`) and puts the richer of it and the reply (`StorePut`,
`Richest`), while the page saves the same session with what it has been shown so far
(`AutosaveGet`, `AutosavePut`) and another page may write it too (`OtherSaves`). Of a
list of messages the model keeps what this comparison looks at: how many there are and
how long they are, in pieces; and the reply. The page's ids are longer than the
handler's, by `LongerIds`.

## 3. Runs

`CHECK_DEADLOCK FALSE` is set everywhere: requests, jobs and streams are finite,
and all of them may be over.

| run | question | instance | distinct states |
|---|---|---|---|
| `quota_atomic` | Do the interleaved statements implement `Admission`, and keep limits, counters and budgets? Is every attempt answered and billed? | 2 requests that may share an id at rate limits that are edited, or 2 at a daily and a monthly budget; every failure, 2 instants; fair | 107,926 |
| `invariants` | Everything that only needs invariants, one part at a time | a conversation of 6 items; a stream of 4 chunks; 2 users of a workspace; 2 agent shells of one id with a socket | 2,407,907 |
| `quota_overdraft` | Is a budget ever overdrawn without a failure? (yes) | 2 requests, no failures | violation |
| `gateway_failover` | Does a request keep its promises? Does the cache? | 28 asks, up to 3 candidates, 2 catalogues, 4 kinds of status, leave, interrupt, disable, edit; or 2 requests at the cache and a tick; fair | 372,817 |
| `gateway_unrecorded` | Is every request recorded? (no) | 1 request | violation |
| `jobs` | Do the job registry, its client and one-off commands keep their promises? | 2 starts of one id, 2 streams, 2 lines, channel and replay of 1; or one start is the console's; or 1 command; fair | 550,217 |
| `shells` | Do the console's terminals? | 2 sockets of one key, channel of 1; fair | 481,062 |
| `workspace_revision` | Does the revision of a file prevent lost updates? (no) | 2 users | violation |
| `console` | Do the console's stateful parts? | six parts, two requests each (a chat: one question, 2 turns, 2 pieces a turn, 1 save by a page), one fault a behaviour; fair runs | 1,200,682 |
| `console_screenshot` | Does every run end? (no) | 1 client, 1 operation | violation |
| `agent_choice` | Is the user's choice kept? (no) | 2 requests, no failures | violation |
| `usage_estimated` | Is usage that is missing estimated? (no) | 2 protocols, counters up to 3 | violation |

Several modules share a run where they need the same kind of checking: the MC
module lets its first state choose a `part`, and only that module then moves. Parts
share no state. `MCConsole` and `MCGateway` extend the modules they check;
`MCInvariants` extends `AssShells` and `MCAgentFiles`, which gives `Workspace` its
instance, and instantiates the Responses modules over the same variables, stating
their properties again, under the same names, for the part that is explored.
`MCQuotaStore` follows two kinds of behaviour, told apart by the key's first limits:
with rate limits (`Rated`) and with budgets (`Budgeted`). Each leaves out failures it
learns nothing from: `Rated` a lost ledger entry, which no rate limit reads, and a
failed settlement, which leaves a reservation open as an early return does;
`Budgeted` a reservation that is rolled back, which no budget sees.
`MCAgentFiles` allows fewer requests than `Arrive` does (`MCArrive`): those whose
interleavings differ. `shells` needs no MC module.

**Why the bounds are enough.** *Quota:* a limit is violated by the request that
takes one slot too many; the tables are independent between keys since every
statement is `WHERE api_key_id = $1`; two instants make every request either
cross the end of a minute or a day or not; the end of a month, budgets that are
edited, and a third request are left to the proofs.
*Gateway:* handlers share only the cache and the store, so that all but the
cache's property is about one request; three candidates give a first, a middle and
a last one; two requests fill, clear, expire and read an entry in every order.
*Responses:* six items are two calls, their answers, and words before or between;
four chunks make two calls with two pieces, or reasoning and words that take turns.
*Jobs and shells:* two starts race for an id; a channel of one and a replay of
one make every limit bite with two lines. *Workspace:* every operation is a step
sequence of its own, and two of them interfere; more users add no new pair. *Console:*
what can go wrong needs one request that works on what another has changed; one
fault at every possible place shows what partial failure leaves behind. A question is
continued once (`ContinuationLimit` is 2 in the code): a second turn is one after a turn
that has left pieces and counters. The ids of a page make a reply one unit longer
(`LongerIds`, 4 bytes in the code), with pieces of one unit, so that a reply that lacks a
piece is as long as a whole one; and one save (`MaxSaves`) overlaps the handler's read
and put in every order. The proofs of section 5 remove the bounds from much of the safety.

**Symmetry** is used only in `invariants`, which has no temporal property, for
identifiers of calls, which no other constant tells apart.

**Fairness.** `QuotaStore`: weak for the statements and the upstream call
(statements return, every HTTP client has a timeout), strong for the advisory
lock, which PostgreSQL grants in turn; none for calls, failures, crashes or the
clock. `Gateway`: weak for the handler of each request; a stalled upstream is
`NoAnswer` or `ReadFails`, by the client's timeout or the stream's idle timeout.
`AssJobs`: weak for the two goroutines of a job and for the stream handlers; a
process need not exit, nor a descendant close the output it holds (`LetGo`), nor a
client leave: `StreamsEnd` is about jobs whose process has exited and whose output is
closed. `AssExec`: weak for the kill, which a
context's end triggers, and for the answer; a command need not end by itself.
`ConsoleShells`: weak for the goroutine that reads a shell, for closing, and for
the loop of each socket, as long as the console lives. `CloudAgentRun`: weak for
each run, each request that watches, and the end of what an agent executes, which
has a timeout; a run that waits for a mutex for good is not enabled.

## 4. Properties

Each has a mutant: a plausible mistake in a modelled definition (`Mutant:` in its
comment) under which TLC finds it violated.

- `AtomicSpec`: without the lock two requests pass the same check.
- `SettledOnce`: a reused id must not reopen or overwrite a closed row. The
  in-memory store upserts; the mutant does as it does.
- `ConcurrencyBound`, `WindowsExact`: limits and counters across refusals,
  failures, lost answers, edits and crashes. A key is held to the limit it has now,
  if none of its requests was let in under a larger one (`NotLowered`).
  `WindowsExact` is about keys whose requests were all let in under limits that count
  windows: if a key is given its first per-minute limit while requests are in
  flight, their settlement corrects a counter they were never added to.
- `OnlyUnseenOverdraws`: while no request has cost more than its estimate
  (`EstimatesHold`; nothing in the code sees to that) and none was let in under a
  larger budget than the key has now (`NotLowered`), a budget is overdrawn only
  after a check that ran while money was between the tables, lost, or reserved
  before midnight.
- `Answered`, `BilledInTheEnd`: a reservation attempt ends; an admitted request is
  settled and in the ledger, unless the process ends, the handler returns early,
  or a store call after the answer fails (`gaveUp`).
- `ChainHonoursPreferences` compares the filter and the multi-key sort with a
  statement of what each preference means.
- `NoFailoverAfterReply`: no upstream is asked after the first byte.
- `EveryEndAccounted`: however the handler returns, but for one exit.
- `BilledAsServed`: who answered is who is billed, at a price read when the
  request was resolved, and only an error or an answer without usage, marked as
  `estimated`, is free. That the mark comes without an estimate is section 6's.
- `BooksSpec`: the handler implements `Accounting`.
- `CacheServesOwn`: same key, same body, a success, never a stream.
- `Returns`: also when a responses request turns into a chat completion.
- `ToolsPaired`, `NothingSaidIsLost`: the repaired conversation is one a provider
  accepts, and the repair loses neither words nor answers that came in time.
- `StreamedAsWhole`: a stream tells, item by item, the message that would have
  come at once, white space aside.
- `NoSendOnClosed`, `LiveJobIsFound`, `NothingMissed`, `EndIsLast`, `StreamsEnd`:
  the goroutines of a job against streams that come and go, and against what its
  process leaves behind: a job whose output is held is found, still writes, and ends
  its streams when the output is closed.
- `OutputOnce`, `FallbackIsClean`: the client's recovery hands on no line twice,
  although a stream starts with the replay, and a prompt is run in another way only while
  the caller has seen nothing.
- `ExecAnswered`: a command that is over time is answered, unless a descendant
  has left its process group and keeps the output open.
- `ShellOutputInOrder`, `OpenShellIsFound`, `ShellSocketsEnd`: output once and in
  order; no terminal is left open that nobody can reach; sockets of a closed
  session end though the closed event may be dropped.
- `WritesAreWhole`: where a file is written there is the old or the new one at all
  times, and no listing shows a temporary file; only a copy can be seen half done.
- `CalledAtMostOnce`: the console repeats a call only if the first never reached the
  agent, whatever answers are lost; one kind of call is named as the exception.
- `ReplyHasNoGaps`, `OneRunExecutes`, `WatchersAreLetGo`: a page that joins a run
  misses no piece; one run of a session executes; who watches is let go.
- `RunningIsTrue`, `ReadyIsCurrent`: a running account has the container it names,
  whatever failed, as long as preparations did not overlap; one that is called
  ready is of the current revision, accepted, and offered to the page.
- `ReplyIsKept`, `TurnsAreBilled`: whatever parts of a reply its page saves by itself,
  before, after or while the handler stores it, the stored reply is what was sent (of
  two replies as long in bytes, the one that is stored stays, and with the page's longer
  ids it may lack their difference); what a page shows is a part of it in order; and all
  turns are billed, the failed last one too. The conditions `other` and `late` are what
  the merge does not protect against (section 7). `TurnsAreBilled` is about counters:
  the price is zero when the last turn was refused.
- `ReadyIsEarned`: a worker that is stored as ready names a host that was found so.
- `AccessIsGranted`: a key has one secret; a secret comes back only through a
  request that had read it while it was accepted.
- `PricedAsItself`: a route costs what the model costs that it leads to.

## 5. Proofs

Everything below holds for any number of requests, keys, candidates, jobs,
streams, lines, turns, administrators and so on, and for all values of the
constants that satisfy the named assumptions (`QuotaAssumption`,
`QuotaStoreAssumption`, `GatewayAssumption`, `AssJobsAssumption`,
`AgentStreamAssumption`, `AssShellsAssumption`, `ConsoleShellsAssumption`,
`CloudAgentRunAssumption`, `AgentAccountAssumption`, `AssFilesAssumption`,
`WorkspaceAssumption`), which say what the constants are (numbers, that `None` is no
request, that the first tree is a tree) and nothing about behaviour; one restricts the
inputs, to paths that are not those of temporary files (`WorkspaceAssumption`).

**`QuotaStore_proofs`.** `TypeCorrect`, `Invariance`, `Refinement`
(`Spec => AtomicSpec`), `Concurrency` (`ConcurrencyBound`), `Settled`
(`SettledOnce`). A type invariant is not enough for the refinement: at `Commit`
the detailed specification knows nothing of the limits, which were checked
several steps earlier. `IInv` adds `LockHeld` (inside a transaction one holds the
lock of one's key), `RowOwned` (the row one will settle is of one's own key) and
`StillRoom` (a check that was passed would still pass). The last is inductive
because another request that writes rows of the key would need the lock, rows
of other keys do not count in `Active` or in the key's window, and the clock only
makes reservations stale. `Concurrency` follows from `SlotsKept`, which compares a
key not with its limit of now but with any limit that bounds those its requests were
let in under (`LimitedTo`): an edit then changes nothing, requests that have started
keep their limits (`Onward`), and an admission adds one element to a set with fewer
elements than its own.
`CountersExact` (`WindowsExact`) needs sums: the section on sums over finite sets
shows, by least counterexample (`LeastPart`), that a sum over a finite set is any
of its numbers and the sum of the others (`SumMember`); an admission then adds one
row to its minute, and a settlement replaces one number, so that the cut-off at
zero never happens.
`BudgetsKept` (`OnlyUnseenOverdraws`) cannot follow the query's own sum, which drops
whenever a cost is between the tables. It follows what is really owed: `Due` of an
id is the cost of its request, once there is one, and else the estimate of its
reservation, and `Owed` is the sum over ids. `Books` ties the tables to the requests
(an id has one owner; its row and ledger entry are the owner's), so that only an
admission adds to `Owed`, by its estimate (`CommitOwes`), and an answer does not
(`FinishDue`). If the check of a key misses nothing, what it sees is no less than
what is owed (`SeenIsOwed`), and the lock keeps that room until the commit;
`Affordable` says so step by step. What the property counts is part of what is owed
(`ExposureIsOwed`). Limits are compared with the ones requests were let in under, so
administrators may raise them.

**`Gateway_proofs`.** The argument follows the program counter: `Silent` says
what has been sent and `Tried` how many attempts were counted, by where the
handler is. From them `TriesAll` (`GivesUpLast`) and `NoSecondAnswer`
(`NoFailoverAfterReply`). `Kept` says where quota is held and when the row is
written; it holds if settlements do not fail, which `BooksBalance` (`BooksSpec`)
assumes, and `AllAccounted` (`EveryEndAccounted`) assumes in addition that
inserts do not fail. Both assumptions are needed: the code logs these errors
and goes on. The run `gateway_failover` makes the same assumptions by its
`Faults`. `CacheServes` (`CacheServesOwn`) has an invariant of its own, `Cached`:
whatever an entry holds was answered to its key and body with success, and so was
what a handler has loaded or is about to store.

`ChainHonoured` (`ChainHonoursPreferences`) rests on lemmas about the selection.
`InOrder` says what a sort returns without saying how; a finite set has an
enumeration in every strict total order (`Enumerable`: a member's place is the
number of those before it), so that what is chosen exists (`InOrderSorts`). The order of
attempts is strict and total on candidates of different aliases (`BeforeTotal`), and
a list of names is parsed without repetitions (`StringListProper`); from these
`SelectHonours`. The invariant `Chosen` says that what was found so far stands under
the index of its alias, each alias once, and that the chain is the selection from it:
an edited catalogue changes later candidates only. `BilledRightly` (`BilledAsServed`) adds
`Serving`: a handler that has sent an answer is still at the candidate that gave it, and
the status the client has seen is the one the record's mark is computed from.

**`AgentStream_proofs`**, first part, the registry of jobs. `TypeCorrect`, `NoPanic` (`NoSendOnClosed`), `LiveFound`
(`LiveJobIsFound`). `NoSendOnClosed` is not inductive. `Phases` orders the two
goroutines (the waiter sends only when the copier has ended); `Owned` says that
a job's goroutines hold only channels of streams that joined it; `ClosedLast`
says that a closed channel was closed by its own job's waiter. Together: when
the copier sends, its job's waiter has not closed anything, and nobody else
could have. `Published` carries `LiveFound` through the race of two starts, and through
the time in which a process has exited and its output is held.

**`Console_proofs`** has a section for each of six modules.
*`KeyAdmin`*: `AccessGranted` (`AccessIsGranted`). All writes go through
`CreateAPIKey`, which takes the key from every other secret; so a key keeps one
secret (`OneSecret`), and a write can only bring back the secret that was read.

*`Catalogue`*: `PricedAsCalled` (`PricedAsItself`). Not inductive: an
import that finds no price keeps the one the route had although it redirects the
route. The invariant adds that a priced route leads to the model of its own name,
since only imports give prices, and that a request holds such a route too.

*`WorkerInit`*: `ReadyEarned` (`ReadyIsEarned`). Requests carry stale
rows around and write them back whole; the invariant is that no copy of a row,
stored or carried, says more than was found out about the host it names.

*`ChatTurn`*: `AllTurnsBilled` (`TurnsAreBilled`) and
`RepliesKept` (`ReplyIsKept`). What the provider has sent and counted equals what is added
up of finished turns and what the turn under way has so far; this turn exists
only between its call and its end. What a page is shown follows what was sent
(`ShownNext`: the next piece sent is shown after the others, or not at all). For the
store, `Stored` speaks of every version of the session that is anywhere: stored, read by
the handler, read by a save, or posted by the page. As long as no other page has written,
each is `Ours`: its reply is a part of what has been sent, or the placeholder once the
answer is over, and its size says so but for `LongerIds`. A reply that is as large as
the whole one then is it, or lacks no more than that (`LargeHasReply`); so once the handler has put the reply the
richer of two versions has it (`MergeAddsReply`, `MergeKeepsReply`), and saves that
read after the put carry such a version (`AllHaveReply`).

*`CloudAgentRun`*: `OneRun` (`OneRunExecutes`) and `NoGapsInReply`
(`ReplyHasNoGaps`). A run that has not ended is the registered one, which a second
question finds and joins (`RInv`). For the reply, the last piece that a watcher
has or has in its channel is the run's last, but for a piece that the run is
just telling its subscribers; one lemma for sending a piece (`PieceSent`) and one
for receiving it (`PieceReceived`) keep the channel a chain of next pieces.

*`AgentAccount`*: `RunningTrue` (`RunningIsTrue`) and `ReadyCurrent`
(`ReadyIsCurrent`), with any number of faults. The invariant says what a preparation may
rely on where it is: `Held`, as long as it is the only preparation (its
account is not said to run from the moment its script may replace the container);
`Current`, as long as nothing else has happened since it came (which account,
container, revision and credential it will leave). A shell relies on less than
the other two kinds, since it uses a ready agent without asking for its revision;
`ReadyIsCurrent` is about the others.

**`AgentStream_proofs`**, second part. `NoGaps` (`NothingMissed`) and
`EndComesLast` (`EndIsLast`) of the registry's streams; `HandedOnOnce` (`OutputOnce`) and
`CleanFallback` (`FallbackIsClean`) of the console's prompts that read them. The invariant follows a line from the job to the
stream. `Complete` says that the lines given to a stream, those in its channel and
those that were lost are the interval `from .. top`, in order; `Top` is the job's
size, or one less while the copier still holds the stream's channel. `Subscribed`
(a stream in its loop is a subscriber until its job is done) makes every new line
reach it, `Copied` (the replay is the last lines) makes it join without a gap,
`Unknown` (nobody holds a channel before its stream subscribes) lets it join with
an empty channel, and `Ending` says when a channel is closed and why the end is
not lost track of. One lemma about sequences for each thing that can happen to a
line (`Joining`, `Sending`, `SendingEnd`, `Receiving`) keeps the steps short; they are in
**`Fanout_proofs`**, for jobs and shells. A
prompt (`PromptSpec`) adds `HandedOn`: what it has handed on is a prefix of what its
current stream has got, and empty unless it is reading or has returned, so that its
second stream, which begins with the replay, can repeat nothing.

**`AssShells_proofs`**: `OutputInOrder` (`ShellOutputInOrder`). The argument of
`AgentStream_proofs` for the agent's terminals, with a difference: whoever closes a
session does not wait for its reader. So `Flowing`, that an output is on its way, in
a channel, written or lost, holds up to a send that meets a closed channel, which
would end the agent (section 7); that the closed event is last holds in any case,
because a channel is closed once, in the step that offers it (`Closing`, `Ending`).

**`ConsoleShells_proofs`**: `ShellsFound` (`OpenShellIsFound`). The invariant is the
order of events at both ends of a session: nobody finds, reads or closes one that its
opener has not registered (`Opening`), and one is done only after somebody has
closed its shell (`Closing`); so an entry of the registry is overwritten or removed
only when its shell is closed.

**`Workspace_proofs`**: `WholeWrites` (`WritesAreWhole`) and `CalledOnce`
(`CalledAtMostOnce`), for every tree, any number of requests, and whatever paths
they name except those of temporary files (`WorkspaceAssumption`: the code makes
these names up when it needs them, and lists none). That a file which is not yet whole cannot
be seen is not inductive: the tree is moved, copied and deleted under the write.
`TreeOK` says what the tree keeps: what is above a path is a directory (`Rooted`), and
a half-written file has, wherever a moved directory has taken it, the name of the
temporary file of the request that writes it (`Fits`). A lemma for each operation on
the tree (`TreeWith`, `TreeRemoved`, `TreeParentsMade`, `TreeMoved`) says that it
keeps this, from facts about prefixes of paths (`PrefixByNames`, `Regrafted`).
`ContentOK` says who may have a half-written file: the request that has it open, or
one that failed; so what `Replace` moves to the path that was asked for is whole, and
what other requests move or copy there by name is no temporary file (`PlainIsWhole`).
`WorkOK` is about what a copy still has to do: its directories have no such names.
The proof has a lemma for each of the agent's actions; most rest on
`StepKeeps`, that a step of one request leaves the others' files and work alone.
`Once` follows a request of the console through its two calls.

**Only model-checked.** Liveness (`Answered`, `BilledInTheEnd`, `Returns`, `StreamsEnd`,
`ExecAnswered`, `ShellSocketsEnd`, `WatchersAreLetGo`) is beyond the prover.
`ToolsPaired`, `NothingSaidIsLost` and `StreamedAsWhole` rest on recursive
conversions. Every other property of a passing run is stated by a theorem.

## 6. Where the code and its documents disagree

Each of these is a run whose violation is a behaviour of the code:

- `quota_overdraft`: the documents promise that reservation and settlement under
  the advisory lock avoid concurrent overspending. Settlement closes the
  reservation in one transaction, the cost reaches the ledger in another, and a
  reservation in between sees neither.
- `gateway_unrecorded`: a candidate whose URL cannot be built ends the handler;
  its reservation stays open for six hours and no usage is recorded, even of
  attempts already made.
- `usage_estimated`: an answer without usage, also a stream that breaks before it has
  reported any, is marked as estimated and recorded with counters and a cost of zero.
  The design (`docs/api-gateway-console-design.md:399-401`, `443`) promises an estimate
  from a tokenizer, or from the tokens observed.
- `workspace_revision`: the revision is compared and the file replaced in two
  steps, so that two writes of one revision both succeed.
- `console_screenshot`: a screenshot is recorded and broadcast while the run's
  mutex is held, and broadcast locks it again: the run never ends.
- `agent_choice`: the record that a preparation writes has lost the shell's state.

## 7. Other observations

Behaviours that the models have or that were met on the way, without a run of their
own; they are the reason why some properties are stated with conditions.

*Gateway.* What is reserved is an estimate priced with the first candidate, although the
design (`docs/api-gateway-console-design.md:441`) promises the worst case; a dearer
candidate may serve. The total of an Anthropic stream is its output alone, since the last
event's total replaces the one that had the input (`handlers.go:1671`); the test of whole
answers (`handlers_test.go:189`) expects the sum. An
answer computed before a clear of the cache is stored after it. An upstream answer that
cannot be read whole becomes an empty success. Two routes never share an index,
so that tie-breaks by priority and weight in `sortCandidates` are never reached.
Streams of the responses endpoint report their usage one level deeper than
`parseUsageFromJSON` looks.

*Responses.* In a stream, reasoning of white space and pieces of arguments of
white space are dropped (`responses_compat.go:694`, `764`); the order of the
final output can differ from the indices given out when words come before
reasoning; calls are announced as done without having been added; a stream that
ends without `[DONE]` is reported as completed.

*Agent.* A shell's `close` removes its id whoever has it by then; a broadcast of
a shell may meet a channel that its waiter or a client has closed, which would
bring the agent down; a job whose command does not start leaves streams that
joined it waiting; a job whose process has exited is not done while a descendant holds
its output, and a start of its id joins it; a copy that fails removes its target by name; between a check
of a target and its replacement anybody may come.

*Client of the agent.* A prompt may run twice when the connection fails after the
job was started; a stream of which something arrived counts as success.

*Console.* A question that joins a run whose first store then fails waits until
its client leaves; a run that failed and was not stored says "done" to who comes
late; a page save or a generated title that was computed from an older state
overwrites a finished reply; another page that went on from the same session has the
longer list, and a reply that comes then is not stored although its page is told "done"
(`chat_sessions.go:456`); a page's ids of a question and a reply are longer than the
handler's (`chat.js:473`, `handlers.go:1233`), so that a reply it saved with up to four
bytes less than the whole one is kept instead; a deleted session returns with the next
save; a refused last turn makes the turns before it free of charge
(`chat_support.go:1106`); two preparations at a time leave an account whose
container is another's or gone, or a credential that is not accepted; stale writes
re-enable a disabled key or bring back a secret that had been rotated out, if they had
read it before; a probe or an initialisation overwrites an edit made meanwhile;
after a restart a worker stays "initializing"; an import may take over a route
that was given to another provider after it looked; keys beyond the newest 200
cannot be found to be disabled.

## 8. What is not modelled

Components marked `not_modelled` or `partly` in `PROJECT.json`, each with its
reason: read-only endpoints, pages and charts; OAuth and install tokens; the
proxied browser with its CDP connections; artifacts; configuration; browser code.
Inside the modelled ones: bodies, headers and events as data (only what decides
control is kept); widths of token counts (a cost is a small number); router
metadata; the log file of a job, which nothing reads; symbolic links, ranges and
MIME types of files; sizes of terminals; attachments, and operations of a run other
than the screenshot; the tasks of the worker playbook; metrics and logging.
Actions marked external in `PROJECT.json` (a client that leaves, the clock, a
process) are modelled from how the code reacts to them.

Where a model is coarser than the code: `Gateway.Resolve` reads the route, the provider,
its profile and its price of an alias in one step, the code one after another
(`handlers.go:1139-1163`, `1679-1688`); `AgentAccount` lets a script fail before it has
changed anything or after it has removed the container, and lets one go on after its
client has left only for an upgrade; other failures leave a state that one of these
leaves too. The titles of `ChatSessions` and the tools of `AgentAccount` are kept for
fidelity, no property is about them.

Two hazards have no property because the code is exposed to them: the reservation's
price, which a document promises otherwise, and the closed channels of agent shells.
Some are covered in part: stale saves of chat sessions by others than the page itself,
preparations that overlap, a prompt that runs on beside its repetition. Their notes in
`PROJECT.json` say so.

## 9. What could come next

In this order: a refinement of `CloudAgentRun` by an abstract run (starts once,
completes once, all that was appended is stored); overlapping preparations in
`AgentAccount`, once the code defines who wins; install tokens and OAuth sessions,
which are consumed once; the CDP proxy.
