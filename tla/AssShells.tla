------------------------------- MODULE AssShells -------------------------------
(***************************************************************************)
(* The agent's interactive shells (ass/shell_sessions.go).  A request      *)
(* starts a shell under an id or joins the one that is there; web sockets  *)
(* attach to a shell, get its output so far and what follows, type into it *)
(* and may close it.                                                       *)
(*                                                                         *)
(* A shell has two goroutines, one reading its terminal and one waiting    *)
(* for its process, and either of them or a socket may close the session:  *)
(* whoever is first does it.  Output is numbered; a session is named after *)
(* the request that created it.  A send to a closed channel brings the     *)
(* whole agent down.                                                       *)
(***************************************************************************)
EXTENDS Integers, Sequences, FiniteSets, SequencesExt, Fanout

CONSTANTS
  Ids,         \* session ids
  Shells,      \* requests that create a session, and the sessions
  Sockets,     \* web sockets
  MaxOutput,   \* bound on what a shell prints
  ChanCap,     \* capacity of a subscriber's channel (128)
  ReplayLimit, \* how much output a session keeps (512 KiB)
  None

ASSUME AssShellsAssumption ==
  /\ ChanCap \in Nat \ {0} /\ ReplayLimit \in Nat \ {0}
  /\ None \notin Shells

VARIABLES
  sessions, \* the registry: the session of each id
  create,   \* each creating request: [pc, id]
  shell,    \* each shell's process: [state, out]
  session,  \* each session: [done, size, replay, subs]
  reader,   \* each session's reading goroutine: [pc, to]
  closer,   \* whoever closes a session: [by, pc, to]
  socket,   \* each web socket: [pc, shell, from, got, told]
  chan,     \* each socket's channel
  lost,     \* history: the outputs that found no room in a socket's channel
  panicked  \* the session whose reader sent to a closed channel

vars == <<sessions, create, shell, session, reader, closer, socket, chan, lost, panicked>>

Gone == 0 \* the closed event, among the numbers of outputs

Init ==
  /\ sessions = [i \in Ids |-> None]
  /\ create = [s \in Shells |-> [pc |-> "new", id |-> None]]
  /\ shell = [s \in Shells |-> [state |-> "none", out |-> 0]]
  /\ session = [s \in Shells |-> [done |-> FALSE, size |-> 0, replay |-> <<>>, subs |-> {}]]
  /\ reader = [s \in Shells |-> [pc |-> "none", to |-> {}]]
  /\ closer = [s \in Shells |-> [by |-> None, pc |-> "none", to |-> {}]]
  /\ socket = [c \in Sockets |-> [pc |-> "new", shell |-> None, from |-> 1, got |-> <<>>, told |-> FALSE]]
  /\ chan = [c \in Sockets |-> NoEvents]
  /\ lost = [c \in Sockets |-> {}]
  /\ panicked = None

-----------------------------------------------------------------------------
(* getOrCreate *)

Live(i) == sessions[i] # None /\ ~session[sessions[i]].done

\* handleCreateShellSession: a session that is not done is joined.
Look(s, i) ==
  /\ create[s].pc = "new"
  /\ create' = [create EXCEPT ![s] = [pc |-> IF Live(i) THEN "existing" ELSE "start", id |-> i]]
  /\ UNCHANGED <<sessions, shell, session, reader, closer, socket, chan, lost, panicked>>

\* The shell is started, without the registry's lock, or does not start.
StartCommand(s) ==
  /\ create[s].pc = "start"
  /\ \/ create' = [create EXCEPT ![s].pc = "register"] /\ shell' = [shell EXCEPT ![s].state = "running"]
     \/ create' = [create EXCEPT ![s].pc = "failed"] /\ UNCHANGED shell
  /\ UNCHANGED <<sessions, session, reader, closer, socket, chan, lost, panicked>>

\* The second look: the loser's shell is killed, the winner's goroutines start.
Register(s) ==
  /\ create[s].pc = "register"
  /\ IF Live(create[s].id)
     THEN /\ create' = [create EXCEPT ![s].pc = "existing"]
          /\ shell' = [shell EXCEPT ![s].state = "exited"]
          /\ UNCHANGED <<sessions, reader>>
     ELSE /\ create' = [create EXCEPT ![s].pc = "created"]
          /\ sessions' = [sessions EXCEPT ![create[s].id] = s]
          /\ reader' = [reader EXCEPT ![s].pc = "read"]
          /\ UNCHANGED shell
  /\ UNCHANGED <<session, closer, socket, chan, lost, panicked>>

-----------------------------------------------------------------------------
(* The shell, and the goroutine that reads it *)

Prints(s) ==
  /\ shell[s].state = "running" /\ reader[s].pc # "none" /\ shell[s].out < MaxOutput
  /\ shell' = [shell EXCEPT ![s].out = @ + 1]
  /\ UNCHANGED <<sessions, create, session, reader, closer, socket, chan, lost, panicked>>

Exit(s) ==
  /\ shell[s].state = "running"
  /\ shell' = [shell EXCEPT ![s].state = "exited"]
  /\ UNCHANGED <<sessions, create, session, reader, closer, socket, chan, lost, panicked>>

\* broadcast: the output is kept and the subscribers it goes to are fixed.
Broadcast(s) ==
  /\ reader[s].pc = "read" /\ ~session[s].done /\ session[s].size < shell[s].out
  /\ session' = [session EXCEPT ![s] =
       [@ EXCEPT !.size = session[s].size + 1,
                 !.replay = KeepLast(Append(session[s].replay, session[s].size + 1), ReplayLimit)]]
  /\ reader' = [reader EXCEPT ![s] =
       [pc |-> IF session[s].subs = {} THEN "read" ELSE "send", to |-> session[s].subs]]
  /\ UNCHANGED <<sessions, create, shell, closer, socket, chan, lost, panicked>>

\* The output is offered to each of them, without the lock.
Send(s, c) ==
  /\ c \in reader[s].to
  /\ IF chan[c].closed
     THEN panicked' = s /\ UNCHANGED <<chan, lost>>
     ELSE /\ chan' = [chan EXCEPT ![c] = Offered(@, session[s].size, ChanCap)]
          /\ lost' = IF Room(chan[c], ChanCap) THEN lost ELSE [lost EXCEPT ![c] = @ \cup {session[s].size}]
          /\ UNCHANGED panicked
  /\ reader' = [reader EXCEPT ![s] =
       [pc |-> IF @.to = {c} THEN "read" ELSE "send", to |-> @.to \ {c}]]
  /\ UNCHANGED <<sessions, create, shell, session, closer, socket>>

-----------------------------------------------------------------------------
(* close *)

\* The first to close marks the session, closes the terminal and takes the
\* subscribers; for the others it is done.
Close(s, who) ==
  IF session[s].done
  THEN UNCHANGED <<session, closer>>
  ELSE /\ session' = [session EXCEPT ![s] = [@ EXCEPT !.done = TRUE, !.subs = {}]]
       /\ closer' = [closer EXCEPT ![s] =
            [by |-> who, pc |-> IF session[s].subs = {} THEN "forget" ELSE "send", to |-> session[s].subs]]

\* The terminal is at its end, or has been closed.
ReadEnds(s) ==
  /\ reader[s].pc = "read"
  /\ session[s].done \/ (shell[s].state = "exited" /\ session[s].size = shell[s].out)
  /\ reader' = [reader EXCEPT ![s].pc = "ended"]
  /\ Close(s, "reader")
  /\ UNCHANGED <<sessions, create, shell, socket, chan, lost, panicked>>

\* The other goroutine: cmd.Wait returns.
WaitReturns(s) ==
  /\ create[s].pc = "created" /\ shell[s].state = "exited" /\ ~session[s].done
  /\ Close(s, "waiter")
  /\ UNCHANGED <<sessions, create, shell, reader, socket, chan, lost, panicked>>

\* Each subscriber is offered the closed event, and its channel closed.
SendClosed(s, c) ==
  /\ c \in closer[s].to
  /\ chan' = [chan EXCEPT ![c] = ClosedWith(@, Gone, ChanCap)]
  /\ closer' = [closer EXCEPT ![s] =
       [@ EXCEPT !.pc = IF closer[s].to = {c} THEN "forget" ELSE "send", !.to = closer[s].to \ {c}]]
  /\ UNCHANGED <<sessions, create, shell, session, reader, socket, lost, panicked>>

\* The id is removed from the registry, whatever session it stands for by now.
Forget(s) ==
  /\ closer[s].pc = "forget"
  /\ sessions' = [sessions EXCEPT ![create[s].id] = None]
  /\ closer' = [closer EXCEPT ![s].pc = "ended"]
  /\ UNCHANGED <<create, shell, session, reader, socket, chan, lost, panicked>>

-----------------------------------------------------------------------------
(* serveShellSessionSocket *)

Connect(c, i) ==
  /\ socket[c].pc = "new"
  /\ socket' = [socket EXCEPT ![c] =
       [@ EXCEPT !.pc = IF sessions[i] = None THEN "notFound" ELSE "subscribe", !.shell = sessions[i]]]
  /\ UNCHANGED <<sessions, create, shell, session, reader, closer, chan, lost, panicked>>

\* The output so far and the place among the subscribers, under the lock; a
\* session that is done is only replayed.
Subscribe(c) ==
  LET s == socket[c].shell
  IN  /\ socket[c].pc = "subscribe"
      /\ socket' = [socket EXCEPT ![c] =
            [@ EXCEPT !.pc = IF session[s].done THEN "ended" ELSE "loop",
                      !.from = session[s].size - Len(session[s].replay) + 1,
                      !.got = session[s].replay,
                      !.told = session[s].done]]
      /\ session' = IF session[s].done THEN session ELSE [session EXCEPT ![s].subs = @ \cup {c}]
      /\ UNCHANGED <<sessions, create, shell, reader, closer, chan, lost, panicked>>

\* The event goroutine writes an event to the web socket, until it has written
\* that the session is closed or finds the channel closed.
Forward(c) ==
  LET event == Head(chan[c].queue)
  IN  /\ socket[c].pc \in {"loop", "closing"} /\ ~socket[c].told /\ chan[c].queue # <<>>
      /\ chan' = [chan EXCEPT ![c].queue = Tail(@)]
      /\ socket' = IF event = Gone THEN [socket EXCEPT ![c].told = TRUE]
                                   ELSE [socket EXCEPT ![c].got = Append(@, event)]
      /\ UNCHANGED <<sessions, create, shell, session, reader, closer, lost, panicked>>

\* The client asks for the session to be closed.
ClientCloses(c) ==
  /\ socket[c].pc = "loop"
  /\ socket' = [socket EXCEPT ![c].pc = "closing"]
  /\ Close(socket[c].shell, c)
  /\ UNCHANGED <<sessions, create, shell, reader, chan, lost, panicked>>

\* The handler returns: the client has gone, or close has returned.
Leave(c) ==
  LET s == socket[c].shell
  IN  /\ \/ socket[c].pc = "loop"
         \/ socket[c].pc = "closing" /\ (closer[s].by = c => closer[s].pc = "ended")
      /\ socket' = [socket EXCEPT ![c].pc = "left"]
      /\ session' = [session EXCEPT ![s].subs = @ \ {c}]
      /\ UNCHANGED <<sessions, create, shell, reader, closer, chan, lost, panicked>>

CreateNext(s) == StartCommand(s) \/ Register(s)
ReadNext(s) == Broadcast(s) \/ ReadEnds(s) \/ \E c \in Sockets : Send(s, c)
CloseNext(s) == WaitReturns(s) \/ Forget(s) \/ \E c \in Sockets : SendClosed(s, c)
SocketNext(c) == Subscribe(c) \/ Forward(c) \/ ClientCloses(c) \/ Leave(c)

Next ==
  /\ panicked = None
  /\ \/ \E s \in Shells :
          \/ \E i \in Ids : Look(s, i)
          \/ CreateNext(s) \/ Prints(s) \/ Exit(s) \/ ReadNext(s) \/ CloseNext(s)
     \/ \E c \in Sockets : (\E i \in Ids : Connect(c, i)) \/ SocketNext(c)

Spec == Init /\ [][Next]_vars

-----------------------------------------------------------------------------
(* Properties *)

\* What a socket has been given or is about to be given.
InTransit(c) ==
  LET s == socket[c].shell
  IN  (IF c \in reader[s].to THEN {session[s].size} ELSE {}) \cup (ToSet(chan[c].queue) \ {Gone})

\* A socket gets the output kept when it attached and all that follows, in order
\* and once, but for what came while its channel was full; the closed event is
\* last, whichever of reader, waiter and clients closed the session.
ShellOutputInOrder ==
  \A c \in Sockets : socket[c].pc \in {"loop", "closing", "ended"} /\ panicked = None =>
    /\ ToSet(socket[c].got) \cup InTransit(c) \cup lost[c]
         = socket[c].from .. session[socket[c].shell].size
    /\ \A m, n \in DOMAIN socket[c].got : m < n => socket[c].got[m] < socket[c].got[n]
    /\ socket[c].told => chan[c].queue = <<>>
=============================================================================
