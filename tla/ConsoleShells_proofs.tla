-------------------------- MODULE ConsoleShells_proofs --------------------------
(***************************************************************************)
(* No shell of the console is left open where nobody can reach it, for     *)
(* every number of keys and sockets.  A key's entry is overwritten or      *)
(* removed only when its session is done or being closed, and a session is *)
(* done only after its shell was closed; so the argument is the order of   *)
(* close (Closing), and that nobody closes, or finds, a session before its *)
(* opener has registered it (Opening).                                     *)
(***************************************************************************)
EXTENDS ConsoleShells, TLAPS

\* The variables are functions of records, as far as the argument needs it.
Shape ==
  /\ sessions \in [Keys -> Sockets \cup {None}]
  /\ DOMAIN shell = Sockets /\ \A s \in Sockets : DOMAIN shell[s] = {"open", "remote", "out"}
  /\ DOMAIN session = Sockets /\ \A s \in Sockets : DOMAIN session[s] = {"done", "size", "subs"}
  /\ DOMAIN reader = Sockets /\ \A s \in Sockets : DOMAIN reader[s] = {"pc", "to", "event"}
  /\ DOMAIN closer = Sockets /\ \A s \in Sockets : DOMAIN closer[s] = {"by", "pc", "to"}
  /\ DOMAIN socket = Sockets
  /\ \A s \in Sockets : DOMAIN socket[s] = {"pc", "key", "shell"} /\ socket[s].shell \in Sockets \cup {None}

\* Nobody reads, closes or finds a session before its opener has registered it,
\* and whoever is attached is so to a registered one.
Opening ==
  \A s \in Sockets :
    /\ socket[s].pc \in {"new", "open"} => ~shell[s].open
    /\ socket[s].pc \in {"new", "open", "register", "failed"} => reader[s].pc = "none"
    /\ reader[s].pc = "none" =>
         reader[s].to = {} /\ closer[s].by = None /\ \A k \in Keys : sessions[k] # s
    /\ socket[s].pc # "new" => socket[s].key \in Keys
    /\ socket[s].pc \notin {"new", "open", "register", "failed"} => socket[s].shell # None
    /\ socket[s].shell # None => reader[socket[s].shell].pc # "none"

\* A session is closed by somebody, who closes the shell first.
Closing ==
  \A s \in Sockets :
    /\ closer[s].by # None => ~shell[s].open
    /\ closer[s].by = None => closer[s].pc = "none" /\ closer[s].to = {} /\ ~session[s].done

IInv == Shape /\ Opening /\ Closing /\ OpenShellIsFound

-----------------------------------------------------------------------------
\* The inductive invariant holds before the first socket.
LEMMA InitIInv == Init => IInv
<1>. SUFFICES ASSUME Init PROVE IInv
  OBVIOUS
<1>1. Shape
  BY DEF Init, Shape
<1>2. Opening
  BY ConsoleShellsAssumption DEF Init, Opening
<1>3. Closing /\ OpenShellIsFound
  BY DEF Init, Closing, OpenShellIsFound
<1>. QED BY <1>1, <1>2, <1>3 DEF IInv

\* A socket looks, and opens a shell that nobody knows.
LEMMA StepOpen ==
  ASSUME IInv, NEW c \in Sockets, (\E k \in Keys : Look(c, k)) \/ Open(c)
  PROVE  IInv'
<1>1. CASE \E k \in Keys : Look(c, k)
  <2>. PICK k \in Keys : Look(c, k)
    BY <1>1
  <2>1. Live(k) => sessions[k] \in Sockets /\ reader[sessions[k]].pc # "none"
    BY DEF Live, IInv, Shape, Opening
  <2>2. Shape'
    BY <2>1 DEF Look, IInv, Shape
  <2>3. Opening'
    <3>1. /\ \A d \in Sockets \ {c} : socket'[d] = socket[d]
          /\ socket[c].pc = "new" /\ socket'[c].pc \in {"attach", "open"} /\ socket'[c].key = k
          /\ Live(k) => socket'[c].pc = "attach" /\ socket'[c].shell = sessions[k]
          /\ ~Live(k) => socket'[c].pc = "open" /\ socket'[c].shell = None
      BY DEF Look, IInv, Shape
    <3>2. UNCHANGED <<sessions, shell, reader, closer>>
      BY DEF Look
    <3>. QED BY <2>1, <3>1, <3>2, ConsoleShellsAssumption DEF IInv, Opening
  <2>4. Closing' /\ OpenShellIsFound'
    BY DEF Look, IInv, Shape, Opening, Closing, OpenShellIsFound
  <2>. QED BY <2>2, <2>3, <2>4 DEF IInv
<1>2. CASE Open(c)
  <2>1. Shape'
    <3>1. CASE UNCHANGED shell
      BY <1>2, <3>1 DEF Open, IInv, Shape
    <3>2. CASE shell' = [shell EXCEPT ![c] = [@ EXCEPT !.open = TRUE, !.remote = "running"]]
      BY <1>2, <3>2 DEF Open, IInv, Shape
    <3>. QED BY <1>2, <3>1, <3>2 DEF Open
  <2>2. Opening'
    BY <1>2 DEF Open, IInv, Shape, Opening
  <2>3. Closing'
    BY <1>2 DEF Open, IInv, Shape, Opening, Closing
  <2>4. OpenShellIsFound'
    BY <1>2 DEF Open, IInv, Shape, Opening, OpenShellIsFound
  <2>. QED BY <2>1, <2>2, <2>3, <2>4 DEF IInv
<1>. QED BY <1>1, <1>2

\* What a winner overwrites is the entry of a session that is done.
LEMMA StepRegister ==
  ASSUME IInv, NEW c \in Sockets, Register(c)
  PROVE  IInv'
<1>. DEFINE k == socket[c].key
<1>1. k \in Keys /\ sessions[k] \in Sockets \cup {None}
  BY DEF Register, IInv, Shape, Opening
<1>2. socket[c].pc = "register" /\ UNCHANGED <<session, closer>>
  BY DEF Register
<1>3. CASE Live(k)
  <2>1. sessions[k] \in Sockets /\ reader[sessions[k]].pc # "none"
    BY <1>1, <1>3 DEF Live, IInv, Opening
  <2>2. /\ socket' = [socket EXCEPT ![c] = [@ EXCEPT !.pc = "attach", !.shell = sessions[k]]]
        /\ shell' = [shell EXCEPT ![c] = [@ EXCEPT !.open = FALSE]]
        /\ UNCHANGED <<sessions, reader>>
    BY <1>3 DEF Register
  <2>3. /\ \A d \in Sockets \ {c} : socket'[d] = socket[d] /\ shell'[d] = shell[d]
        /\ socket'[c].pc = "attach" /\ socket'[c].key = k /\ socket'[c].shell = sessions[k]
        /\ ~shell'[c].open
    BY <2>2 DEF IInv, Shape
  <2>4. Shape'
    BY <1>2, <2>1, <2>2 DEF IInv, Shape
  <2>5. Opening'
    BY <1>1, <1>2, <2>1, <2>2, <2>3, ConsoleShellsAssumption DEF IInv, Opening
  <2>6. Closing' /\ OpenShellIsFound'
    BY <1>2, <2>2, <2>3 DEF IInv, Closing, OpenShellIsFound
  <2>. QED BY <2>4, <2>5, <2>6 DEF IInv
<1>4. CASE ~Live(k)
  <2>1. sessions[k] = None \/ ~shell[sessions[k]].open
    BY <1>1, <1>4 DEF Live, IInv, Closing
  <2>2. /\ socket' = [socket EXCEPT ![c] = [@ EXCEPT !.pc = "attach", !.shell = c]]
        /\ sessions' = [sessions EXCEPT ![k] = c]
        /\ reader' = [reader EXCEPT ![c] = [@ EXCEPT !.pc = "read"]]
        /\ shell' = shell
    BY <1>4 DEF Register
  <2>3. /\ \A d \in Sockets \ {c} : socket'[d] = socket[d] /\ reader'[d] = reader[d]
        /\ socket'[c].pc = "attach" /\ socket'[c].key = k /\ socket'[c].shell = c
        /\ reader'[c].pc = "read" /\ reader'[c].to = reader[c].to
        /\ sessions'[k] = c /\ \A q \in Keys \ {k} : sessions'[q] = sessions[q]
    BY <1>1, <2>2 DEF IInv, Shape
  <2>4. Shape'
    BY <1>1, <1>2, <2>2 DEF IInv, Shape
  <2>5. Opening'
    BY <1>1, <1>2, <2>2, <2>3, ConsoleShellsAssumption DEF IInv, Opening
  <2>6. Closing'
    BY <1>2, <2>2 DEF IInv, Closing
  <2>7. OpenShellIsFound'
    BY <1>1, <1>2, <2>1, <2>2, <2>3, ConsoleShellsAssumption DEF IInv, Opening, OpenShellIsFound
  <2>. QED BY <2>4, <2>5, <2>6, <2>7 DEF IInv
<1>. QED BY <1>3, <1>4

\* The remote shell and the loop that reads it open and close nothing.
LEMMA StepRead ==
  ASSUME IInv, NEW s \in Sockets,
         Prints(s) \/ RemoteEnds(s) \/ Broadcast(s) \/ BroadcastError(s) \/ ReadEnds(s) \/ \E c \in Sockets : Send(s, c)
  PROVE  IInv'
<1>1. CASE Prints(s)
  BY <1>1 DEF Prints, IInv, Shape, Opening, Closing, OpenShellIsFound
<1>2. CASE RemoteEnds(s)
  BY <1>2 DEF RemoteEnds, IInv, Shape, Opening, Closing, OpenShellIsFound
<1>3. CASE Broadcast(s)
  BY <1>3 DEF Broadcast, IInv, Shape, Opening, Closing, OpenShellIsFound
<1>4. CASE BroadcastError(s)
  BY <1>4 DEF BroadcastError, IInv, Shape, Opening, Closing, OpenShellIsFound
<1>5. CASE ReadEnds(s)
  BY <1>5 DEF ReadEnds, IInv, Shape, Opening, Closing, OpenShellIsFound
<1>6. ASSUME NEW c \in Sockets, Send(s, c)
      PROVE  IInv'
  <2>1. UNCHANGED <<sessions, shell, session, closer, socket>>
    BY <1>6 DEF Send
  <2>2. /\ c \in reader[s].to /\ DOMAIN reader'[s] = {"pc", "to", "event"}
        /\ reader'[s].pc \in {reader[s].pc, "close", "read"}
        /\ DOMAIN reader' = Sockets /\ \A t \in Sockets \ {s} : reader'[t] = reader[t]
    <3>. DEFINE pc == IF reader[s].to # {c} THEN reader[s].pc ELSE IF reader[s].event = Failed THEN "close" ELSE "read"
    <3>1. c \in reader[s].to /\ reader' = [reader EXCEPT ![s] = [@ EXCEPT !.to = reader[s].to \ {c}, !.pc = pc]]
      BY <1>6 DEF Send
    <3>2. pc \in {reader[s].pc, "close", "read"}
      OBVIOUS
    <3>. HIDE DEF pc
    <3>. QED BY <3>1, <3>2 DEF IInv, Shape
  <2>3. Shape'
    BY <2>1, <2>2 DEF IInv, Shape
  <2>4. reader[s].pc # "none" /\ reader'[s].pc # "none"
    BY <2>2 DEF IInv, Opening
  <2>5. Opening'
    BY <2>1, <2>2, <2>4 DEF IInv, Shape, Opening
  <2>6. Closing' /\ OpenShellIsFound'
    BY <2>1 DEF IInv, Closing, OpenShellIsFound
  <2>. QED BY <2>3, <2>5, <2>6 DEF IInv
<1>. QED BY <1>1, <1>2, <1>3, <1>4, <1>5, <1>6

\* Whoever closes a session that is registered closes its shell.
LEMMA CloseKeeps ==
  ASSUME IInv, NEW s \in Sockets, reader[s].pc # "none", NEW who, who # None, Close(s, who),
         UNCHANGED <<sessions, session>>,
         DOMAIN reader' = Sockets, DOMAIN socket' = Sockets,
         \A t \in Sockets : DOMAIN reader'[t] = {"pc", "to", "event"} /\ DOMAIN socket'[t] = {"pc", "key", "shell"},
         \A t \in Sockets : reader'[t] = reader[t] \/ (reader[t].pc # "none" /\ reader'[t].pc # "none"),
         \A t \in Sockets :
           \/ socket'[t] = socket[t]
           \/ /\ socket[t].pc = "loop" /\ socket'[t].pc = "closing"
              /\ socket'[t].key = socket[t].key /\ socket'[t].shell = socket[t].shell
  PROVE  IInv'
<1>1. /\ DOMAIN shell' = Sockets /\ DOMAIN closer' = Sockets
      /\ \A t \in Sockets \ {s} : shell'[t] = shell[t] /\ closer'[t] = closer[t]
      /\ DOMAIN shell'[s] = {"open", "remote", "out"} /\ DOMAIN closer'[s] = {"by", "pc", "to"}
      /\ ~shell'[s].open /\ closer'[s].by # None
  <2>1. CASE closer[s].by # None
    BY <2>1 DEF Close, IInv, Shape, Closing
  <2>2. CASE closer[s].by = None
    <3>1. /\ shell' = [shell EXCEPT ![s] = [@ EXCEPT !.open = FALSE]]
          /\ closer' = [closer EXCEPT ![s] = [@ EXCEPT !.by = who, !.pc = "forget"]]
      BY <2>2 DEF Close, CloseShell
    <3>. QED BY <3>1 DEF IInv, Shape
  <2>. QED BY <2>1, <2>2
<1>2. Shape'
  BY <1>1 DEF IInv, Shape
<1>3. Opening'
  BY <1>1 DEF IInv, Shape, Opening
<1>4. Closing'
  BY <1>1 DEF IInv, Closing
<1>5. OpenShellIsFound'
  BY <1>1 DEF IInv, OpenShellIsFound
<1>. QED BY <1>2, <1>3, <1>4, <1>5 DEF IInv

\* Everybody who closes a session, or goes on with its closing, has found it registered.
LEMMA StepClose ==
  ASSUME IInv, NEW s \in Sockets, ReaderCloses(s) \/ Forget(s) \/ Mark(s) \/ \E c \in Sockets : SendClosed(s, c)
  PROVE  IInv'
<1>1. CASE ReaderCloses(s)
  <2>1. /\ reader[s].pc = "close" /\ reader' = [reader EXCEPT ![s] = [@ EXCEPT !.pc = "ended"]]
        /\ Close(s, "reader") /\ UNCHANGED <<sessions, session, socket>>
    BY <1>1 DEF ReaderCloses
  <2>2. /\ reader'[s].pc = "ended" /\ DOMAIN reader' = Sockets
        /\ \A t \in Sockets : DOMAIN reader'[t] = {"pc", "to", "event"} /\ (t # s => reader'[t] = reader[t])
    BY <2>1 DEF IInv, Shape
  <2>3. \A t \in Sockets : DOMAIN reader'[t] = {"pc", "to", "event"} /\ DOMAIN socket'[t] = {"pc", "key", "shell"}
    BY <2>1, <2>2 DEF IInv, Shape
  <2>4. \A t \in Sockets : reader'[t] = reader[t] \/ (reader[t].pc # "none" /\ reader'[t].pc # "none")
    BY <2>1, <2>2
  <2>5. DOMAIN socket' = Sockets /\ reader[s].pc # "none" /\ "reader" # None /\ \A t \in Sockets : socket'[t] = socket[t]
    BY <2>1, ConsoleShellsAssumption DEF IInv, Shape
  <2>. QED BY <2>1, <2>2, <2>3, <2>4, <2>5, CloseKeeps
<1>2. CASE Forget(s)
  BY <1>2, ConsoleShellsAssumption DEF Forget, IInv, Shape, Opening, Closing, OpenShellIsFound
<1>3. CASE Mark(s)
  BY <1>3 DEF Mark, IInv, Shape, Opening, Closing, OpenShellIsFound
<1>4. ASSUME NEW c \in Sockets, SendClosed(s, c)
      PROVE  IInv'
  <2>1. UNCHANGED <<sessions, shell, session, reader, socket>>
    BY <1>4 DEF SendClosed
  <2>2. /\ c \in closer[s].to /\ DOMAIN closer'[s] = {"by", "pc", "to"} /\ closer'[s].by = closer[s].by
        /\ DOMAIN closer' = Sockets /\ \A t \in Sockets \ {s} : closer'[t] = closer[t]
    <3>. DEFINE pc == IF closer[s].to = {c} THEN "ended" ELSE "send"
    <3>1. c \in closer[s].to /\ closer' = [closer EXCEPT ![s] = [@ EXCEPT !.pc = pc, !.to = closer[s].to \ {c}]]
      BY <1>4 DEF SendClosed
    <3>. HIDE DEF pc
    <3>. QED BY <3>1 DEF IInv, Shape
  <2>3. Shape'
    BY <2>1, <2>2 DEF IInv, Shape
  <2>4. Opening' /\ Closing' /\ OpenShellIsFound'
    BY <2>1, <2>2 DEF IInv, Opening, Closing, OpenShellIsFound
  <2>. QED BY <2>3, <2>4 DEF IInv
<1>. QED BY <1>1, <1>2, <1>3, <1>4

\* A socket that is attached reads, leaves, or closes the session it is attached to.
LEMMA StepSocket ==
  ASSUME IInv, NEW c \in Sockets, EventNext(c) \/ ClientCloses(c) \/ InputEnds(c)
  PROVE  IInv'
<1>1. socket[c].pc \in {"attach", "loop", "closing"} =>
        socket[c].shell \in Sockets /\ reader[socket[c].shell].pc # "none"
  BY DEF IInv, Shape, Opening
<1>2. CASE Subscribe(c)
  BY <1>1, <1>2 DEF Subscribe, IInv, Shape, Opening, Closing, OpenShellIsFound
<1>3. CASE Forward(c)
  <2>1. UNCHANGED <<sessions, shell, reader, closer>>
    BY <1>3 DEF Forward
  <2>2. /\ DOMAIN session' = Sockets
        /\ \A s \in Sockets : DOMAIN session'[s] = {"done", "size", "subs"} /\ session'[s].done = session[s].done
    BY <1>1, <1>3 DEF Forward, Unsubscribe, IInv, Shape
  <2>3. /\ DOMAIN socket' = Sockets /\ \A d \in Sockets : DOMAIN socket'[d] = {"pc", "key", "shell"}
        /\ \A d \in Sockets \ {c} : socket'[d] = socket[d]
        /\ socket[c].pc \in {"loop", "closing"} /\ socket'[c].pc \in {socket[c].pc, "ended"}
        /\ socket'[c].key = socket[c].key /\ socket'[c].shell = socket[c].shell
    BY <1>3 DEF Forward, IInv, Shape
  <2>4. Shape'
    BY <2>1, <2>2, <2>3 DEF IInv, Shape
  <2>5. Opening' /\ Closing' /\ OpenShellIsFound'
    BY <2>1, <2>2, <2>3 DEF IInv, Opening, Closing, OpenShellIsFound
  <2>. QED BY <2>4, <2>5 DEF IInv
<1>4. CASE EventsEnd(c)
  BY <1>1, <1>4 DEF EventsEnd, Unsubscribe, IInv, Shape, Opening, Closing, OpenShellIsFound
<1>5. CASE ClientCloses(c)
  <2>1. /\ socket[c].pc = "loop" /\ socket' = [socket EXCEPT ![c] = [@ EXCEPT !.pc = "closing"]]
        /\ Close(socket[c].shell, c) /\ UNCHANGED <<sessions, session, reader>>
    BY <1>5 DEF ClientCloses
  <2>2. /\ socket'[c].pc = "closing" /\ socket'[c].key = socket[c].key /\ socket'[c].shell = socket[c].shell
        /\ DOMAIN socket' = Sockets
        /\ \A d \in Sockets : DOMAIN socket'[d] = {"pc", "key", "shell"} /\ (d # c => socket'[d] = socket[d])
    BY <2>1 DEF IInv, Shape
  <2>3. c # None /\ socket[c].shell \in Sockets /\ reader[socket[c].shell].pc # "none"
    BY <1>1, <2>1, ConsoleShellsAssumption
  <2>4. \A t \in Sockets : DOMAIN reader'[t] = {"pc", "to", "event"} /\ DOMAIN socket'[t] = {"pc", "key", "shell"}
    BY <2>1, <2>2 DEF IInv, Shape
  <2>5. DOMAIN reader' = Sockets /\ \A t \in Sockets : reader'[t] = reader[t]
    BY <2>1 DEF IInv, Shape
  <2>6. \A t \in Sockets :
          \/ socket'[t] = socket[t]
          \/ /\ socket[t].pc = "loop" /\ socket'[t].pc = "closing"
             /\ socket'[t].key = socket[t].key /\ socket'[t].shell = socket[t].shell
    BY <2>1, <2>2
  <2>. QED BY <2>1, <2>2, <2>3, <2>4, <2>5, <2>6, CloseKeeps
<1>6. CASE InputEnds(c)
  BY <1>1, <1>6 DEF InputEnds, Unsubscribe, IInv, Shape, Opening, Closing, OpenShellIsFound
<1>. QED BY <1>2, <1>3, <1>4, <1>5, <1>6 DEF EventNext

\* Every step keeps the inductive invariant.
LEMMA NextIInv == IInv /\ [Next]_vars => IInv'
<1>. SUFFICES ASSUME IInv, [Next]_vars
              PROVE  IInv'
  OBVIOUS
<1>1. CASE UNCHANGED vars
  BY <1>1 DEF vars, IInv, Shape, Opening, Closing, OpenShellIsFound
<1>2. ASSUME NEW c \in Sockets,
             (\E k \in Keys : Look(c, k)) \/ OpenNext(c) \/ EventNext(c) \/ ClientCloses(c) \/ InputEnds(c)
      PROVE  IInv'
  BY <1>2, StepOpen, StepRegister, StepSocket DEF OpenNext
<1>3. ASSUME NEW s \in Sockets, Prints(s) \/ RemoteEnds(s) \/ ReadNext(s) \/ CloseNext(s)
      PROVE  IInv'
  BY <1>3, StepRead, StepClose DEF ReadNext, CloseNext
<1>. QED BY <1>1, <1>2, <1>3 DEF Next

\* A shell that is open is about to be registered or is found under its key, however
\* opens, ends and closes race.
THEOREM ShellsFound == Spec => []OpenShellIsFound
<1>1. IInv => OpenShellIsFound
  BY DEF IInv
<1>. QED BY <1>1, InitIInv, NextIInv, PTL DEF Spec
=============================================================================
