-------------------------------- MODULE KeyAdmin --------------------------------
(***************************************************************************)
(* The API keys under the console's administrators                         *)
(* (internal/console/handlers.go, internal/storage/memory.go).  Creating a *)
(* key makes a secret and stores the key under the secret's hash; rotating,*)
(* editing and disabling one read the key, change a copy and store the     *)
(* copy whole, so the last of two administrators wins, with everything it  *)
(* had read.  A secret stands for its hash; keys are numbered as created.  *)
(***************************************************************************)
EXTENDS Naturals, FiniteSets, Functions, ConsoleBase

CONSTANTS
  ListLimit,  \* keys a console lists, and finds one among: 200 in the code
  MaxSecrets, \* bound: secrets made in a behaviour
  MaxEdits    \* bound: rotations, edits and disablings of a behaviour

VARIABLES
  keys,    \* the store: secret -> key
  change,      \* [Admins -> request]: what it does, and the key as it read it
  secrets, \* secrets made so far, numbered
  edits    \* requests that have read a key so far

kvars == <<keys, change, secrets, edits>>

NoOp == [kind |-> "none", secret |-> 0, key |-> None]

KInit ==
  /\ keys = [s \in {} |-> None]
  /\ change = [a \in Admins |-> NoOp]
  /\ secrets = 0
  /\ edits = 0

Ids == {keys[s].id : s \in DOMAIN keys}

\* Mutant: the entry under the former secret stays.
PutBeside(secret, key) ==
  [s \in DOMAIN keys \cup {secret} |-> IF s = secret THEN key ELSE keys[s]]

\* MemoryStore.CreateAPIKey: the key leaves every other secret it was stored under.
CreateAPIKey(secret, key) ==
  LET kept == {s \in DOMAIN keys : keys[s].id # key.id} IN
  [s \in kept \cup {secret} |-> IF s = secret THEN key ELSE keys[s]]

\* A new key: the secret is shown once, in the answer.
Create ==
  /\ secrets < MaxSecrets
  /\ secrets' = secrets + 1
  /\ keys' = CreateAPIKey(secrets + 1, [id |-> secrets + 1, active |-> TRUE, limit |-> 0])
  /\ UNCHANGED <<change, edits>>

\* The newest keys, as the store lists them.
Listed == {i \in Ids : Cardinality({j \in Ids : j > i}) < ListLimit}

\* apiKeyByID: a key beyond the list is not found.
Read(a, kind) ==
  /\ change[a] = NoOp /\ edits < MaxEdits
  /\ edits' = edits + 1
  /\ \E s \in DOMAIN keys :
       /\ keys[s].id \in Listed
       /\ change' = [change EXCEPT ![a] = [kind |-> kind, secret |-> s, key |-> keys[s]]]
  /\ UNCHANGED <<keys, secrets>>

Done(a) == change' = [change EXCEPT ![a] = NoOp]

\* The store refuses the write.
Unstored(a) == change[a] # NoOp /\ Done(a) /\ UNCHANGED <<keys, secrets, edits>>

\* rotateAPIKey: whatever else the key was, it stays, a disabled one disabled.
Rotate(a) ==
  /\ change[a].kind = "rotate" /\ secrets < MaxSecrets
  /\ secrets' = secrets + 1
  /\ keys' = CreateAPIKey(secrets + 1, change[a].key)
  /\ Done(a) /\ UNCHANGED edits

Update(a) ==
  /\ change[a].kind = "update"
  /\ \E limit \in {0, 1} : keys' = CreateAPIKey(change[a].secret, [change[a].key EXCEPT !.limit = limit])
  /\ Done(a) /\ UNCHANGED <<secrets, edits>>

Disable(a) ==
  /\ change[a].kind = "disable"
  /\ keys' = CreateAPIKey(change[a].secret, [change[a].key EXCEPT !.active = FALSE])
  /\ Done(a) /\ UNCHANGED <<secrets, edits>>

KNext ==
  \/ Create
  \/ \E a \in Admins :
       \/ \E kind \in {"rotate", "update", "disable"} : Read(a, kind)
       \/ Unstored(a) \/ Rotate(a) \/ Update(a) \/ Disable(a)

KSpec == KInit /\ [][KNext]_kvars

\* The secrets the gateway accepts.
Accepted == {s \in DOMAIN keys : keys[s].active}

\* However administrators overlap, a key has one secret, and a secret comes to be accepted
\* only when it is made, or by a request that had read it while it was: a rotation or a
\* disabling that has been answered is undone by nothing that began after it.
AccessStep ==
  /\ \A s, t \in DOMAIN keys' : keys'[s].id = keys'[t].id => s = t
  /\ \A s \in Accepted' \ Accepted :
       \/ s > secrets
       \/ \E a \in Admins : change[a].secret = s /\ change[a].key.active
AccessIsGranted == [][AccessStep]_kvars
================================================================================
