---------------------------- MODULE MCInvariants ----------------------------
(***************************************************************************)
(* Instances for TLC of what only needs invariants: a conversation and a   *)
(* stream of the Responses API, two users of an agent's workspace, and an  *)
(* agent's shells.  They are explored one at a time and share no state; all *)
(* but the shells use the same variables.                                  *)
(***************************************************************************)
EXTENDS AssShells, MCAgentFiles

CONSTANTS id1, id2 \* identifiers of calls

VARIABLE part

shared == <<content, op, work, console, current>> \* of the workspace and the others
rest == <<tree, pc, answer>>                      \* of the workspace only

Talk == INSTANCE Conversation WITH
  Ids <- {id1, id2}, MaxItems <- 6, items <- op, wantsReasoning <- current

Stream == INSTANCE ResponsesStream WITH
  MaxChunks <- 4, whole <- op, state <- console, events <- work, chunks <- content, phase <- current

MCInit ==
  /\ Init
  /\ \/ part = "files" /\ WInit
     \/ /\ tree = <<>>
        /\ pc = [r \in Requests |-> "none"]
        /\ answer = [r \in Requests |-> [code |-> "none"]]
        /\ \/ part = "talk" /\ Talk!CInit /\ content = 0 /\ work = 0 /\ console = 0
           \/ part = "stream" /\ Stream!SInit
           \/ part = "shells" /\ content = 0 /\ op = 0 /\ work = 0 /\ console = 0 /\ current = 0

MCNext ==
  /\ UNCHANGED part
  /\ \/ part = "shells" /\ Next /\ UNCHANGED <<shared, rest>>
     \/ /\ UNCHANGED vars
        /\ \/ part = "files" /\ FilesNext
           \/ part = "talk" /\ Talk!CNext /\ UNCHANGED <<rest, content, work, console>>
           \/ part = "stream" /\ Stream!SNext /\ UNCHANGED rest

MCSpec == MCInit /\ [][MCNext]_<<part, vars, shared, rest>>

Symmetry == Permutations({id1, id2})

ToolsPaired == part = "talk" => Talk!ToolsPaired
NothingSaidIsLost == part = "talk" => Talk!NothingSaidIsLost
StreamedAsWhole == part = "stream" => Stream!StreamedAsWhole
=============================================================================
