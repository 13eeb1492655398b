-------------------------------- MODULE Fanout --------------------------------
(***************************************************************************)
(* How the agent's and the console's shell sessions hand out their output: *)
(* a bounded replay, and a bounded channel per subscriber that is offered  *)
(* each event and never waited for.  A channel is a record [queue, closed].*)
(***************************************************************************)
EXTENDS Integers, Sequences

NoEvents == [queue |-> <<>>, closed |-> FALSE]

\* Mutant: what does not fit is cut off at the end.
KeepFirst(outputs, limit) ==
  SubSeq(outputs, 1, IF Len(outputs) > limit THEN limit ELSE Len(outputs))

\* The last limit outputs.
KeepLast(outputs, limit) ==
  SubSeq(outputs, IF Len(outputs) > limit THEN Len(outputs) - limit + 1 ELSE 1, Len(outputs))

Room(ch, cap) == Len(ch.queue) < cap

\* A send that never waits: what finds no room is lost.
Offered(ch, event, cap) == IF Room(ch, cap) THEN [ch EXCEPT !.queue = Append(@, event)] ELSE ch

\* The last event is offered and the channel closed.
ClosedWith(ch, event, cap) == [Offered(ch, event, cap) EXCEPT !.closed = TRUE]
=============================================================================
