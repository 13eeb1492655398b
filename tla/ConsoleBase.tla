----------------------------- MODULE ConsoleBase -----------------------------
(***************************************************************************)
(* What the modules of the console have in common: who asks, and what can  *)
(* fail on the way.                                                        *)
(***************************************************************************)
EXTENDS Naturals, FiniteSets

CONSTANTS
  Admins,    \* administrators with a page open
  Requests,  \* requests, of administrators or of a user
  None,      \* nothing there
  Faults,    \* the kinds of faults that may occur: a module names those it knows
  MaxFaults  \* bound: faults of one behaviour

VARIABLE spent \* the faults that have occurred, each once

Fault(f) == f \in Faults \ spent /\ Cardinality(spent) < MaxFaults /\ spent' = spent \cup {f}
==============================================================================
