------------------------------- MODULE Routing -------------------------------
(***************************************************************************)
(* How the gateway turns the models a request names into the list of       *)
(* candidates it will try: filters first, then a stable sort.              *)
(*                                                                         *)
(* A candidate is a route with its provider and prices as they were read:  *)
(* [model, index, provider, served, prompt, completion, priority, weight,  *)
(* protocols], served being the protocols of its provider.  Preferences    *)
(* are [only, ignore, order, fallbacks, require, maxPrompt, maxCompletion, *)
(* sort]; an empty set, an empty sequence or 0 expresses no preference.    *)
(***************************************************************************)
EXTENDS Integers, Sequences, SequencesExt, Ordered

\* RouteAllowedProtocols: a route that names none may be asked in its provider's.
AllowedProtocols(c) == IF c.protocols = {} THEN c.served ELSE c.protocols

\* The parameters a route takes, by the protocols it may be asked in.
SupportedParameters(c) ==
  {"tools", "max_tokens"}
    \cup (IF "anthropic" \in AllowedProtocols(c) THEN {"top_k"} ELSE {})
    \cup (IF AllowedProtocols(c) # {"anthropic"} THEN {"seed"} ELSE {})

WithinLimits(c, prefs) ==
  /\ prefs.maxPrompt > 0 => c.prompt <= prefs.maxPrompt
  /\ prefs.maxCompletion > 0 => c.completion <= prefs.maxCompletion

\* Mutant: provider.ignore is not looked at when provider.only is given.
EligibleOnlyFirst(c, prefs) ==
  /\ prefs.only # {} => c.provider \in prefs.only
  /\ prefs.only = {} => c.provider \notin prefs.ignore
  /\ prefs.require \subseteq SupportedParameters(c)
  /\ WithinLimits(c, prefs)
  /\ prefs.order # <<>> /\ ~prefs.fallbacks => c.provider \in ToSet(prefs.order)

Eligible(c, prefs) ==
  /\ prefs.only # {} => c.provider \in prefs.only
  /\ c.provider \notin prefs.ignore
  /\ prefs.require \subseteq SupportedParameters(c)
  /\ WithinLimits(c, prefs)
  /\ prefs.order # <<>> /\ ~prefs.fallbacks => c.provider \in ToSet(prefs.order)

\* The place of a provider in the requested order; the others come last.
Rank(provider, order) ==
  IF \E i \in DOMAIN order : order[i] = provider
  THEN CHOOSE i \in DOMAIN order : order[i] = provider
  ELSE Len(order) + 1

Price(c) == c.prompt + c.completion

\* compareCandidateSort: what the requested sort decides, if anything.
Preferred(a, b, sort) ==
  \/ sort = "price" /\ Price(a) < Price(b)
  \/ sort \in {"priority", "latency"} /\ a.priority < b.priority
  \/ sort = "throughput" /\ a.weight > b.weight

\* The order of attempts.  Model indices differ, so they decide every tie.
Before(a, b, prefs) ==
  LET ra == Rank(a.provider, prefs.order)
      rb == Rank(b.provider, prefs.order)
  IN  \/ ra < rb
      \/ ra = rb /\ Preferred(a, b, prefs.sort)
      \/ ra = rb /\ ~Preferred(b, a, prefs.sort) /\ a.index < b.index

Select(candidates, prefs) ==
  LET eligible == {c \in ToSet(candidates) : Eligible(c, prefs)}
  IN  InOrder(eligible, {p \in eligible \X eligible : Before(p[1], p[2], prefs)})

-----------------------------------------------------------------------------
\* What a client may rely on: the list holds every candidate its preferences
\* allow and no other, no model twice, providers it ordered come first and in its
\* order, and within a provider's rank nothing precedes what the sort prefers.
Honours(chain, candidates, prefs) ==
  LET allowed == {c \in ToSet(candidates) :
                    /\ c.provider \notin prefs.ignore
                    /\ prefs.only # {} => c.provider \in prefs.only
                    /\ ~prefs.fallbacks /\ prefs.order # <<>> =>
                         \E i \in DOMAIN prefs.order : prefs.order[i] = c.provider
                    /\ \A p \in prefs.require : p \in SupportedParameters(c)
                    /\ prefs.maxPrompt \in 1 .. (c.prompt - 1) => FALSE
                    /\ prefs.maxCompletion \in 1 .. (c.completion - 1) => FALSE}
      ranks   == [i \in DOMAIN chain |-> SelectInSeq(prefs.order, LAMBDA p : p = chain[i].provider)]
  IN  /\ ToSet(chain) = allowed
      /\ \A i, j \in DOMAIN chain : i < j =>
           /\ chain[i].model # chain[j].model
           /\ ranks[j] > 0 => ranks[i] \in 1 .. ranks[j]
           /\ ranks[i] = ranks[j] =>
                CASE prefs.sort = "price" -> Price(chain[i]) <= Price(chain[j])
                  [] prefs.sort \in {"priority", "latency"} -> chain[i].priority <= chain[j].priority
                  [] prefs.sort = "throughput" -> chain[i].weight >= chain[j].weight
                  [] OTHER -> chain[i].index < chain[j].index
=============================================================================
