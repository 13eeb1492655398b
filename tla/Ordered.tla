------------------------------- MODULE Ordered -------------------------------
(***************************************************************************)
(* The members of a finite set in the order of a relation, which is a set  *)
(* of pairs: what sorting them returns when the order is strict and total, *)
(* without saying how it is done.                                          *)
(***************************************************************************)
EXTENDS Naturals, FiniteSets

InOrder(S, R) ==
  CHOOSE s \in [1 .. Cardinality(S) -> S] :
    \A k, l \in 1 .. Cardinality(S) : k < l => <<s[k], s[l]>> \in R
=============================================================================
