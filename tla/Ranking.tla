------------------------------- MODULE Ranking -------------------------------
(* Finite sets in an order: the pool enumerates slots by index or by age.  *)
EXTENDS Integers, FiniteSets

(* Members of S that come before s. *)
Rank(S, before(_, _), s) == Cardinality({t \in S : before(t, s)})

(* The sequence of the members of S under a strict total order. *)
InOrder(S, before(_, _)) ==
  [i \in 1 .. Cardinality(S) |-> CHOOSE s \in S : Rank(S, before, s) = i - 1]

(* The sequence of the members of S by their keys, members with equal keys *)
(* in ascending order.                                                     *)
ByKey(S, key) ==
  InOrder(S, LAMBDA t, s : key[t] < key[s] \/ (key[t] = key[s] /\ t < s))

(* The first n members of S in that order; all of S when n is larger. *)
FirstOf(S, before(_, _), n) == {s \in S : Rank(S, before, s) < n}
=============================================================================
