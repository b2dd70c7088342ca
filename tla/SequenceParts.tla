---------------------------- MODULE SequenceParts ----------------------------
(***************************************************************************)
(* What the daemon leaves of a list when it takes elements out: the others *)
(* in their order.                                                         *)
(***************************************************************************)
EXTENDS Naturals, Sequences, FiniteSets

Elements(s) == {s[i] : i \in 1..Len(s)}

\* Where s has elements of S, and which of the places are not after i.
Places(s, S) == {i \in 1..Len(s) : s[i] \in S}
UpTo(places, i) == {j \in places : j <= i}

\* The elements of s that are in S, in their order.
Selection(s, S) ==
  LET places == Places(s, S) IN
  [n \in 1..Cardinality(places) |-> s[CHOOSE i \in places : Cardinality(UpTo(places, i)) = n]]
=============================================================================
