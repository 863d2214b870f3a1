---------------------------- MODULE Subsequences ----------------------------
(* What filtering a sequence leaves (Vec::retain, Iterator::filter), said
   without recursion: its members at some of its places, in their order.      *)
EXTENDS Integers, FiniteSets, Sequences

\* The place with n of the places up to it is the n-th.
AtPlaces(s, places) ==
    [n \in 1 .. Cardinality(places) |->
        s[CHOOSE i \in places : Cardinality({j \in places : j <= i}) = n]]
=============================================================================
