----------------------------- MODULE Selections -----------------------------
(***************************************************************************)
(* Selecting and sorting what a sequence holds, by the places: a place     *)
(* comes after as many as are up to it.                                    *)
(***************************************************************************)
EXTENDS Naturals, Sequences, FiniteSets

(* The elements at the places of upto's domain; upto[i] are the places     *)
(* that come no later than i, i itself among them.                         *)
Arranged(s, upto) ==
  [k \in 1..Cardinality(DOMAIN upto) |->
    s[CHOOSE i \in DOMAIN upto : Cardinality(upto[i]) = k]]

(* The elements at the places kept, in their order.                        *)
Picked(s, kept) == Arranged(s, [i \in kept |-> {j \in kept : j <= i}])
=============================================================================
