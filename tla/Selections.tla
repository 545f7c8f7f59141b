----------------------------- MODULE Selections -----------------------------
(***************************************************************************)
(* Selections of a sequence, by their places: what retain, remove, filter  *)
(* and INSERT OR IGNORE leave of a list. The n-th of what is left stands   *)
(* at the place that has n-1 of the others before it.                      *)
(***************************************************************************)
EXTENDS Naturals, FiniteSets, Sequences

(* How many of some places are no later than a place.                      *)
Rank(places, i) == Cardinality({k \in places : k <= i})
Nth(places, n) == CHOOSE i \in places : Rank(places, i) = n

Those(seq, places) == [n \in 1 .. Cardinality(places) |-> seq[Nth(places, n)]]

Only(seq, values) == Those(seq, {i \in DOMAIN seq : seq[i] \in values})
Without(seq, values) == Those(seq, {i \in DOMAIN seq : seq[i] \notin values})
=============================================================================
