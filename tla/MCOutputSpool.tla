--------------------------- MODULE MCOutputSpool ----------------------------
(* Runs of one size, of one session, and a second session that asks too.   *)
EXTENDS OutputSpool, TLC

CONSTANT Owner

OwnerOfDef == [r \in Runs |-> Owner]
LogBytesDef == [r \in Runs |-> 1]

Symmetry == Permutations(Runs) \cup Permutations(Jobs)
=============================================================================
