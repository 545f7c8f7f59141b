----------------------------- MODULE MCGraphSync ----------------------------
(* Two symbols, two texts of one length that define one and use the other, *)
(* and, where it is among the contents, one that is not legible.           *)
EXTENDS GraphSync, TLC

CONSTANTS n1, n2, v1, v2, v3

DefsDef == [v \in Contents |-> CASE v = v1 -> {n1} [] v = v2 -> {n2} [] OTHER -> {}]
RefsDef == [v \in Contents |-> CASE v = v1 -> {n2} [] v = v2 -> {n1, n2} [] OTHER -> {}]
SizeOfDef == [v \in Contents |-> 1]

Symmetry == Permutations(Files)
=============================================================================
