----------------------------- MODULE MCReadCache ----------------------------
(* Hashes that tell the model's contents apart.                            *)
EXTENDS ReadCache, TLC

HashOfDef == [v \in Contents |-> <<"fnv", v>>]
HashesDef == {HashOfDef[v] : v \in Contents}

Symmetry == Permutations(Conns) \cup Permutations(Sessions) \cup Permutations(Requests)
           \cup Permutations(Files) \cup Permutations(Contents)
=============================================================================
