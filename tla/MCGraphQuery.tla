----------------------------- MODULE MCGraphQuery ---------------------------
(* The symbols and texts of MCGraphSync, one symbol the beginning of the   *)
(* other; a search for either, and for both joined either way.             *)
EXTENDS GraphQuery, MCGraphSync

ImportedDef == [v \in Contents |-> IF v \in Garbled THEN {} ELSE {n2}]
BegunDef == n1 :> {n1, n2} @@ n2 :> {n2}
QueriesDef == [words : {{n1}, {n2}}, joined : {FALSE}] \cup [words : {Names}, joined : BOOLEAN]
LookupsDef ==
    {[name |-> n1, kind |-> "callers", declare |-> TRUE],
     [name |-> n2, kind |-> "imports", declare |-> FALSE],
     [name |-> n2, kind |-> "all", declare |-> TRUE],
     [name |-> n2, kind |-> "callees", declare |-> FALSE]}

(* A query under way takes a step or is overtaken by a commit: it reads    *)
(* nothing that the other steps change.                                    *)
QueriesArePrompt == query # NoQuery => query' # query
=============================================================================
