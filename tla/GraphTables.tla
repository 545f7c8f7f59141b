----------------------------- MODULE GraphTables ----------------------------
(***************************************************************************)
(* The code graph of one project in SQLite (core/graph/graph_schema.sql)   *)
(* and the operations one transaction is made of: inserting, purging and   *)
(* re-parsing a file, resolving references, rebuilding the search index.   *)
(* A table is a set of rows; a node is named by its file and symbol, and a *)
(* file's own node by the file.                                            *)
(***************************************************************************)
EXTENDS Naturals

CONSTANTS
    Files,       \* supported files of the project that no ignore rule hides
    Contents,
    Names,       \* symbol names
    Defs,        \* content -> the symbols it defines
    Refs,        \* content -> the names it calls or imports
    SizeOf,      \* content -> its length
    NoRow

ASSUME SyntaxAssumption ==
    /\ Defs \in [Contents -> SUBSET Names]
    /\ Refs \in [Contents -> SUBSET Names]
    /\ SizeOf \in [Contents -> Nat]

Stat == [size : Nat, mtime : Nat]

(* A files row. content stands for content_hash: the hash of what was      *)
(* parsed, here without collisions.                                        *)
Row == [content : Contents, stat : Stat]

ASSUME NoRowAssumption == NoRow \notin Row

Edge == [kind : {"contains", "refers"}, from : Files, to : Files \X Names]

Tables ==
    [files : [Files -> Row \cup {NoRow}],
     nodes : SUBSET (Files \X Names),
     refs : SUBSET (Files \X Names),
     edges : SUBSET Edge,
     fts : SUBSET (Files \X Names)]

Tracked(t, f) == t.files[f] # NoRow

ContainsEdges(nodes) == {[kind |-> "contains", from |-> n[1], to |-> n] : n \in nodes}

ReferEdges(refs, nodes) ==
    {[kind |-> "refers", from |-> p[1][1], to |-> p[2]] :
        p \in {p \in refs \X nodes : p[1][2] = p[2][2]}}

(* What a fresh database holds, or one clear_project_data has emptied. The *)
(* search index is not cleared: it keeps rows until it is rebuilt.         *)
Cleared(fts) ==
    [files |-> [f \in Files |-> NoRow], nodes |-> {}, refs |-> {}, edges |-> {}, fts |-> fts]

(* collect_symbols: the nodes, contains edges and unresolved refs of f.    *)
WithSymbols(t, f, row) ==
    LET nodes == {f} \X Defs[row.content]
    IN [files |-> [t.files EXCEPT ![f] = row],
        nodes |-> t.nodes \cup nodes,
        refs |-> t.refs \cup ({f} \X Refs[row.content]),
        edges |-> t.edges \cup ContainsEdges(nodes),
        fts |-> t.fts]

(* purge_file_data: the nodes go, and by the foreign keys every edge from  *)
(* or to one of them, the edges of other files included.                   *)
Purge(t, f) ==
    [files |-> t.files,
     nodes |-> {n \in t.nodes : n[1] # f},
     refs |-> {r \in t.refs : r[1] # f},
     edges |-> {e \in t.edges : e.from # f /\ e.to[1] # f},
     fts |-> t.fts]

(* Insert a new file, or purge and re-parse a modified one.                *)
InsertFile(t, f, row) == WithSymbols(t, f, row)
ReindexFile(t, f, row) == WithSymbols(Purge(t, f), f, row)

(* Mistake: the update clears the hash as well.                            *)
TouchFileClearingHash(t, f, stat) ==
    [t EXCEPT !.files = [@ EXCEPT ![f] = [content |-> NoRow, stat |-> stat]]]

(* Stat noise: only size_bytes and mtime_unix are updated.                 *)
TouchFile(t, f, stat) == [t EXCEPT !.files[f].stat = stat]

(* The tail of sync_files: tracked files the walk did not see are removed. *)
DeleteFiles(t, gone) ==
    [files |-> [f \in Files |-> IF f \in gone THEN NoRow ELSE t.files[f]],
     nodes |-> {n \in t.nodes : n[1] \notin gone},
     refs |-> {r \in t.refs : r[1] \notin gone},
     edges |-> {e \in t.edges : e.from \notin gone /\ e.to[1] \notin gone},
     fts |-> t.fts]

(* resolve_reference_edges: drop the resolved edges, then join again.      *)
Resolve(t) ==
    [t EXCEPT !.edges = {e \in @ : e.kind = "contains"} \cup ReferEdges(t.refs, t.nodes)]

RefreshFts(t) == [t EXCEPT !.fts = t.nodes]

(* Every table follows from the files table: the symbols of what was last  *)
(* parsed of each file, the references resolved among all of them, and the *)
(* search index over all of them.                                          *)
Consistent(t) ==
    /\ t.nodes = {n \in Files \X Names : Tracked(t, n[1]) /\ n[2] \in Defs[t.files[n[1]].content]}
    /\ t.refs = {r \in Files \X Names : Tracked(t, r[1]) /\ r[2] \in Refs[t.files[r[1]].content]}
    /\ t.edges = ContainsEdges(t.nodes) \cup ReferEdges(t.refs, t.nodes)
    /\ t.fts = t.nodes
=============================================================================
