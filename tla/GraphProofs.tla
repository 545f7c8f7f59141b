---------------------------- MODULE GraphProofs -----------------------------
(***************************************************************************)
(* The committed graph follows from the texts of the files it tracks after *)
(* any series of full indexes, partial syncs, edits and failures, and the  *)
(* stat pre-filter is safe while no file is written under its own index or *)
(* twice in a second. Queries leave the graph alone, so that the same holds *)
(* beside them; and an answer that no commit fell into says what the texts *)
(* last parsed say: for any number of files, texts, symbols, queries and   *)
(* limits.                                                                 *)
(***************************************************************************)
EXTENDS GraphQuery, FiniteSetTheorems, TLAPS

(* The graph                                                               *)

(* What a transaction keeps of Consistent while it walks: references are   *)
(* unresolved, or resolved to what was there before, until it commits.     *)
DerivedBut(t, f) ==
    /\ t.nodes = {n \in Files \X Names :
                    n[1] # f /\ Tracked(t, n[1]) /\ n[2] \in Defs[t.files[n[1]].content]}
    /\ t.refs = {r \in Files \X Names :
                    r[1] # f /\ Tracked(t, r[1]) /\ r[2] \in Refs[t.files[r[1]].content]}
    /\ {e \in t.edges : e.kind = "contains"} = ContainsEdges(t.nodes)

Derived(t) ==
    /\ t.nodes = {n \in Files \X Names : Tracked(t, n[1]) /\ n[2] \in Defs[t.files[n[1]].content]}
    /\ t.refs = {r \in Files \X Names : Tracked(t, r[1]) /\ r[2] \in Refs[t.files[r[1]].content]}
    /\ {e \in t.edges : e.kind = "contains"} = ContainsEdges(t.nodes)

-----------------------------------------------------------------------------
(* The operations of a transaction                                         *)

(* Edges are edges.                                                        *)
LEMMA EdgeTypes ==
    ASSUME NEW nodes \in SUBSET (Files \X Names), NEW refs \in SUBSET (Files \X Names)
    PROVE  /\ ContainsEdges(nodes) \in SUBSET Edge
           /\ ReferEdges(refs, nodes) \in SUBSET Edge
           /\ \A e \in ContainsEdges(nodes) : e.kind = "contains"
           /\ \A e \in ReferEdges(refs, nodes) : e.kind = "refers"
BY DEF ContainsEdges, ReferEdges, Edge

(* Cleared tables are tables, and say nothing of any file.                 *)
LEMMA ClearedDerived ==
    ASSUME NEW fts \in SUBSET (Files \X Names)
    PROVE  /\ Cleared(fts) \in Tables
           /\ Derived(Cleared(fts))
           /\ \A f \in Files : ~Tracked(Cleared(fts), f)
BY DEF Cleared, Tables, Derived, Tracked, ContainsEdges

(* Consistent tables are derived ones.                                     *)
LEMMA ConsistentDerived ==
    ASSUME NEW t \in Tables, Consistent(t)
    PROVE  Derived(t)
<1>1. t.nodes \in SUBSET (Files \X Names) /\ t.refs \in SUBSET (Files \X Names)
  BY DEF Tables
<1>2. {e \in t.edges : e.kind = "contains"} = ContainsEdges(t.nodes)
  BY <1>1, EdgeTypes DEF Consistent
<1> QED
  BY <1>2 DEF Consistent, Derived

(* What a commit rebuilds from derived tables is consistent.               *)
LEMMA RebuildConsistent ==
    ASSUME NEW t \in Tables, Derived(t)
    PROVE  /\ RefreshFts(Resolve(t)) \in Tables
           /\ Consistent(RefreshFts(Resolve(t)))
           /\ RefreshFts(Resolve(t)).files = t.files
<1> DEFINE edges == {e \in t.edges : e.kind = "contains"} \cup ReferEdges(t.refs, t.nodes)
           u == RefreshFts(Resolve(t))
<1>1. t = [files |-> t.files, nodes |-> t.nodes, refs |-> t.refs, edges |-> t.edges,
           fts |-> t.fts]
  BY DEF Tables
<1>2. u = [files |-> t.files, nodes |-> t.nodes, refs |-> t.refs, edges |-> edges,
           fts |-> t.nodes]
  <2>1. Resolve(t) = [files |-> t.files, nodes |-> t.nodes, refs |-> t.refs, edges |-> edges,
                      fts |-> t.fts]
    BY <1>1 DEF Resolve
  <2> HIDE DEF edges
  <2> QED
    BY <2>1 DEF RefreshFts
<1>3. edges \in SUBSET Edge
  BY EdgeTypes DEF Tables
<1>4. edges = ContainsEdges(t.nodes) \cup ReferEdges(t.refs, t.nodes)
  BY DEF Derived
<1> HIDE DEF edges, u
<1>5. u \in Tables
  BY <1>2, <1>3 DEF Tables
<1>6. Consistent(u)
  BY <1>2, <1>4 DEF Consistent, Derived, Tracked
<1> QED
  BY <1>2, <1>5, <1>6 DEF u

(* Writing what was parsed of a file that the other tables say nothing of  *)
(* makes the tables derived.                                               *)
LEMMA WithSymbolsDerived ==
    ASSUME NEW t \in Tables, NEW f \in Files, NEW row \in Row, DerivedBut(t, f)
    PROVE  /\ WithSymbols(t, f, row) \in Tables
           /\ Derived(WithSymbols(t, f, row))
           /\ WithSymbols(t, f, row).files = [t.files EXCEPT ![f] = row]
<1> DEFINE u == WithSymbols(t, f, row)
           nodes == {f} \X Defs[row.content]
           refs == {f} \X Refs[row.content]
<1>1. row.content \in Contents /\ row # NoRow
  BY NoRowAssumption DEF Row
<1>2. nodes \in SUBSET (Files \X Names) /\ refs \in SUBSET (Files \X Names)
  BY <1>1, SyntaxAssumption
<1>3. u = [files |-> [t.files EXCEPT ![f] = row], nodes |-> t.nodes \cup nodes,
           refs |-> t.refs \cup refs, edges |-> t.edges \cup ContainsEdges(nodes),
           fts |-> t.fts]
  BY DEF WithSymbols
<1>4. ContainsEdges(nodes) \in SUBSET Edge /\ \A e \in ContainsEdges(nodes) : e.kind = "contains"
  BY <1>2, EdgeTypes
<1>5. t.files \in [Files -> Row \cup {NoRow}]
  BY DEF Tables
<1>6. /\ Tracked(u, f) /\ u.files[f].content = row.content
      /\ \A g \in Files \ {f} : u.files[g] = t.files[g]
  BY <1>5, <1>1, <1>3 DEF Tracked
<1>7. t.nodes \cup nodes
        = {n \in Files \X Names : Tracked(u, n[1]) /\ n[2] \in Defs[u.files[n[1]].content]}
  <2>1. ASSUME NEW n \in Files \X Names
        PROVE  n \in t.nodes \cup nodes <=> Tracked(u, n[1]) /\ n[2] \in Defs[u.files[n[1]].content]
    <3>1. CASE n[1] = f
      BY <3>1, <1>6 DEF DerivedBut
    <3>2. CASE n[1] # f
      BY <3>2, <1>6 DEF DerivedBut, Tracked
    <3> QED
      BY <3>1, <3>2
  <2> QED
    BY <2>1, <1>2 DEF Tables
<1>8. t.refs \cup refs
        = {r \in Files \X Names : Tracked(u, r[1]) /\ r[2] \in Refs[u.files[r[1]].content]}
  <2>1. ASSUME NEW r \in Files \X Names
        PROVE  r \in t.refs \cup refs <=> Tracked(u, r[1]) /\ r[2] \in Refs[u.files[r[1]].content]
    <3>1. CASE r[1] = f
      BY <3>1, <1>6 DEF DerivedBut
    <3>2. CASE r[1] # f
      BY <3>2, <1>6 DEF DerivedBut, Tracked
    <3> QED
      BY <3>1, <3>2
  <2> QED
    BY <2>1, <1>2 DEF Tables
<1>9. ContainsEdges(t.nodes \cup nodes) = ContainsEdges(t.nodes) \cup ContainsEdges(nodes)
  BY DEF ContainsEdges
<1>10. {e \in t.edges \cup ContainsEdges(nodes) : e.kind = "contains"}
        = {e \in t.edges : e.kind = "contains"} \cup ContainsEdges(nodes)
  BY <1>4
<1>11. u \in Tables
  <2>1. [t.files EXCEPT ![f] = row] \in [Files -> Row \cup {NoRow}]
    BY <1>5
  <2>2. /\ t.nodes \cup nodes \in SUBSET (Files \X Names)
        /\ t.refs \cup refs \in SUBSET (Files \X Names)
        /\ t.edges \cup ContainsEdges(nodes) \in SUBSET Edge
        /\ t.fts \in SUBSET (Files \X Names)
    BY <1>2, <1>4 DEF Tables
  <2> HIDE DEF nodes, refs, u
  <2> QED
    BY <2>1, <2>2, <1>3 DEF Tables
<1> HIDE DEF u, nodes, refs
<1>12. Derived(u)
  BY <1>3, <1>7, <1>8, <1>9, <1>10 DEF Derived, DerivedBut
<1> QED
  BY <1>3, <1>11, <1>12 DEF u
(* Inserting a file that the tables do not track keeps them derived.       *)
LEMMA InsertDerived ==
    ASSUME NEW t \in Tables, NEW f \in Files, NEW row \in Row, Derived(t), ~Tracked(t, f)
    PROVE  /\ InsertFile(t, f, row) \in Tables
           /\ Derived(InsertFile(t, f, row))
           /\ InsertFile(t, f, row).files = [t.files EXCEPT ![f] = row]
<1>1. DerivedBut(t, f)
  BY DEF Derived, DerivedBut
<1> QED
  BY <1>1, WithSymbolsDerived DEF InsertFile

(* So does purging a file and parsing it again.                            *)
LEMMA ReindexDerived ==
    ASSUME NEW t \in Tables, NEW f \in Files, NEW row \in Row, Derived(t)
    PROVE  /\ ReindexFile(t, f, row) \in Tables
           /\ Derived(ReindexFile(t, f, row))
           /\ ReindexFile(t, f, row).files = [t.files EXCEPT ![f] = row]
<1> DEFINE u == Purge(t, f)
<1>1. u \in Tables
  BY DEF Purge, Tables
<1>2. {e \in u.edges : e.kind = "contains"} = ContainsEdges(u.nodes)
  <2>1. {e \in u.edges : e.kind = "contains"}
          = {e \in ContainsEdges(t.nodes) : e.from # f /\ e.to[1] # f}
    BY DEF Purge, Derived
  <2> QED
    BY <2>1 DEF ContainsEdges, Purge
<1>3. DerivedBut(u, f)
  BY <1>2 DEF DerivedBut, Derived, Purge, Tracked
<1>4. u.files = t.files
  BY DEF Purge
<1> HIDE DEF u
<1> QED
  BY <1>1, <1>3, <1>4, WithSymbolsDerived DEF ReindexFile, u

(* Stat noise changes nothing that a table is derived from.                *)
LEMMA TouchDerived ==
    ASSUME NEW t \in Tables, NEW f \in Files, NEW stat \in Stat, Tracked(t, f)
    PROVE  /\ TouchFile(t, f, stat) \in Tables
           /\ Derived(t) => Derived(TouchFile(t, f, stat))
           /\ Consistent(t) => Consistent(TouchFile(t, f, stat))
           /\ TouchFile(t, f, stat).files
                = [t.files EXCEPT ![f] = [content |-> t.files[f].content, stat |-> stat]]
<1> DEFINE row == [content |-> t.files[f].content, stat |-> stat]
           u == TouchFile(t, f, stat)
<1>1. t.files \in [Files -> Row \cup {NoRow}]
  BY DEF Tables
<1>2. row \in Row
  BY <1>1 DEF Row, Tracked
<1>3. t = [files |-> t.files, nodes |-> t.nodes, refs |-> t.refs, edges |-> t.edges,
           fts |-> t.fts]
  BY DEF Tables
<1>4. u = [files |-> [t.files EXCEPT ![f] = row], nodes |-> t.nodes, refs |-> t.refs,
           edges |-> t.edges, fts |-> t.fts]
  <2>1. [t.files[f] EXCEPT !.stat = stat] = row
    BY <1>1 DEF Row, Tracked
  <2> QED
    BY <1>3, <2>1 DEF TouchFile
<1> HIDE DEF u
<1>5. [t.files EXCEPT ![f] = row] \in [Files -> Row \cup {NoRow}]
  BY <1>1, <1>2
<1>6. u \in Tables
  BY <1>4, <1>5 DEF Tables
<1>7. \A g \in Files : /\ Tracked(u, g) <=> Tracked(t, g)
                      /\ u.files[g].content = t.files[g].content
  BY <1>1, <1>2, <1>4, NoRowAssumption DEF Tracked
<1>8. /\ Derived(t) => Derived(u)
      /\ Consistent(t) => Consistent(u)
  BY <1>4, <1>7 DEF Derived, Consistent
<1> QED
  BY <1>4, <1>6, <1>8 DEF u

(* Removing files with all that was parsed of them keeps the tables        *)
(* derived; removing none changes nothing.                                 *)
LEMMA DeleteDerived ==
    ASSUME NEW t \in Tables, NEW gone \in SUBSET Files, Derived(t)
    PROVE  /\ DeleteFiles(t, gone) \in Tables
           /\ Derived(DeleteFiles(t, gone))
           /\ \A f \in Files : DeleteFiles(t, gone).files[f]
                                = IF f \in gone THEN NoRow ELSE t.files[f]
           /\ gone = {} => DeleteFiles(t, gone) = t
<1> DEFINE u == DeleteFiles(t, gone)
<1>1. t.files \in [Files -> Row \cup {NoRow}]
  BY DEF Tables
<1>2. u \in Tables
  BY <1>1 DEF DeleteFiles, Tables
<1>3. {e \in u.edges : e.kind = "contains"} = ContainsEdges(u.nodes)
  <2>1. {e \in u.edges : e.kind = "contains"}
          = {e \in ContainsEdges(t.nodes) : e.from \notin gone /\ e.to[1] \notin gone}
    BY DEF DeleteFiles, Derived
  <2> QED
    BY <2>1 DEF ContainsEdges, DeleteFiles
<1>4. \A f \in Files : u.files[f] = IF f \in gone THEN NoRow ELSE t.files[f]
  BY DEF DeleteFiles
<1>5. u.nodes = {n \in Files \X Names : Tracked(u, n[1]) /\ n[2] \in Defs[u.files[n[1]].content]}
  BY <1>4 DEF Derived, Tracked, DeleteFiles
<1>6. u.refs = {r \in Files \X Names : Tracked(u, r[1]) /\ r[2] \in Refs[u.files[r[1]].content]}
  BY <1>4 DEF Derived, Tracked, DeleteFiles
<1>7. ASSUME gone = {} PROVE u = t
  BY <1>1, <1>7 DEF DeleteFiles, Tables
<1> HIDE DEF u
<1>8. Derived(u)
  BY <1>3, <1>5, <1>6 DEF Derived
<1> QED
  BY <1>2, <1>4, <1>7, <1>8 DEF u

-----------------------------------------------------------------------------
(* The walk                                                                *)

Walking == phase \in {"indexing", "syncing"}

(* The files whose rows the walk has not written yet.                      *)
Ahead == todo \cup (IF Between THEN {} ELSE {visit.file})

(* The open transaction's tables stay derived; those of a sync that has    *)
(* added and modified nothing are still consistent, since then it commits  *)
(* them as they are. A file still ahead has no row yet in an index, and in *)
(* a sync the committed one, which the sync compares it with.              *)
WalkInv ==
    /\ Walking => Derived(tx)
    /\ phase = "syncing" /\ ~changed => Consistent(tx)
    /\ ~Between => visit.file \notin todo
    /\ phase = "indexing" => \A f \in Ahead : ~Tracked(tx, f)
    /\ phase = "syncing" => \A f \in Ahead : tx.files[f] = db.files[f]

GraphInv == TypeOK /\ GraphConsistent /\ WalkInv

(* The visit of a file is one of its type, and what it has found as well.  *)
LEMMA VisitTypes ==
    ASSUME TypeOK, ~Between
    PROVE  /\ visit \in Visit /\ visit.file \in Files
           /\ Statted => visit.stat \in Stat
           /\ HasRead => visit.content \in Contents
BY DEF TypeOK, Between, Visit, Statted, HasRead

(* What is on disk has a stat and a content.                               *)
LEMMA DiskTypes ==
    ASSUME TypeOK, NEW f \in Files, Exists(f)
    PROVE  /\ StatOf(f) \in Stat
           /\ disk[f].content \in Contents
           /\ disk[f].mtime \in Nat
BY SyntaxAssumption DEF TypeOK, Exists, StatOf, OnDisk, Stat

(* A walk begins with derived tables.                                      *)
LEMMA BeginWalkKeeps ==
    ASSUME NEW t \in Tables, BeginWalk(t), Derived(t),
           phase' \in {"indexing", "syncing"},
           phase' = "indexing" => \A f \in Files : ~Tracked(t, f),
           phase' = "syncing" => Consistent(t) /\ t = db'
    PROVE  WalkInv'
BY DEF BeginWalk, WalkInv, Walking, Ahead, Between

(* Once the walk is over, there is nothing left of its transaction.        *)
LEMMA EndWalkKeeps ==
    ASSUME EndWalk
    PROVE  /\ tx' \in Tables /\ todo' \subseteq Files /\ seen' \subseteq Files
           /\ visit' = NoVisit /\ todo' = {} /\ changed' = FALSE
           /\ \A f \in Files : ~Tracked(tx', f)
BY ClearedDerived DEF EndWalk

(* The empty graph is consistent.                                          *)
LEMMA InitGraphInv == Init => GraphInv
<1> SUFFICES ASSUME Init PROVE GraphInv
  OBVIOUS
<1>1. Cleared({}) \in Tables /\ Derived(Cleared({})) /\ \A f \in Files : ~Tracked(Cleared({}), f)
  BY ClearedDerived
<1>2. TypeOK
  <2>1. disk \in [Files -> OnDisk \cup {NoFile}]
    <3>1. \A v \in Contents : [content |-> v, mtime |-> 0] \in OnDisk
      BY DEF OnDisk
    <3> QED
      BY <3>1 DEF Init
  <2>2. second \in 0 .. MaxSecond /\ events \in 0 .. MaxEvents
    BY BoundsAssumption DEF Init
  <2>3. db \in Tables /\ tx \in Tables
    BY <1>1 DEF Init
  <2>4. /\ phase \in {"indexing", "attaching", "waiting", "syncing", "failed"}
        /\ todo \subseteq Files /\ seen \subseteq Files
        /\ visit \in Visit \cup {NoVisit}
        /\ changed \in BOOLEAN /\ recent \in BOOLEAN
    BY DEF Init
  <2> QED
    BY <2>1, <2>2, <2>3, <2>4 DEF TypeOK
<1>3. Consistent(db)
  BY DEF Init, Consistent, Cleared, Tracked, ContainsEdges, ReferEdges
<1>4. WalkInv
  BY <1>1 DEF Init, WalkInv, Walking, Ahead, Between
<1> QED
  BY <1>2, <1>3, <1>4 DEF GraphInv, GraphConsistent

(* Steps that leave the tables alone: the walk, the reads and the stats.   *)
LEMMA WalkStep ==
    ASSUME GraphInv,
           \/ \E f \in Files : Walk(f)
           \/ IndexRead \/ SyncStat
    PROVE  GraphInv'
<1> USE DEF GraphInv, GraphConsistent
<1>1. CASE \E f \in Files : Walk(f)
  <2>1. PICK f \in Files : Walk(f)
    BY <1>1
  <2>2. CASE Exists(f)
    <3>1. [file |-> f, stat |-> Unknown, content |-> Unknown] \in Visit
      BY DEF Visit
    <3>2. visit' = [file |-> f, stat |-> Unknown, content |-> Unknown] /\ visit' # NoVisit
      BY <2>1, <2>2, <3>1, NoneAssumption DEF Walk
    <3>3. TypeOK'
      BY <2>1, <2>2, <3>1, <3>2 DEF Walk, TypeOK
    <3>4. Ahead' = Ahead
      BY <2>1, <3>2 DEF Walk, Ahead, Between
    <3>5. WalkInv'
      BY <2>1, <3>2, <3>4 DEF Walk, WalkInv, Walking, Between
    <3> QED
      BY <2>1, <3>3, <3>5 DEF Walk
  <2>3. CASE ~Exists(f)
    BY <2>1, <2>3 DEF Walk, TypeOK, WalkInv, Walking, Ahead, Between
  <2> QED
    BY <2>2, <2>3
<1>2. CASE IndexRead
  <2>1. visit \in Visit /\ visit.file \in Files
    BY <1>2, VisitTypes DEF IndexRead
  <2>2. disk[visit.file].content \in Contents
    BY <1>2, <2>1, DiskTypes DEF IndexRead, Legible
  <2>3. visit' \in Visit /\ visit'.file = visit.file
    BY <1>2, <2>1, <2>2 DEF IndexRead, Visit
  <2>4. TypeOK'
    BY <1>2, <2>3 DEF IndexRead, TypeOK
  <2>5. WalkInv'
    BY <1>2, <2>3, NoneAssumption DEF IndexRead, WalkInv, Walking, Ahead, Between
  <2> QED
    BY <1>2, <2>4, <2>5 DEF IndexRead
<1>3. CASE SyncStat
  <2>1. visit \in Visit /\ visit.file \in Files
    BY <1>3, VisitTypes DEF SyncStat
  <2>2. CASE visit' = NoVisit
    BY <1>3, <2>1, <2>2 DEF SyncStat, TypeOK, WalkInv, Walking, Ahead, Between
  <2>3. CASE visit' # NoVisit
    <3>1. Exists(visit.file) /\ visit' = [visit EXCEPT !.stat = StatOf(visit.file)]
      BY <1>3, <2>3 DEF SyncStat
    <3>2. StatOf(visit.file) \in Stat
      BY <2>1, <3>1, DiskTypes
    <3>3. visit' \in Visit /\ visit'.file = visit.file
      BY <2>1, <3>1, <3>2 DEF Visit
    <3>4. TypeOK'
      BY <1>3, <3>3 DEF SyncStat, TypeOK
    <3>5. WalkInv'
      BY <1>3, <2>3, <3>3 DEF SyncStat, WalkInv, Walking, Ahead, Between
    <3> QED
      BY <1>3, <3>4, <3>5 DEF SyncStat
  <2> QED
    BY <2>2, <2>3
<1> QED
  BY <1>1, <1>2, <1>3

(* A file that is indexed has no row yet.                                  *)
LEMMA IndexStatStep ==
    ASSUME GraphInv, IndexStat
    PROVE  GraphInv'
<1> USE DEF GraphInv, GraphConsistent
<1> DEFINE f == visit.file
           stat == IF Exists(f) THEN StatOf(f) ELSE [size |-> 0, mtime |-> 0]
           row == [content |-> visit.content, stat |-> stat]
<1>1. f \in Files /\ visit.content \in Contents
  BY VisitTypes DEF IndexStat
<1>2. row \in Row
  BY <1>1, DiskTypes DEF Row, Stat
<1>3. tx' = InsertFile(tx, f, row) /\ visit' = NoVisit
  BY DEF IndexStat
<1>4. Derived(tx) /\ ~Tracked(tx, f) /\ tx \in Tables
  BY DEF IndexStat, WalkInv, Walking, Ahead, TypeOK
<1> HIDE DEF row
<1>5. tx' \in Tables /\ Derived(tx') /\ tx'.files = [tx.files EXCEPT ![f] = row]
  BY <1>1, <1>2, <1>3, <1>4, InsertDerived
<1>6. TypeOK'
  BY <1>3, <1>5 DEF IndexStat, TypeOK
<1>7. \A g \in Ahead' : g \in todo /\ g # f
  BY <1>3 DEF IndexStat, Ahead, Between, WalkInv
<1>8. \A g \in Ahead' : tx'.files[g] = tx.files[g]
  BY <1>4, <1>5, <1>7 DEF Tables, TypeOK
<1>9. WalkInv'
  BY <1>3, <1>5, <1>7, <1>8 DEF IndexStat, WalkInv, Walking, Between, Ahead, Tracked
<1> QED
  BY <1>6, <1>9 DEF IndexStat

(* A commit of the index rebuilds all that is derived.                     *)
LEMMA IndexCommitsStep ==
    ASSUME GraphInv, IndexCommits
    PROVE  GraphInv'
<1>1. tx \in Tables /\ Derived(tx)
  BY DEF GraphInv, TypeOK, WalkInv, Walking, IndexCommits
<1>2. db' \in Tables /\ Consistent(db')
  BY <1>1, RebuildConsistent DEF IndexCommits
<1>3. EndWalk
  BY DEF IndexCommits
<1> QED
  BY <1>2, <1>3, EndWalkKeeps
  DEF GraphInv, GraphConsistent, TypeOK, WalkInv, Walking, Between, IndexCommits

(* A sync re-parses a file, or touches its row, which is the committed one.*)
LEMMA SyncReadStep ==
    ASSUME GraphInv, SyncRead
    PROVE  GraphInv'
<1> USE DEF GraphInv, GraphConsistent
<1> DEFINE f == visit.file
           row == [content |-> disk[f].content, stat |-> visit.stat]
           same == Tracked(db, f) /\ db.files[f].content = row.content
<1>1. f \in Files /\ visit.stat \in Stat
  BY VisitTypes DEF SyncRead
<1>2. /\ Derived(tx) /\ tx \in Tables
      /\ ~changed => Consistent(tx)
      /\ tx.files[f] = db.files[f]
      /\ f \notin todo
  BY DEF SyncRead, WalkInv, Walking, Ahead, TypeOK
<1>3. \A g \in Ahead' : g \in todo /\ g # f
  BY <1>2 DEF SyncRead, Ahead, Between
<1>4. /\ tx' \in Tables /\ Derived(tx')
      /\ ~changed' => Consistent(tx')
      /\ \A g \in Files \ {f} : tx'.files[g] = tx.files[g]
  <2>1. CASE ~Legible(f)
    <3>1. tx' = tx /\ changed' = changed
      BY <2>1, <1>2 DEF SyncRead, TypeOK
    <3> QED
      BY <3>1, <1>2
  <2>2. CASE Legible(f) /\ same
    <3>1. tx' = TouchFile(tx, f, visit.stat) /\ changed' = changed
      BY <2>2 DEF SyncRead, TypeOK
    <3>2. Tracked(tx, f)
      BY <2>2, <1>2 DEF Tracked
    <3> HIDE DEF f, same
    <3>3. /\ tx' \in Tables /\ Derived(tx')
          /\ ~changed' => Consistent(tx')
          /\ tx'.files = [tx.files EXCEPT ![f] = [content |-> tx.files[f].content, stat |-> visit.stat]]
      BY <3>1, <3>2, <1>1, <1>2, TouchDerived
    <3>4. \A g \in Files \ {f} : tx'.files[g] = tx.files[g]
      BY <3>3, <1>2 DEF Tables
    <3> QED
      BY <3>3, <3>4
  <2>3. CASE Legible(f) /\ ~same
    <3>1. row \in Row
      BY <2>3, <1>1, DiskTypes DEF Row, Legible
    <3>2. changed' = TRUE
      BY <2>3 DEF SyncRead
    <3>3. tx' = IF Tracked(db, f) THEN ReindexFile(tx, f, row) ELSE InsertFile(tx, f, row)
      BY <2>3 DEF SyncRead
    <3>4. Tracked(db, f) <=> Tracked(tx, f)
      BY <1>2 DEF Tracked
    <3> HIDE DEF row, f
    <3>5. tx' \in Tables /\ Derived(tx') /\ tx'.files = [tx.files EXCEPT ![f] = row]
      BY <3>1, <3>3, <3>4, <1>1, <1>2, InsertDerived, ReindexDerived
    <3> QED
      BY <3>2, <3>5, <1>2 DEF Tables
  <2> HIDE DEF f, same
  <2> QED
    BY <2>1, <2>2, <2>3
<1>5. TypeOK'
  BY <1>4 DEF SyncRead, TypeOK
<1>6. \A g \in Ahead' : tx'.files[g] = db'.files[g]
  BY <1>3, <1>4 DEF SyncRead, Ahead, WalkInv, TypeOK
<1>7. WalkInv'
  BY <1>4, <1>6 DEF SyncRead, WalkInv, Walking, Between
<1> QED
  BY <1>5, <1>7 DEF SyncRead

(* A commit rebuilds what is derived, unless nothing was added, modified   *)
(* or removed: then the tables have stayed consistent.                     *)
LEMMA SyncCommitsStep ==
    ASSUME GraphInv, SyncCommits
    PROVE  GraphInv'
<1> DEFINE gone == {f \in Files \ seen : Tracked(db, f)}
           walked == DeleteFiles(tx, gone)
<1>1. tx \in Tables /\ Derived(tx) /\ (~changed => Consistent(tx))
  BY DEF GraphInv, TypeOK, WalkInv, Walking, SyncCommits
<1>2. gone \in SUBSET Files
  OBVIOUS
<1>3. db' = IF changed \/ gone # {} THEN RefreshFts(Resolve(walked)) ELSE walked
  BY DEF SyncCommits
<1> HIDE DEF gone, walked
<1>4. walked \in Tables /\ Derived(walked) /\ (gone = {} => walked = tx)
  BY <1>1, <1>2, DeleteDerived DEF walked
<1>5. db' \in Tables /\ Consistent(db')
  BY <1>1, <1>3, <1>4, RebuildConsistent
<1>6. EndWalk
  BY DEF SyncCommits
<1> QED
  BY <1>5, <1>6, EndWalkKeeps
  DEF GraphInv, GraphConsistent, TypeOK, WalkInv, Walking, Between, SyncCommits

(* A sync begins with the committed tables, a new thread with empty ones.  *)
LEMMA BeginStep ==
    ASSUME GraphInv, BeginSync \/ Rewatch
    PROVE  GraphInv'
<1> USE DEF GraphInv, GraphConsistent
<1>1. CASE BeginSync
  <2>1. db \in Tables /\ Derived(db) /\ Consistent(db)
    BY ConsistentDerived DEF TypeOK
  <2>2. WalkInv'
    BY <1>1, <2>1, BeginWalkKeeps DEF BeginSync
  <2>3. events' \in 0 .. MaxEvents /\ recent' = TRUE
    BY <1>1, BoundsAssumption DEF BeginSync, TypeOK
  <2>4. /\ tx' \in Tables /\ todo' \subseteq Files /\ seen' \subseteq Files
        /\ visit' \in Visit \cup {NoVisit} /\ changed' \in BOOLEAN
    BY <1>1, <2>1 DEF BeginSync, BeginWalk
  <2>5. TypeOK'
    BY <1>1, <2>3, <2>4 DEF BeginSync, TypeOK
  <2> QED
    BY <1>1, <2>2, <2>5 DEF BeginSync
<1>2. CASE Rewatch
  <2>1. db.fts \in SUBSET (Files \X Names)
    BY DEF TypeOK, Tables
  <2>2. /\ Cleared(db.fts) \in Tables /\ Derived(Cleared(db.fts))
        /\ \A f \in Files : ~Tracked(Cleared(db.fts), f)
    BY <2>1, ClearedDerived
  <2>3. WalkInv'
    BY <1>2, <2>2, BeginWalkKeeps DEF Rewatch
  <2>4. events' \in 0 .. MaxEvents /\ recent' = FALSE
    BY <1>2, BoundsAssumption DEF Rewatch
  <2>5. /\ tx' \in Tables /\ todo' \subseteq Files /\ seen' \subseteq Files
        /\ visit' \in Visit \cup {NoVisit} /\ changed' \in BOOLEAN
    BY <1>2, <2>2 DEF Rewatch, BeginWalk
  <2>6. TypeOK'
    BY <1>2, <2>4, <2>5 DEF Rewatch, TypeOK
  <2> QED
    BY <1>2, <2>3, <2>6 DEF Rewatch
<1> QED
  BY <1>1, <1>2

(* Steps of the thread that end or suspend a walk and commit nothing.      *)
LEMMA PauseStep ==
    ASSUME GraphInv,
           \/ IndexReadFails \/ IndexFails \/ SyncFails
           \/ AttachWatcher \/ DropEvent \/ DebounceEnds
    PROVE  GraphInv'
<1> USE DEF GraphInv, GraphConsistent, TypeOK, WalkInv, Walking, Ahead, Between, txVars
<1>1. CASE IndexReadFails \/ IndexFails
  <2>1. EndWalk
    BY <1>1 DEF IndexReadFails, IndexFails
  <2> QED
    BY <1>1, <2>1, EndWalkKeeps DEF IndexReadFails, IndexFails
<1>2. CASE SyncFails
  <2>1. EndWalk
    BY <1>2 DEF SyncFails
  <2> QED
    BY <1>2, <2>1, EndWalkKeeps DEF SyncFails
<1>3. CASE AttachWatcher \/ DebounceEnds
  BY <1>3 DEF AttachWatcher, DebounceEnds
<1>4. CASE DropEvent
  BY <1>4, BoundsAssumption DEF DropEvent
<1> QED
  BY <1>1, <1>2, <1>3, <1>4

(* Editors change the disk, the time and the channel of events.            *)
LEMMA EditStep ==
    ASSUME GraphInv, NEW f \in Files, Write(f) \/ Remove(f)
    PROVE  GraphInv'
<1> USE DEF GraphInv, GraphConsistent
<1>1. events' \in 0 .. MaxEvents
  <2>1. Notify /\ events \in 0 .. MaxEvents
    BY DEF Write, Remove, TypeOK
  <2> QED
    BY <2>1, BoundsAssumption DEF Notify
<1>2. second' \in 0 .. MaxSecond
  <2>1. second \in 0 .. MaxSecond
    BY DEF TypeOK
  <2>2. second' \in {second, second + 1} /\ (second' = second \/ second' <= MaxSecond)
    BY DEF Write, Remove
  <2> QED
    BY <2>1, <2>2, BoundsAssumption
<1>3. disk' \in [Files -> OnDisk \cup {NoFile}]
  <2>1. CASE Remove(f)
    BY <2>1 DEF Remove, TypeOK
  <2>2. CASE Write(f)
    <3>1. PICK v \in Contents : disk' = [disk EXCEPT ![f] = [content |-> v, mtime |-> second']]
      BY <2>2 DEF Write
    <3>2. [content |-> v, mtime |-> second'] \in OnDisk
      BY <1>2 DEF OnDisk
    <3> QED
      BY <3>1, <3>2 DEF TypeOK
  <2> QED
    BY <2>1, <2>2
<1>4. UNCHANGED <<db, txVars, phase, recent>>
  BY DEF Write, Remove
<1> QED
  BY <1>1, <1>2, <1>3, <1>4
  DEF TypeOK, WalkInv, Walking, Ahead, Between, txVars

-----------------------------------------------------------------------------
(* Any step of the thread or of an editor keeps the committed tables       *)
(* consistent.                                                             *)
LEMMA NextGraphInv == GraphInv /\ [Next]_vars => GraphInv'
<1> SUFFICES ASSUME GraphInv, [Next]_vars PROVE GraphInv'
  OBVIOUS
<1>1. CASE Loop
  BY <1>1, WalkStep, IndexStatStep, IndexCommitsStep, SyncReadStep, SyncCommitsStep,
     BeginStep, PauseStep DEF Loop
<1>2. CASE IndexFails \/ SyncFails \/ Rewatch \/ DebounceEnds
  BY <1>2, BeginStep, PauseStep
<1>3. CASE \E f \in Files : Write(f) \/ Remove(f)
  BY <1>3, EditStep
<1>4. CASE UNCHANGED vars
  BY <1>4 DEF vars, GraphInv, GraphConsistent, TypeOK, WalkInv, Walking, Ahead, Between
<1> QED
  BY <1>1, <1>2, <1>3, <1>4 DEF Next

(* Every variable of the thread keeps its type.                            *)
THEOREM GraphTypes == Spec => []TypeOK
<1>1. GraphInv => TypeOK
  BY DEF GraphInv
<1> QED
  BY <1>1, InitGraphInv, NextGraphInv, PTL DEF Spec

(* What so_search and so_references read follows from the texts of the     *)
(* files the graph tracks, whatever fails and whenever editors write.      *)
THEOREM GraphStaysConsistent == Spec => []GraphConsistent
<1>1. GraphInv => GraphConsistent
  BY DEF GraphInv
<1> QED
  BY <1>1, InitGraphInv, NextGraphInv, PTL DEF Spec

-----------------------------------------------------------------------------
(* The stat pre-filter                                                     *)

(* A row is no newer than the clock, and of a stat that the file still has *)
(* only when it was parsed as the file is: any later write has moved the   *)
(* clock on. It is this, rather than SkipIsSafe, that a write preserves.   *)
RowIsSafe(row, f) ==
    /\ row.stat.mtime <= second
    /\ Exists(f) /\ row.stat = StatOf(f) => row.content = disk[f].content

RowsAreSafe(t) == \A f \in Files : Tracked(t, f) => RowIsSafe(t.files[f], f)

DiskInTime == \A f \in Files : Exists(f) => disk[f].mtime <= second

(* What an index has read and not yet statted is still on disk.            *)
IndexIsFresh ==
    phase = "indexing" /\ ~Between /\ HasRead =>
        Exists(visit.file) /\ visit.content = disk[visit.file].content

VisitInTime == ~Between /\ Statted => visit.stat.mtime <= second

SkipInv == DiskInTime /\ RowsAreSafe(db) /\ RowsAreSafe(tx) /\ IndexIsFresh /\ VisitInTime

(* It has no row that a sync could pass over.                              *)
LEMMA InitSkipInv == Init => SkipInv
<1> SUFFICES ASSUME Init PROVE SkipInv
  OBVIOUS
<1>1. \A f \in Files : ~Tracked(db, f) /\ ~Tracked(tx, f)
  BY ClearedDerived DEF Init
<1>2. DiskInTime
  BY DEF Init, DiskInTime, Exists
<1>3. Between
  BY DEF Init, Between
<1> QED
  BY <1>1, <1>2, <1>3 DEF SkipInv, RowsAreSafe, IndexIsFresh, VisitInTime

(* Steps that write no row leave every row as safe as it was.              *)
LEMMA QuietSkip ==
    ASSUME GraphInv, SkipInv,
           \/ \E f \in Files : Walk(f)
           \/ IndexRead \/ IndexReadFails \/ SyncStat
           \/ AttachWatcher \/ DropEvent \/ DebounceEnds
           \/ IndexFails \/ SyncFails
    PROVE  SkipInv'
<1>1. /\ UNCHANGED <<disk, second, db>>
      /\ tx' = tx \/ EndWalk
  BY DEF Walk, IndexRead, IndexReadFails, SyncStat, AttachWatcher, DropEvent, DebounceEnds,
         IndexFails, SyncFails, txVars
<1>2. (DiskInTime /\ RowsAreSafe(db) /\ RowsAreSafe(tx))'
  BY <1>1, EndWalkKeeps DEF SkipInv, DiskInTime, RowsAreSafe, RowIsSafe, Exists, StatOf, Tracked
<1>3. (IndexIsFresh /\ VisitInTime)'
  <2> USE DEF SkipInv, IndexIsFresh, VisitInTime, Between, HasRead, Statted, Exists
  <2>1. CASE \E f \in Files : Walk(f)
    BY <2>1, NoneAssumption DEF Walk
  <2>2. CASE IndexRead
    <3>1. visit \in Visit
      BY <2>2, VisitTypes DEF IndexRead, GraphInv
    <3>2. /\ visit'.content = disk[visit.file].content /\ visit'.file = visit.file
          /\ visit'.stat = visit.stat
      BY <2>2, <3>1 DEF IndexRead, Visit
    <3> QED
      BY <2>2, <3>2 DEF IndexRead, Legible
  <2>3. CASE SyncStat
    <3>1. visit \in Visit /\ visit.file \in Files
      BY <2>3, VisitTypes DEF SyncStat, GraphInv
    <3>2. CASE visit' = NoVisit
      BY <2>3, <3>2 DEF SyncStat
    <3>3. CASE visit' # NoVisit
      <4>1. Exists(visit.file) /\ visit' = [visit EXCEPT !.stat = StatOf(visit.file)]
        BY <2>3, <3>3 DEF SyncStat
      <4>2. visit'.stat.mtime = disk[visit.file].mtime
        BY <3>1, <4>1 DEF Visit, StatOf
      <4> QED
        BY <1>1, <2>3, <3>1, <4>1, <4>2 DEF SyncStat, DiskInTime
    <3> QED
      BY <3>2, <3>3
  <2>4. CASE IndexReadFails \/ IndexFails \/ SyncFails
    <3>1. EndWalk
      BY <2>4 DEF IndexReadFails, IndexFails, SyncFails
    <3> QED
      BY <3>1, EndWalkKeeps
  <2>5. CASE AttachWatcher \/ DropEvent \/ DebounceEnds
    <3>1. visit' = visit /\ (phase' = "indexing" => phase = "indexing")
      BY <2>5 DEF AttachWatcher, DropEvent, DebounceEnds, txVars
    <3> QED
      BY <1>1, <3>1
  <2> QED
    BY <2>1, <2>2, <2>3, <2>4, <2>5
<1> QED
  BY <1>2, <1>3 DEF SkipInv

(* The row of an index has the content and the stat of one moment.         *)
LEMMA IndexStatSkip ==
    ASSUME GraphInv, SkipInv, IndexStat
    PROVE  SkipInv'
<1> DEFINE f == visit.file
<1>1. f \in Files /\ Exists(f) /\ visit.content = disk[f].content
  BY VisitTypes DEF IndexStat, SkipInv, IndexIsFresh, GraphInv
<1>2. tx'.files = [tx.files EXCEPT ![f] = [content |-> visit.content, stat |-> StatOf(f)]]
  BY <1>1 DEF IndexStat, InsertFile, WithSymbols
<1>3. UNCHANGED <<disk, second, db>> /\ visit' = NoVisit
  BY DEF IndexStat
<1>4. tx.files \in [Files -> Row \cup {NoRow}]
  BY DEF GraphInv, TypeOK, Tables
<1>5. RowsAreSafe(tx)'
  <2> SUFFICES ASSUME NEW g \in Files, Tracked(tx', g) PROVE RowIsSafe(tx.files[g], g)'
    BY DEF RowsAreSafe
  <2>1. CASE g = f
    <3>1. tx'.files[g] = [content |-> visit.content, stat |-> StatOf(f)]
      BY <1>1, <1>2, <1>4, <2>1
    <3>2. disk[f].mtime <= second
      BY <1>1 DEF SkipInv, DiskInTime
    <3> QED
      BY <1>1, <1>3, <2>1, <3>1, <3>2 DEF RowIsSafe, StatOf
  <2>2. CASE g # f
    <3>1. tx'.files[g] = tx.files[g] /\ Tracked(tx, g)
      BY <1>2, <1>4, <2>2 DEF Tracked
    <3> QED
      BY <1>3, <3>1 DEF SkipInv, RowsAreSafe, RowIsSafe, Exists, StatOf
  <2> QED
    BY <2>1, <2>2
<1> QED
  BY <1>3, <1>5 DEF SkipInv, DiskInTime, RowsAreSafe, RowIsSafe, Exists, StatOf, Tracked,
                    IndexIsFresh, VisitInTime, Between

(* A sync takes the stat before it reads: a row whose stat the file has    *)
(* was not written in between.                                             *)
LEMMA SyncReadSkip ==
    ASSUME GraphInv, SkipInv, SyncRead
    PROVE  SkipInv'
<1> DEFINE f == visit.file
<1>1. f \in Files /\ visit.stat \in Stat /\ visit.stat.mtime <= second
  BY VisitTypes DEF SyncRead, SkipInv, VisitInTime, GraphInv
<1>2. UNCHANGED <<disk, second, db>> /\ visit' = NoVisit
  BY DEF SyncRead
<1>3. tx.files \in [Files -> Row \cup {NoRow}] /\ tx \in Tables
  BY DEF GraphInv, TypeOK, Tables
<1>4. tx.files[f] = db.files[f]
  BY DEF GraphInv, WalkInv, Ahead, SyncRead
<1>5. \/ tx' = tx
      \/ /\ Exists(f)
         /\ tx'.files = [tx.files EXCEPT ![f] = [content |-> disk[f].content, stat |-> visit.stat]]
  <2> DEFINE row == [content |-> disk[f].content, stat |-> visit.stat]
             same == Tracked(db, f) /\ db.files[f].content = row.content
  <2>1. CASE ~Legible(f)
    BY <2>1 DEF SyncRead
  <2>2. CASE Legible(f) /\ same
    <3>1. tx' = TouchFile(tx, f, visit.stat) /\ Tracked(tx, f)
      BY <1>4, <2>2 DEF SyncRead, Tracked
    <3>2. tx.files[f].content = disk[f].content
      BY <1>4, <2>2
    <3> HIDE DEF f
    <3>3. tx'.files = [tx.files EXCEPT ![f] = [content |-> tx.files[f].content, stat |-> visit.stat]]
      BY <3>1, <1>1, <1>3, TouchDerived
    <3> QED
      BY <2>2, <3>2, <3>3 DEF Legible
  <2>3. CASE Legible(f) /\ ~same
    <3>1. tx' = IF Tracked(db, f) THEN ReindexFile(tx, f, row) ELSE InsertFile(tx, f, row)
      BY <2>3 DEF SyncRead
    <3> HIDE DEF f
    <3>2. tx'.files = [tx.files EXCEPT ![f] = row]
      BY <3>1 DEF ReindexFile, InsertFile, WithSymbols, Purge
    <3> QED
      BY <2>3, <3>2 DEF Legible
  <2> HIDE DEF f, same
  <2> QED
    BY <2>1, <2>2, <2>3
<1> HIDE DEF f
<1>6. RowsAreSafe(tx)'
  <2> SUFFICES ASSUME NEW g \in Files, Tracked(tx', g) PROVE RowIsSafe(tx.files[g], g)'
    BY DEF RowsAreSafe
  <2>1. CASE tx'.files[g] = tx.files[g]
    BY <1>2, <2>1 DEF SkipInv, RowsAreSafe, RowIsSafe, Exists, StatOf, Tracked
  <2>2. CASE tx'.files[g] # tx.files[g]
    <3>1. g = f /\ tx'.files[g] = [content |-> disk[f].content, stat |-> visit.stat]
      BY <1>1, <1>3, <1>5, <2>2
    <3> QED
      BY <1>1, <1>2, <3>1 DEF RowIsSafe
  <2> QED
    BY <2>1, <2>2
<1> QED
  BY <1>2, <1>6 DEF SkipInv, DiskInTime, RowsAreSafe, RowIsSafe, Exists, StatOf, Tracked,
                    IndexIsFresh, VisitInTime, Between

(* Each row of a commit is one of the transaction.                         *)
LEMMA CommitSkip ==
    ASSUME GraphInv, SkipInv, IndexCommits \/ SyncCommits
    PROVE  SkipInv'
<1>1. tx \in Tables /\ Derived(tx)
  BY DEF GraphInv, TypeOK, WalkInv, Walking, IndexCommits, SyncCommits
<1>2. UNCHANGED <<disk, second>> /\ EndWalk
  BY DEF IndexCommits, SyncCommits
<1>3. \A f \in Files : db'.files[f] \in {NoRow, tx.files[f]}
  <2>1. CASE IndexCommits
    BY <1>1, <2>1, RebuildConsistent DEF IndexCommits
  <2>2. CASE SyncCommits
    <3> DEFINE gone == {f \in Files \ seen : Tracked(db, f)}
               walked == DeleteFiles(tx, gone)
    <3>1. gone \in SUBSET Files
      OBVIOUS
    <3>2. db' = IF changed \/ gone # {} THEN RefreshFts(Resolve(walked)) ELSE walked
      BY <2>2 DEF SyncCommits
    <3> HIDE DEF gone, walked
    <3>3. /\ walked \in Tables /\ Derived(walked)
          /\ \A f \in Files : walked.files[f] = IF f \in gone THEN NoRow ELSE tx.files[f]
      BY <1>1, <3>1, DeleteDerived DEF walked
    <3>4. db'.files = walked.files
      BY <3>2, <3>3, RebuildConsistent
    <3> QED
      BY <3>3, <3>4
  <2> QED
    BY <2>1, <2>2
<1>4. RowsAreSafe(db)'
  BY <1>2, <1>3 DEF SkipInv, RowsAreSafe, RowIsSafe, Exists, StatOf, Tracked
<1> QED
  BY <1>2, <1>4, EndWalkKeeps
  DEF SkipInv, DiskInTime, RowsAreSafe, Exists, IndexIsFresh, VisitInTime, Between

(* A transaction begins with the committed rows, or with none.             *)
LEMMA BeginSkip ==
    ASSUME GraphInv, SkipInv, BeginSync \/ Rewatch
    PROVE  SkipInv'
<1>1. UNCHANGED <<disk, second, db>> /\ visit' = NoVisit
  BY DEF BeginSync, Rewatch, BeginWalk
<1>2. tx' = db \/ \A f \in Files : ~Tracked(tx', f)
  BY DEF BeginSync, Rewatch, BeginWalk, Cleared, Tracked
<1> QED
  BY <1>1, <1>2 DEF SkipInv, DiskInTime, RowsAreSafe, RowIsSafe, Exists, StatOf, Tracked,
                    IndexIsFresh, VisitInTime, Between

(* Unless twice in a second, a write gives a file a time that no row has;  *)
(* unless under its own index, it is not one whose row is being made.      *)
LEMMA EditSkip ==
    ASSUME GraphInv, SkipInv, NEW f \in Files, Write(f) \/ Remove(f),
           ~TornIndex(f), Write(f) => second' = second + 1
    PROVE  SkipInv'
<1>1. UNCHANGED <<db, tx, phase, visit>>
  BY DEF Write, Remove, txVars
<1>2. disk \in [Files -> OnDisk \cup {NoFile}]
  BY DEF GraphInv, TypeOK
<1>3. second \in Nat
  <2>1. second \in 0 .. MaxSecond
    BY DEF GraphInv, TypeOK
  <2> QED
    BY <2>1, BoundsAssumption
<1>4. /\ \A g \in Files \ {f} : disk'[g] = disk[g]
      /\ \/ disk'[f] = NoFile /\ second' = second
         \/ disk'[f] \in OnDisk /\ disk'[f].mtime = second' /\ second' = second + 1
  <2>1. CASE Remove(f)
    BY <1>2, <2>1 DEF Remove
  <2>2. CASE Write(f)
    <3>1. PICK v \in Contents : disk' = [disk EXCEPT ![f] = [content |-> v, mtime |-> second']]
      BY <2>2 DEF Write
    <3>2. second' = second + 1
      BY <2>2 DEF Write
    <3>3. [content |-> v, mtime |-> second'] \in OnDisk
      BY <1>3, <3>2 DEF OnDisk
    <3> QED
      BY <1>2, <3>1, <3>2, <3>3
  <2> QED
    BY <2>1, <2>2
<1>5. /\ second' \in Nat
      /\ \A n \in Nat : n <= second => n <= second' /\ (second' # second => n # second')
  <2>1. second' = second \/ second' = second + 1
    BY <1>4
  <2> QED
    BY <1>3, <2>1
<1>6. DiskInTime'
  <2> SUFFICES ASSUME NEW g \in Files, Exists(g)' PROVE disk'[g].mtime <= second'
    BY DEF DiskInTime
  <2>1. CASE g = f
    BY <1>4, <1>5, <2>1 DEF Exists
  <2>2. CASE g # f
    <3>1. disk'[g] = disk[g] /\ Exists(g) /\ disk[g].mtime \in Nat
      BY <1>2, <1>4, <2>2 DEF Exists, OnDisk
    <3> QED
      BY <1>5, <3>1 DEF SkipInv, DiskInTime
  <2> QED
    BY <2>1, <2>2
<1>7. ASSUME NEW t \in Tables, RowsAreSafe(t), NEW g \in Files, Tracked(t, g)
      PROVE  /\ t.files[g].stat.mtime <= second'
             /\ Exists(g)' /\ t.files[g].stat = StatOf(g)' => t.files[g].content = disk'[g].content
  <2>1. t.files[g].stat \in Stat /\ t.files[g].stat.mtime \in Nat
    BY <1>7 DEF Tables, Tracked, Row, Stat
  <2>2. /\ t.files[g].stat.mtime <= second
        /\ Exists(g) /\ t.files[g].stat = StatOf(g) => t.files[g].content = disk[g].content
    BY <1>7 DEF RowsAreSafe, RowIsSafe
  <2>3. t.files[g].stat.mtime <= second'
    BY <1>5, <2>1, <2>2
  <2>4. CASE g = f
    <3>1. ASSUME Exists(g)' PROVE t.files[g].stat # StatOf(g)'
      <4>1. StatOf(g)'.mtime = second' /\ second' # second
        BY <1>4, <1>3, <2>4, <3>1 DEF Exists, StatOf
      <4> QED
        BY <1>5, <2>1, <2>2, <4>1
    <3> QED
      BY <2>3, <3>1
  <2>5. CASE g # f
    <3>1. disk'[g] = disk[g]
      BY <1>4, <2>5
    <3> QED
      BY <2>2, <2>3, <3>1 DEF Exists, StatOf
  <2> QED
    BY <2>4, <2>5
<1>8. db \in Tables /\ tx \in Tables
  BY DEF GraphInv, TypeOK
<1>9. (RowsAreSafe(db) /\ RowsAreSafe(tx))'
  BY <1>1, <1>7, <1>8 DEF SkipInv, RowsAreSafe, RowIsSafe, Tracked
<1>10. IndexIsFresh'
  <2> SUFFICES ASSUME phase = "indexing", ~Between, HasRead
               PROVE  Exists(visit.file)' /\ visit.content = disk'[visit.file].content
    BY <1>1 DEF IndexIsFresh, Between, HasRead
  <2>1. visit.file # f
    BY DEF TornIndex
  <2>2. visit.file \in Files
    BY VisitTypes DEF GraphInv
  <2> QED
    BY <1>1, <1>4, <2>1, <2>2 DEF SkipInv, IndexIsFresh, Exists
<1>11. VisitInTime'
  <2> SUFFICES ASSUME ~Between, Statted PROVE visit.stat.mtime <= second'
    BY <1>1 DEF VisitInTime, Between, Statted
  <2>1. visit.stat.mtime \in Nat /\ visit.stat.mtime <= second
    BY VisitTypes DEF GraphInv, SkipInv, VisitInTime, Stat
  <2> QED
    BY <1>5, <2>1
<1> QED
  BY <1>6, <1>9, <1>10, <1>11 DEF SkipInv

(* Every step keeps the rows safe to pass over, unless an index is torn or *)
(* edits are quick.                                                        *)
LEMMA NextSkipInv ==
    ASSUME "torn index" \notin Hiccups, "quick edit" \notin Hiccups
    PROVE  GraphInv /\ SkipInv /\ [Next]_vars => SkipInv'
<1> SUFFICES ASSUME GraphInv, SkipInv, [Next]_vars PROVE SkipInv'
  OBVIOUS
<1>1. CASE Loop
  BY <1>1, QuietSkip, IndexStatSkip, SyncReadSkip, CommitSkip, BeginSkip DEF Loop
<1>2. CASE IndexFails \/ SyncFails \/ Rewatch \/ DebounceEnds
  BY <1>2, QuietSkip, BeginSkip
<1>3. CASE \E f \in Files : Write(f) \/ Remove(f)
  <2>1. PICK f \in Files : Write(f) \/ Remove(f)
    BY <1>3
  <2>2. ~TornIndex(f)
    BY <2>1 DEF Write, Remove, MayEdit
  <2>3. Write(f) => second' = second + 1
    BY DEF Write
  <2> QED
    BY <2>1, <2>2, <2>3, EditSkip
<1>4. CASE UNCHANGED vars
  BY <1>4 DEF vars, SkipInv, DiskInTime, RowsAreSafe, RowIsSafe, Exists, StatOf, Tracked,
              IndexIsFresh, VisitInTime, Between, HasRead, Statted
<1> QED
  BY <1>1, <1>2, <1>3, <1>4 DEF Next

(* A file that a sync passes over because its size and time are those of   *)
(* its row was parsed as it is on disk, unless it was written between the  *)
(* read and the stat of an index, or twice within a second.                *)
THEOREM SkippingIsSafe ==
    ASSUME "torn index" \notin Hiccups, "quick edit" \notin Hiccups
    PROVE  Spec => []SkipIsSafe
<1>1. SkipInv => SkipIsSafe
  BY DEF SkipInv, SkipIsSafe, RowsAreSafe, RowIsSafe
<1>2. GraphInv /\ SkipInv /\ [Next]_vars => SkipInv'
  BY NextSkipInv
<1> QED
  BY <1>1, <1>2, InitGraphInv, NextGraphInv, InitSkipInv, PTL DEF Spec

-----------------------------------------------------------------------------
(* The queries                                                             *)

queryView == <<vars, queryVars>>

(* A step of a query is none of the thread or of an editor.                *)
LEMMA QueryStepIsGraphStep == QueryNext => [Next]_vars
<1>1. Beside => Next
  BY DEF Beside, Next
<1>2. OpenDb \/ Ask \/ Read \/ Deliver => UNCHANGED vars
  BY DEF OpenDb, Ask, Read, Deliver, Search, FindTargets, FindFile, ReadReferences,
         OutlineImports, OutlineSymbols
<1> QED
  BY <1>1, <1>2 DEF QueryNext

(* The graph beside queries is the graph: GraphQuery implements GraphSync. *)
THEOREM QueriesLeaveTheGraph == QuerySpec => Spec
<1>1. QueryInit => Init
  BY DEF QueryInit
<1>2. [QueryNext]_queryView => [Next]_vars
  BY QueryStepIsGraphStep DEF queryView, vars
<1> QED
  BY <1>1, <1>2, PTL DEF QuerySpec, Spec, queryView

(* Whatever is asked, the types, the consistency of the committed tables   *)
(* and, as in SkippingIsSafe, the stat pre-filter's safety hold.           *)
THEOREM GraphBesideQueries == QuerySpec => [](TypeOK /\ GraphConsistent)
BY QueriesLeaveTheGraph, GraphTypes, GraphStaysConsistent, PTL

(* The pre-filter is as safe beside queries as it is without them, under   *)
(* the same conditions.                                                    *)
THEOREM SkippingBesideQueries ==
    ASSUME "torn index" \notin Hiccups, "quick edit" \notin Hiccups
    PROVE  QuerySpec => []SkipIsSafe
BY QueriesLeaveTheGraph, SkippingIsSafe, PTL

-----------------------------------------------------------------------------
(* What consistent tables say                                              *)

(* The nodes of a name are those of the files that define it, and the      *)
(* references to it those of the files that refer to it.                   *)
LEMMA NodesOfName ==
    ASSUME GraphInv, NEW name \in Names
    PROVE  /\ {n \in db.nodes : n[2] = name} = Defining(name) \X {name}
           /\ \A f \in Files : <<f, name>> \in db.refs <=> f \in Referring(name)
BY DEF GraphInv, GraphConsistent, Consistent, Defining, Referring, Parsed

(* The edges into a node that refer to it, each with its kind.             *)
LEMMA EdgesInto ==
    ASSUME GraphInv, NEW n \in db.nodes, NEW kind \in {"calls", "imports"}
    PROVE  {e.from : e \in Inbound(n, {kind})}
             = IF kind = "imports" THEN Importing(n[2]) ELSE Referring(n[2]) \ Importing(n[2])
<1>1. n \in Files \X Names /\ n[2] \in Names
  BY DEF GraphInv, TypeOK, Tables
<1>2. ASSUME NEW e
      PROVE  e \in Inbound(n, {kind}) <=>
                /\ \E f \in Referring(n[2]) : e = [kind |-> "refers", from |-> f, to |-> n]
                /\ (kind = "imports") <=> e.from \in Importing(n[2])
  <2>1. e \in db.edges /\ e.kind # "contains" /\ e.to = n
          <=> \E f \in Referring(n[2]) : e = [kind |-> "refers", from |-> f, to |-> n]
    <3>1. db.edges = ContainsEdges(db.nodes) \cup ReferEdges(db.refs, db.nodes)
      BY DEF GraphInv, GraphConsistent, Consistent
    <3>2. \A x \in ContainsEdges(db.nodes) : x.kind = "contains"
      BY DEF ContainsEdges
    <3>3. ASSUME e \in ReferEdges(db.refs, db.nodes), e.to = n
          PROVE  \E r \in db.refs : r[2] = n[2] /\ e = [kind |-> "refers", from |-> r[1], to |-> n]
      <4>1. PICK p \in db.refs \X db.nodes :
               p[1][2] = p[2][2] /\ e = [kind |-> "refers", from |-> p[1][1], to |-> p[2]]
        BY <3>3 DEF ReferEdges
      <4>2. p[2] = n /\ p[1] \in db.refs
        BY <3>3, <4>1
      <4> QED
        BY <4>1, <4>2
    <3>4. ASSUME NEW r \in db.refs, r[2] = n[2], e = [kind |-> "refers", from |-> r[1], to |-> n]
          PROVE  e \in ReferEdges(db.refs, db.nodes) /\ e.to = n
      <4>1. <<r, n>> \in {p \in db.refs \X db.nodes : p[1][2] = p[2][2]}
        BY <3>4
      <4>2. e = [kind |-> "refers", from |-> <<r, n>>[1][1], to |-> <<r, n>>[2]]
        BY <3>4
      <4> QED
        BY <3>4, <4>1, <4>2 DEF ReferEdges
    <3>5. \A r : r \in db.refs /\ r[2] = n[2] <=> \E f \in Referring(n[2]) : r = <<f, n[2]>>
      <4>1. db.refs \in SUBSET (Files \X Names)
        BY DEF GraphInv, TypeOK, Tables
      <4>2. Referring(n[2]) \subseteq Files
        BY DEF Referring
      <4> QED
        BY <4>1, <4>2, <1>1, NodesOfName
    <3>6. \A f : [kind |-> "refers", from |-> f, to |-> n].kind = "refers"
      OBVIOUS
    <3>7. e \in ReferEdges(db.refs, db.nodes) /\ e.to = n
            <=> \E f \in Referring(n[2]) : e = [kind |-> "refers", from |-> f, to |-> n]
      <4>1. ASSUME e \in ReferEdges(db.refs, db.nodes), e.to = n
            PROVE  \E f \in Referring(n[2]) : e = [kind |-> "refers", from |-> f, to |-> n]
        BY <4>1, <3>3, <3>5
      <4>2. ASSUME NEW f \in Referring(n[2]), e = [kind |-> "refers", from |-> f, to |-> n]
            PROVE  e \in ReferEdges(db.refs, db.nodes) /\ e.to = n
        <5>1. <<f, n[2]>> \in db.refs
          BY <3>5
        <5> QED
          BY <4>2, <5>1, <3>4
      <4> QED
        BY <4>1, <4>2
    <3> QED
      BY <3>1, <3>2, <3>6, <3>7
  <2>2. ASSUME NEW f \in Referring(n[2]), e = [kind |-> "refers", from |-> f, to |-> n]
        PROVE  EdgeKind(e) = IF f \in Importing(n[2]) THEN "imports" ELSE "calls"
    BY <2>2 DEF EdgeKind, Importing, Parsed
  <2>3. e.kind = "contains" => EdgeKind(e) = "contains"
    BY DEF EdgeKind
  <2> QED
    BY <2>1, <2>2, <2>3 DEF Inbound
<1> DEFINE said == IF kind = "imports" THEN Importing(n[2]) ELSE Referring(n[2]) \ Importing(n[2])
<1>3. \A e \in Inbound(n, {kind}) : e.from \in said
  BY <1>2
<1>4. ASSUME NEW f \in said PROVE \E e \in Inbound(n, {kind}) : f = e.from
  <2> DEFINE e == [kind |-> "refers", from |-> f, to |-> n]
  <2>1. f \in Referring(n[2]) /\ ((kind = "imports") <=> f \in Importing(n[2]))
    BY DEF Importing
  <2>2. e.from = f
    OBVIOUS
  <2> HIDE DEF said
  <2>3. e \in Inbound(n, {kind})
    BY <2>1, <2>2, <1>2
  <2> QED
    BY <2>2, <2>3
<1> HIDE DEF said
<1> QED
  BY <1>3, <1>4 DEF said

-----------------------------------------------------------------------------
(* Queries under way                                                       *)

(* A lookup or an outline with some of its fields replaced.                *)
LEMMA LookupWith ==
    ASSUME NEW q, NEW todo_, NEW answer_, NEW step_,
           q = [step |-> "references", tool |-> "references", asked |-> q.asked,
                todo |-> q.todo, answer |-> q.answer, moved |-> q.moved]
    PROVE  [q EXCEPT !.todo = todo_, !.answer = answer_, !.step = step_]
             = [step |-> step_, tool |-> "references", asked |-> q.asked,
                todo |-> todo_, answer |-> answer_, moved |-> q.moved]
<1> DEFINE u == [q EXCEPT !.todo = todo_]
           v == [u EXCEPT !.answer = answer_]
<1>1. u = [step |-> "references", tool |-> "references", asked |-> q.asked,
           todo |-> todo_, answer |-> q.answer, moved |-> q.moved]
  OBVIOUS
<1>2. [q EXCEPT !.todo = todo_, !.answer = answer_, !.step = step_] = [v EXCEPT !.step = step_]
  BY Zenon
<1> HIDE DEF u
<1>3. v = [step |-> "references", tool |-> "references", asked |-> q.asked,
           todo |-> todo_, answer |-> answer_, moved |-> q.moved]
  BY <1>1
<1> HIDE DEF v
<1> QED
  BY <1>2, <1>3

(* An outline whose marks a commit has set.                                *)
LEMMA OutlineWith ==
    ASSUME NEW q, NEW moved_, NEW renumbered_,
           q = [step |-> "outline", tool |-> "outline", asked |-> q.asked,
                imports |-> q.imports, moved |-> q.moved, renumbered |-> q.renumbered]
    PROVE  [q EXCEPT !.moved = moved_, !.renumbered = renumbered_]
             = [step |-> "outline", tool |-> "outline", asked |-> q.asked,
                imports |-> q.imports, moved |-> moved_, renumbered |-> renumbered_]
<1> DEFINE u == [q EXCEPT !.moved = moved_]
<1>1. u = [step |-> "outline", tool |-> "outline", asked |-> q.asked,
           imports |-> q.imports, moved |-> moved_, renumbered |-> q.renumbered]
  OBVIOUS
<1>2. [q EXCEPT !.moved = moved_, !.renumbered = renumbered_] = [u EXCEPT !.renumbered = renumbered_]
  BY Zenon
<1> HIDE DEF u
<1> QED
  BY <1>1, <1>2

Targets(name) == {n \in db.nodes : n[2] = name}

Declared(lookup) == IF lookup.declare THEN Declarations(Targets(lookup.name)) ELSE {}

(* While no commit has fallen into it, a lookup has the entries of the     *)
(* targets it has come to; it is not over before the last of them.         *)
LookupInv ==
    query # NoQuery /\ query.step = "references" =>
        /\ query = [step |-> "references", tool |-> "references", asked |-> query.asked,
                    todo |-> query.todo, answer |-> query.answer, moved |-> query.moved]
        /\ query.asked \in Lookups
        /\ query.moved = {} =>
            /\ query.todo \subseteq Targets(query.asked.name)
            /\ query.answer =
                 Declared(query.asked)
                 \cup UNION {EntriesOf(n, query.asked.kind) :
                                n \in Targets(query.asked.name) \ query.todo}

(* While no commit has fallen into it, an outline is of a file that the    *)
(* graph tracks, under the id it was found by.                             *)
OutlineInv ==
    query # NoQuery /\ query.step = "outline" =>
        /\ query = [step |-> "outline", tool |-> "outline", asked |-> query.asked,
                    imports |-> query.imports, moved |-> query.moved,
                    renumbered |-> query.renumbered]
        /\ query.asked \in Files
        /\ query.moved = {} =>
            /\ query.renumbered = {}
            /\ Tracked(db, query.asked)
            /\ query.imports \in {{NoId}, Imported[Parsed(query.asked)]}

QueryInv ==
    /\ query # NoQuery => query.step \in {"references", "outline", "answered"}
    /\ LookupInv /\ OutlineInv

(* A step after which the tables say the same of every text.               *)
SaysTheSame ==
    /\ db'.nodes = db.nodes /\ db'.edges = db.edges
    /\ \A f \in Files : /\ Tracked(db', f) <=> Tracked(db, f)
                        /\ db'.files[f].content = db.files[f].content

(* A commit that has replaced nothing is such a step.                      *)
LEMMA NothingReplaced ==
    ASSUME GraphInv, GraphInv', Replaced = {}
    PROVE  SaysTheSame
<1> USE DEF GraphInv, GraphConsistent
<1>1. \A f \in Files : /\ Tracked(db', f) <=> Tracked(db, f)
                       /\ db'.files[f].content = db.files[f].content
  <2>1. CASE phase = "indexing" /\ phase' = "attaching"
    BY <2>1 DEF Replaced, Tracked
  <2>2. CASE ~(phase = "indexing" /\ phase' = "attaching")
    BY <2>2 DEF Replaced, Tracked
  <2> QED
    BY <2>1, <2>2
<1>2. db'.nodes = db.nodes /\ db'.refs = db.refs
  BY <1>1 DEF Consistent
<1>3. db'.edges = db.edges
  BY <1>2 DEF Consistent
<1> QED
  BY <1>1, <1>2, <1>3 DEF SaysTheSame

(* The entries of a node stay what they are in such a step.                *)
LEMMA SameEntries ==
    ASSUME GraphInv, SaysTheSame, NEW n, NEW kind
    PROVE  EntriesOf(n, kind)' = EntriesOf(n, kind)
<1>1. db.edges \in SUBSET Edge
  BY DEF GraphInv, TypeOK, Tables
<1>2. \A e \in db.edges : EdgeKind(e)' = EdgeKind(e)
  BY <1>1 DEF EdgeKind, SaysTheSame, Edge
<1>3. \A kinds : /\ Inbound(n, kinds)' = Inbound(n, kinds)
                 /\ Outbound(n, kinds)' = Outbound(n, kinds)
                 /\ Inbound(n, kinds) \subseteq db.edges
                 /\ Outbound(n, kinds) \subseteq db.edges
  BY <1>2 DEF Inbound, Outbound, SaysTheSame
<1>4. AllReferences(n)' = AllReferences(n)
  BY <1>2, <1>3 DEF AllReferences
<1>5. Callers(n)' = Callers(n) /\ Callees(n)' = Callees(n) /\ Importers(n)' = Importers(n)
  BY <1>3 DEF Callers, Callees, Importers
<1> QED
  BY <1>4, <1>5 DEF EntriesOf

(* Tables that say the same give a lookup the same targets.                *)
LEMMA SameTargets ==
    ASSUME GraphInv, SaysTheSame, NEW lookup
    PROVE  /\ Targets(lookup.name)' = Targets(lookup.name)
           /\ Declared(lookup)' = Declared(lookup)
BY DEF Targets, Declared, SaysTheSame

(* A step that keeps what a query holds and what the tables say keeps what *)
(* is known of the query.                                                  *)
LEMMA QueryStays ==
    ASSUME GraphInv, QueryInv, UNCHANGED query, SaysTheSame
    PROVE  QueryInv'
<1>1. LookupInv'
  BY SameTargets, SameEntries DEF QueryInv, LookupInv
<1>2. OutlineInv'
  BY DEF QueryInv, OutlineInv, SaysTheSame, Parsed
<1> QED
  BY <1>1, <1>2 DEF QueryInv

(* A commit is noted by the query it falls into, unless it replaces        *)
(* nothing that the query could have found.                                *)
LEMMA BesideStep ==
    ASSUME GraphInv, GraphInv', QueryInv, Beside
    PROVE  QueryInv' /\ ~Answered'
<1>1. CASE UNCHANGED query /\ (query = NoQuery \/ db' = db)
  <2>1. CASE query = NoQuery
    BY <1>1, <2>1 DEF QueryInv, LookupInv, OutlineInv, Answered
  <2>2. CASE db' = db
    <3>1. SaysTheSame
      BY <2>2 DEF SaysTheSame, Tracked
    <3> QED
      BY <1>1, <3>1, QueryStays DEF Beside, Answered
  <2> QED
    BY <1>1, <2>1, <2>2
<1>2. CASE query # NoQuery /\ db' # db /\ query.step = "references"
  <2>1. query' = [step |-> "references", tool |-> "references", asked |-> query.asked,
                  todo |-> query.todo, answer |-> query.answer,
                  moved |-> query.moved \cup Replaced]
    BY <1>2 DEF Beside, NoteCommit, QueryInv, LookupInv
  <2>2. ASSUME query'.moved = {} PROVE query.moved = {} /\ SaysTheSame
    BY <2>1, <2>2, NothingReplaced
  <2>3. LookupInv'
    BY <1>2, <2>1, <2>2, SameTargets, SameEntries DEF QueryInv, LookupInv
  <2> QED
    BY <2>1, <2>3 DEF QueryInv, OutlineInv, Answered
<1>3. CASE query # NoQuery /\ db' # db /\ query.step = "outline"
  <2>1. query' = [step |-> "outline", tool |-> "outline", asked |-> query.asked,
                  imports |-> query.imports, moved |-> query.moved \cup Replaced,
                  renumbered |-> query.renumbered \cup Renumbered]
    <3>1. query' = [query EXCEPT !.moved = @ \cup Replaced, !.renumbered = @ \cup Renumbered]
      BY <1>3 DEF Beside, NoteCommit
    <3>2. query = [step |-> "outline", tool |-> "outline", asked |-> query.asked,
                   imports |-> query.imports, moved |-> query.moved,
                   renumbered |-> query.renumbered]
      BY <1>3 DEF QueryInv, OutlineInv
    <3> QED
      BY <3>1, <3>2, OutlineWith
  <2>2. ASSUME query'.moved = {}
        PROVE  query.moved = {} /\ SaysTheSame /\ Renumbered = {}
    <3>1. query.moved = {} /\ Replaced = {}
      BY <2>1, <2>2
    <3>2. Renumbered \subseteq Replaced
      BY DEF Renumbered, Replaced
    <3> QED
      BY <3>1, <3>2, NothingReplaced
  <2>3. OutlineInv'
    BY <1>3, <2>1, <2>2 DEF QueryInv, OutlineInv, SaysTheSame, Parsed
  <2> QED
    BY <2>1, <2>3 DEF QueryInv, LookupInv, Answered
<1>4. CASE query # NoQuery /\ query.step = "answered"
  BY <1>4 DEF Beside, Answered
<1> QED
  BY <1>1, <1>2, <1>3, <1>4 DEF Beside, NoteCommit, QueryInv

-----------------------------------------------------------------------------
(* The statements of a query                                               *)

(* A search is answered at once.                                           *)
LEMMA SearchStep ==
    ASSUME GraphInv, QueryInv, NEW q \in Queries, NEW limit \in Limits, Search(q, limit)
    PROVE  QueryInv' /\ query'.tool = "search" /\ SearchSaysWhatWasParsed
<1> DEFINE named == {n \in Files \X Names :
                       /\ n[1] \in Defining(n[2])
                       /\ \E word \in q.words : n[2] \in Begun[word]}
<1>1. PICK s \in Shown(IF created THEN FtsHits(q) ELSE TextHits(q), limit) :
        query' = [step |-> "answered", tool |-> "search", asked |-> q, answer |-> s,
                  backend |-> IF created THEN "graph_fts" ELSE "text_fallback",
                  complete |-> ResultComplete(s, limit)]
  BY DEF Search
<1>2. q.words \in SUBSET Names /\ limit \in Nat
  BY QueriesAssumption
<1>3. FtsHits(q) = named
  <2>1. db.fts = db.nodes /\ db.nodes \in SUBSET (Files \X Names)
    BY DEF GraphInv, GraphConsistent, Consistent, TypeOK, Tables
  <2>2. \A n \in Files \X Names : n \in db.nodes <=> n[1] \in Defining(n[2])
    BY DEF GraphInv, GraphConsistent, Consistent, Defining, Parsed
  <2>3. FtsHits(q) = {n \in db.nodes : n[2] \in BuildFtsQuery(q)}
    BY <2>1 DEF FtsHits, GraphInv, GraphConsistent, Consistent
  <2>4. \A name : name \in BuildFtsQuery(q) <=> \E word \in q.words : name \in Begun[word]
    BY DEF BuildFtsQuery
  <2> QED
    BY <2>1, <2>2, <2>3, <2>4
<1>4. IsFiniteSet(FtsHits(q))
  <2>1. IsFiniteSet(Files \X Names)
    BY FiniteAssumption, FS_Product
  <2> QED
    BY <2>1, FS_Subset DEF FtsHits, GraphInv, TypeOK, Tables
<1>5. ASSUME created, Cardinality(s) < limit PROVE s = FtsHits(q)
  <2>1. s \in SUBSET FtsHits(q)
    BY <1>1, <1>5 DEF Shown
  <2>2. Cardinality(s) = IF Cardinality(FtsHits(q)) < limit THEN Cardinality(FtsHits(q)) ELSE limit
    BY <1>1, <1>5 DEF Shown
  <2>3. Cardinality(s) = Cardinality(FtsHits(q))
    BY <1>2, <1>5, <2>2
  <2> QED
    BY <1>4, <2>1, <2>3, FS_Subset
<1>6. created => s \subseteq FtsHits(q)
  BY <1>1 DEF Shown
<1>7. SearchSaysWhatWasParsed
  BY <1>1, <1>3, <1>5, <1>6 DEF SearchSaysWhatWasParsed, ResultComplete
<1>8. QueryInv'
  BY <1>1 DEF QueryInv, LookupInv, OutlineInv
<1> QED
  BY <1>1, <1>7, <1>8

(* A lookup finds the nodes of its name.                                   *)
LEMMA FindTargetsStep ==
    ASSUME GraphInv, QueryInv, NEW lookup \in Lookups, FindTargets(lookup)
    PROVE  /\ QueryInv'
           /\ Answered' => query'.tool = "references" /\ ReferencesSayWhatWasParsed
<1> DEFINE targets == {n \in db.nodes : n[2] = lookup.name}
<1>1. query' = [step |-> IF targets = {} THEN "answered" ELSE "references",
                tool |-> "references", asked |-> lookup, todo |-> targets,
                answer |-> IF lookup.declare THEN Declarations(targets) ELSE {}, moved |-> {}]
  BY DEF FindTargets
<1>2. db' = db
  BY DEF FindTargets, vars
<1>3. LookupInv'
  <2>1. /\ query'.asked = lookup /\ query'.todo = targets /\ query'.moved = {}
        /\ query'.answer = IF lookup.declare THEN Declarations(targets) ELSE {}
        /\ query'.tool = "references"
    BY <1>1
  <2>2. Targets(lookup.name)' = targets
    BY <1>2 DEF Targets
  <2>3. Declared(lookup)' = IF lookup.declare THEN Declarations(targets) ELSE {}
    BY <1>2 DEF Declared, Targets, Declarations
  <2>4. ASSUME query'.step = "references"
        PROVE  query' = [step |-> "references", tool |-> "references", asked |-> query'.asked,
                         todo |-> query'.todo, answer |-> query'.answer, moved |-> query'.moved]
    BY <1>1, <2>4
  <2>5. UNION {EntriesOf(n, lookup.kind)' : n \in targets \ targets} = {}
    OBVIOUS
  <2> HIDE DEF targets
  <2> QED
    BY <2>1, <2>2, <2>3, <2>4, <2>5 DEF LookupInv
<1>4. ASSUME Answered' PROVE ReferencesSayWhatWasParsed
  <2>1. targets = {}
    BY <1>1, <1>4 DEF Answered
  <2>2. query'.answer = {} /\ query'.asked = lookup
    BY <1>1, <2>1 DEF Declarations
  <2>3. Defining(lookup.name) = {}
    <3>1. lookup.name \in Names
      BY QueriesAssumption
    <3>2. Defining(lookup.name) \X {lookup.name} = {}
      BY <2>1, <3>1, NodesOfName
    <3>3. ASSUME NEW f \in Defining(lookup.name) PROVE FALSE
      <4>1. <<f, lookup.name>> \in Defining(lookup.name) \X {lookup.name}
        BY <3>3
      <4> QED
        BY <3>2, <4>1
    <3> QED
      BY <3>3
  <2> QED
    BY <2>2, <2>3 DEF ReferencesSayWhatWasParsed
<1> QED
  BY <1>1, <1>3, <1>4 DEF QueryInv, OutlineInv

(* What an answer has found as something.                                  *)
Found(answer, as) == {e.node : e \in {e \in answer : e.as = as}}

(* The entries of all targets are what the texts say of the name.          *)
LEMMA EntriesSay ==
    ASSUME GraphInv, NEW lookup \in Lookups, Targets(lookup.name) # {},
           query'.asked = lookup,
           query'.answer = Declared(lookup)
                           \cup UNION {EntriesOf(n, lookup.kind) : n \in Targets(lookup.name)}
    PROVE  ReferencesSayWhatWasParsed
<1> DEFINE name == lookup.name
           targets == Targets(name)
           answer == query'.answer
           calls == Referring(name) \ Importing(name)
<1>1. name \in Names /\ targets = Defining(name) \X {name}
  BY NodesOfName, QueriesAssumption DEF Targets
<1>2. Defining(name) # {}
  BY <1>1
<1>3. \A n \in targets : n \in db.nodes /\ n[2] = name
  BY DEF Targets
<1>4. \A n \in targets :
        /\ {e.from : e \in Inbound(n, {"calls"})} = calls
        /\ {e.from : e \in Inbound(n, {"imports"})} = Importing(name)
  BY <1>3, EdgesInto
<1>5. \A n \in targets : \A x \in EntriesOf(n, lookup.kind) : x.as # "declaration"
  <2>1. \A n : \A x \in Callers(n) \cup Callees(n) \cup Importers(n) : x.as # "declaration"
    BY DEF Callers, Callees, Importers, Entry
  <2>2. ASSUME NEW n, NEW x \in AllReferences(n) PROVE x.as # "declaration"
    <3>1. \A e \in Inbound(n, {"calls", "imports"}) \cup Outbound(n, {"calls", "imports"}) :
             EdgeKind(e) \in {"calls", "imports"}
      BY DEF Inbound, Outbound
    <3>2. \A k \in {"calls", "imports"} :
             InboundAs[k] # "declaration" /\ OutboundAs[k] # "declaration"
      BY DEF InboundAs, OutboundAs
    <3>3. \A as, node : Entry(as, node).as = as
      BY DEF Entry
    <3> QED
      BY <3>1, <3>2, <3>3 DEF AllReferences
  <2> QED
    BY <2>1, <2>2 DEF EntriesOf
<1>6. \A x \in Declared(lookup) : x.as = "declaration"
  BY DEF Declared, Declarations, Entry
<1>7. Found(answer, "declaration") = IF lookup.declare THEN targets ELSE {}
  <2>1. \A x : x \in answer /\ x.as = "declaration" <=> x \in Declared(lookup)
    BY <1>5, <1>6
  <2>2. \A n : Entry("declaration", n).node = n
    BY DEF Entry
  <2>3. Declared(lookup) = IF lookup.declare THEN {Entry("declaration", n) : n \in targets} ELSE {}
    BY DEF Declared, Declarations
  <2> HIDE DEF answer, targets
  <2> QED
    BY <2>1, <2>2, <2>3 DEF Found
<1>8. \A x : x \in answer <=> x \in Declared(lookup) \/ \E n \in targets : x \in EntriesOf(n, lookup.kind)
  OBVIOUS
<1>9. ASSUME NEW as, as # "declaration", NEW S,
             \A n \in targets : \A x : x \in EntriesOf(n, lookup.kind) /\ x.as = as
                                        <=> \E f \in S : x = Entry(as, f)
      PROVE  Found(answer, as) = S
  <2>1. PICK t \in targets : TRUE
    OBVIOUS
  <2> HIDE DEF answer, targets
  <2>2. \A x : x \in answer /\ x.as = as <=> \E f \in S : x = Entry(as, f)
    BY <2>1, <1>6, <1>9, <1>8
  <2>3. \A n : Entry(as, n).node = n
    BY DEF Entry
  <2>4. ASSUME NEW x \in Found(answer, as) PROVE x \in S
    <3>1. PICK e \in answer : e.as = as /\ x = e.node
      BY <2>4 DEF Found
    <3>2. PICK f \in S : e = Entry(as, f)
      BY <2>2, <3>1
    <3> QED
      BY <2>3, <3>1, <3>2
  <2>5. ASSUME NEW x \in S PROVE x \in Found(answer, as)
    <3>1. Entry(as, x) \in answer /\ Entry(as, x).as = as
      BY <2>2
    <3> QED
      BY <2>3, <3>1 DEF Found
  <2> QED
    BY <2>4, <2>5
<1>10. ASSUME lookup.kind = "callers" PROVE Found(answer, "caller") = calls
  <2>1. \A n \in targets : EntriesOf(n, lookup.kind) = {Entry("caller", f) : f \in calls}
    BY <1>4, <1>10 DEF EntriesOf, Callers
  <2>2. \A f : Entry("caller", f).as = "caller"
    BY DEF Entry
  <2> HIDE DEF answer, targets, calls
  <2> QED
    BY <2>1, <2>2, <1>9
<1>11. ASSUME lookup.kind = "imports" PROVE Found(answer, "import") = Importing(name)
  <2>1. \A n \in targets : EntriesOf(n, lookup.kind) = {Entry("import", f) : f \in Importing(name)}
    BY <1>4, <1>11 DEF EntriesOf, Importers
  <2>2. \A f : Entry("import", f).as = "import"
    BY DEF Entry
  <2> HIDE DEF answer, targets
  <2> QED
    BY <2>1, <2>2, <1>9
<1>12. ASSUME lookup.kind = "all"
       PROVE  /\ Found(answer, "calls:inbound") = calls
              /\ Found(answer, "imports:inbound") = Importing(name)
  <2>1. ASSUME NEW n \in targets, NEW x
        PROVE  /\ x \in EntriesOf(n, "all") /\ x.as = "calls:inbound"
                    <=> \E f \in calls : x = Entry("calls:inbound", f)
               /\ x \in EntriesOf(n, "all") /\ x.as = "imports:inbound"
                    <=> \E f \in Importing(name) : x = Entry("imports:inbound", f)
    <3>1. \A as, node : Entry(as, node).as = as
      BY DEF Entry
    <3>2. /\ \A e \in Inbound(n, {"calls", "imports"}) : EdgeKind(e) \in {"calls", "imports"}
          /\ Inbound(n, {"calls"}) = {e \in Inbound(n, {"calls", "imports"}) : EdgeKind(e) = "calls"}
          /\ Inbound(n, {"imports"}) = {e \in Inbound(n, {"calls", "imports"}) : EdgeKind(e) = "imports"}
          /\ \A e \in Outbound(n, {"calls", "imports"}) : EdgeKind(e) \in {"calls", "imports"}
      BY DEF Inbound, Outbound
    <3>3. /\ InboundAs["calls"] = "calls:inbound" /\ InboundAs["imports"] = "imports:inbound"
          /\ OutboundAs["calls"] = "calls:outbound" /\ OutboundAs["imports"] = "imports:outbound"
      BY DEF InboundAs, OutboundAs
    <3>4. EntriesOf(n, "all") = AllReferences(n)
      BY DEF EntriesOf
    <3>5. x \in AllReferences(n) /\ x.as = "calls:inbound"
            <=> \E e \in Inbound(n, {"calls"}) : x = Entry("calls:inbound", e.from)
      BY <3>1, <3>2, <3>3 DEF AllReferences
    <3>6. x \in AllReferences(n) /\ x.as = "imports:inbound"
            <=> \E e \in Inbound(n, {"imports"}) : x = Entry("imports:inbound", e.from)
      BY <3>1, <3>2, <3>3 DEF AllReferences
    <3>7. /\ {e.from : e \in Inbound(n, {"calls"})} = calls
          /\ {e.from : e \in Inbound(n, {"imports"})} = Importing(name)
      BY <1>4
    <3> HIDE DEF calls, targets
    <3> QED
      BY <3>4, <3>5, <3>6, <3>7
  <2> HIDE DEF answer, targets, calls
  <2> QED
    BY <1>9, <1>12, <2>1
<1>13. \A n \in targets : \A kinds : Outbound(n, kinds) = {}
  <2>1. \A n \in targets : n \in Files \X Names
    BY <1>3 DEF GraphInv, TypeOK, Tables
  <2>2. \A e \in db.edges : e.from \in Files
    BY DEF GraphInv, TypeOK, Tables, Edge
  <2> HIDE DEF targets
  <2> QED
    BY <2>1, <2>2, NodesAssumption DEF Outbound
<1>14. ASSUME lookup.kind = "callees" PROVE Found(answer, "callee") = {}
  <2>1. \A n \in targets : EntriesOf(n, lookup.kind) = {}
    BY <1>13, <1>14 DEF EntriesOf, Callees
  <2> HIDE DEF answer, targets
  <2> QED
    BY <2>1, <1>9
<1>15. ASSUME lookup.kind = "all", NEW as \in {"calls:outbound", "imports:outbound"}
       PROVE  Found(answer, as) = {}
  <2>1. ASSUME NEW n \in targets, NEW x \in EntriesOf(n, "all") PROVE x.as # as
    <3>1. \A e \in Inbound(n, {"calls", "imports"}) : EdgeKind(e) \in {"calls", "imports"}
      BY DEF Inbound
    <3>2. /\ InboundAs["calls"] = "calls:inbound" /\ "calls:inbound" # as
          /\ InboundAs["imports"] = "imports:inbound" /\ "imports:inbound" # as
      BY DEF InboundAs
    <3>3. \A a, node : Entry(a, node).as = a
      BY DEF Entry
    <3>4. AllReferences(n) = {Entry(InboundAs[EdgeKind(e)], e.from) :
                                e \in Inbound(n, {"calls", "imports"})}
      BY <1>13 DEF AllReferences
    <3>5. EntriesOf(n, "all") = AllReferences(n)
      BY DEF EntriesOf
    <3>6. PICK e \in Inbound(n, {"calls", "imports"}) : x = Entry(InboundAs[EdgeKind(e)], e.from)
      BY <2>1, <3>4, <3>5
    <3> QED
      BY <3>1, <3>2, <3>3, <3>6
  <2> DEFINE none == {}
  <2>2. as # "declaration"
    OBVIOUS
  <2>3. \A n \in targets : \A x : x \in EntriesOf(n, lookup.kind) /\ x.as = as
                                     <=> \E f \in none : x = Entry(as, f)
    BY <2>1, <1>15
  <2> HIDE DEF answer, targets, none
  <2>4. Found(answer, as) = none
    BY <2>2, <2>3, <1>9
  <2> QED
    BY <2>4 DEF none
<1> QED
  BY <1>1, <1>2, <1>7, <1>10, <1>11, <1>12, <1>14, <1>15 DEF ReferencesSayWhatWasParsed, Found

(* A lookup reads the references of one target after the other.            *)
LEMMA ReadReferencesStep ==
    ASSUME GraphInv, QueryInv, NEW n \in Files \X Names, ReadReferences(n)
    PROVE  /\ QueryInv'
           /\ Answered' => query'.tool = "references" /\ ReferencesSayWhatWasParsed
<1>1. /\ query # NoQuery /\ query.step = "references" /\ n \in query.todo
      /\ UNCHANGED vars
  BY DEF ReadReferences
<1>2. /\ query = [step |-> "references", tool |-> "references", asked |-> query.asked,
                  todo |-> query.todo, answer |-> query.answer, moved |-> query.moved]
      /\ query.asked \in Lookups
  BY <1>1 DEF QueryInv, LookupInv
<1>3. PICK node \in NodeUnderId(n) :
        query' = [query EXCEPT !.todo = @ \ {n},
                               !.answer = @ \cup EntriesOf(node, query.asked.kind),
                               !.step = IF query.todo = {n} THEN "answered" ELSE @]
  BY DEF ReadReferences
<1> DEFINE step == IF query.todo = {n} THEN "answered" ELSE query.step
           todoLeft == query.todo \ {n}
           answer == query.answer \cup EntriesOf(node, query.asked.kind)
<1>4. query' = [step |-> step, tool |-> "references", asked |-> query.asked,
                todo |-> todoLeft, answer |-> answer, moved |-> query.moved]
  <2> HIDE DEF step, todoLeft, answer
  <2>1. query' = [query EXCEPT !.todo = todoLeft, !.answer = answer, !.step = step]
    BY <1>3 DEF step, todoLeft, answer
  <2> QED
    BY <2>1, <1>2, LookupWith
<1>5. ASSUME query.moved = {}
      PROVE  /\ query.todo \subseteq Targets(query.asked.name)
             /\ answer = Declared(query.asked)
                         \cup UNION {EntriesOf(m, query.asked.kind) :
                                        m \in Targets(query.asked.name) \ todoLeft}
  <2>1. node = n
    BY <1>3, <1>5 DEF NodeUnderId
  <2>2. /\ query.todo \subseteq Targets(query.asked.name)
        /\ query.answer = Declared(query.asked)
                          \cup UNION {EntriesOf(m, query.asked.kind) :
                                         m \in Targets(query.asked.name) \ query.todo}
    BY <1>1, <1>5 DEF QueryInv, LookupInv
  <2>3. Targets(query.asked.name) \ todoLeft = (Targets(query.asked.name) \ query.todo) \cup {n}
    BY <1>1, <2>2
  <2> HIDE DEF todoLeft
  <2> QED
    BY <2>1, <2>2, <2>3
<1>6. SaysTheSame
  BY <1>1 DEF vars, SaysTheSame, Tracked
<1> HIDE DEF todoLeft, answer
<1>7. LookupInv'
  <2>1. step = query.step => step = "references"
    BY <1>1
  <2>2. /\ query'.step = step /\ query'.tool = "references" /\ query'.asked = query.asked
        /\ query'.todo = todoLeft /\ query'.answer = answer /\ query'.moved = query.moved
    BY <1>4
  <2>3. todoLeft \subseteq query.todo
    BY DEF todoLeft
  <2> HIDE DEF step
  <2> QED
    BY <1>2, <1>4, <1>5, <1>6, <2>1, <2>2, <2>3, SameTargets, SameEntries DEF LookupInv
<1>8. ASSUME Answered' PROVE query'.tool = "references" /\ ReferencesSayWhatWasParsed
  <2>1. todoLeft = {} /\ query'.moved = query.moved /\ query'.asked = query.asked
        /\ query'.answer = answer
    BY <1>1, <1>4, <1>8 DEF Answered, todoLeft
  <2>2. ASSUME query.moved = {} PROVE ReferencesSayWhatWasParsed
    <3>1. Targets(query.asked.name) # {}
      BY <1>1, <1>5, <2>2
    <3>2. query'.answer = Declared(query.asked)
                          \cup UNION {EntriesOf(m, query.asked.kind) :
                                         m \in Targets(query.asked.name)}
      BY <1>5, <2>1, <2>2
    <3> QED
      BY <1>2, <2>1, <3>1, <3>2, EntriesSay
  <2> QED
    BY <1>4, <2>1, <2>2 DEF ReferencesSayWhatWasParsed
<1> QED
  BY <1>1, <1>4, <1>7, <1>8 DEF QueryInv, OutlineInv

(* An outline is answered from the text, or asks the graph twice more.     *)
LEMMA OutlineStep ==
    ASSUME GraphInv, QueryInv,
           (\E f \in Files : FindFile(f)) \/ OutlineImports \/ OutlineSymbols
    PROVE  /\ QueryInv'
           /\ Answered' => query'.tool = "outline" /\ OutlineSaysWhatWasParsed
<1>1. CASE \E f \in Files : FindFile(f)
  <2>1. PICK f \in Files : FindFile(f)
    BY <1>1
  <2>2. CASE InGraph(f)
    <3>1. query' = [step |-> "outline", tool |-> "outline", asked |-> f,
                    imports |-> {NoId}, moved |-> {}, renumbered |-> {}]
      BY <2>1, <2>2 DEF FindFile
    <3>2. Tracked(db', f)
      BY <2>1, <2>2 DEF FindFile, InGraph, vars
    <3>3. OutlineInv'
      BY <3>1, <3>2 DEF OutlineInv
    <3> QED
      BY <3>1, <3>3 DEF QueryInv, LookupInv, Answered
  <2>3. CASE ~InGraph(f)
    <3>1. PICK s : query' = Outlined(f, {}, s, "text", {})
      BY <2>1, <2>3 DEF FindFile
    <3>2. query'.step = "answered" /\ query'.tool = "outline" /\ query'.backend = "text"
      BY <3>1 DEF Outlined
    <3> QED
      BY <3>2 DEF QueryInv, LookupInv, OutlineInv, OutlineSaysWhatWasParsed
  <2> QED
    BY <2>2, <2>3
<1>2. CASE OutlineImports
  <2>1. PICK f \in FileUnderId(query.asked) :
          query' = [query EXCEPT !.imports =
                      {r[2] : r \in {r \in db.refs :
                                       r[1] = f /\ r[2] \in Imported[db.files[f].content]}}]
    BY <1>2 DEF OutlineImports
  <2> DEFINE imports == {r[2] : r \in {r \in db.refs :
                                         r[1] = f /\ r[2] \in Imported[db.files[f].content]}}
  <2>2. /\ query # NoQuery /\ query.step = "outline" /\ UNCHANGED vars
        /\ query = [step |-> "outline", tool |-> "outline", asked |-> query.asked,
                    imports |-> query.imports, moved |-> query.moved,
                    renumbered |-> query.renumbered]
        /\ query.asked \in Files
    BY <1>2 DEF OutlineImports, QueryInv, OutlineInv
  <2>3. query' = [step |-> "outline", tool |-> "outline", asked |-> query.asked,
                  imports |-> imports, moved |-> query.moved, renumbered |-> query.renumbered]
    <3> HIDE DEF imports
    <3>1. query' = [query EXCEPT !.imports = imports]
      BY <2>1 DEF imports
    <3> QED
      BY <2>2, <3>1
  <2>4. ASSUME query.moved = {}
        PROVE  /\ query.renumbered = {} /\ Tracked(db, query.asked)
               /\ imports = Imported[Parsed(query.asked)]
    <3>1. query.renumbered = {} /\ Tracked(db, query.asked)
      BY <2>2, <2>4 DEF QueryInv, OutlineInv
    <3>2. f = query.asked
      BY <2>1, <3>1 DEF FileUnderId
    <3>3. Parsed(f) \in Contents
      BY <2>2, <3>1, <3>2 DEF GraphInv, TypeOK, Tables, Row, Tracked, Parsed
    <3>4. Imported[Parsed(f)] \subseteq Refs[Parsed(f)] /\ Refs[Parsed(f)] \subseteq Names
      BY <3>3, ImportedAssumption, SyntaxAssumption
    <3>5. \A name \in Names : <<f, name>> \in db.refs <=> name \in Refs[Parsed(f)]
      BY <2>2, <3>1, <3>2, NodesOfName DEF Referring
    <3>6. db.refs \in SUBSET (Files \X Names)
      BY DEF GraphInv, TypeOK, Tables
    <3>7. ASSUME NEW name \in imports PROVE name \in Imported[Parsed(f)]
      BY <3>7 DEF Parsed
    <3>8. ASSUME NEW name \in Imported[Parsed(f)] PROVE name \in imports
      <4>1. <<f, name>> \in db.refs
        BY <3>4, <3>5
      <4>2. <<f, name>> \in {r \in db.refs : r[1] = f /\ r[2] \in Imported[db.files[f].content]}
        BY <4>1 DEF Parsed
      <4> QED
        BY <4>2
    <3> HIDE DEF imports
    <3> QED
      BY <3>1, <3>2, <3>7, <3>8
  <2>5. OutlineInv'
    <3> HIDE DEF imports
    <3>1. db' = db
      BY <2>2 DEF vars
    <3> QED
      BY <2>2, <2>3, <2>4, <3>1 DEF OutlineInv, Parsed
  <2> QED
    BY <2>3, <2>5 DEF QueryInv, LookupInv, Answered
<1>3. CASE OutlineSymbols
  <2>1. PICK f \in FileUnderId(query.asked) :
          query' = Outlined(query.asked, query.imports,
                            {n[2] : n \in {n \in db.nodes : n[1] = f}}, "graph", query.moved)
    BY <1>3 DEF OutlineSymbols
  <2> DEFINE symbols == {n[2] : n \in {n \in db.nodes : n[1] = f}}
  <2>2. /\ query'.step = "answered" /\ query'.tool = "outline" /\ query'.moved = query.moved
        /\ query'.asked = query.asked
        /\ query'.answer = [imports |-> query.imports, symbols |-> symbols]
    BY <2>1 DEF Outlined
  <2>3. ASSUME query.moved = {}
        PROVE  query.imports = Imported[Parsed(query.asked)] /\ symbols = Defs[Parsed(query.asked)]
    <3>1. /\ query.renumbered = {} /\ Tracked(db, query.asked) /\ query.asked \in Files
          /\ query.imports = Imported[Parsed(query.asked)]
      BY <1>3, <2>3 DEF OutlineSymbols, QueryInv, OutlineInv
    <3>2. f = query.asked
      BY <2>1, <3>1 DEF FileUnderId
    <3>3. Parsed(f) \in Contents
      BY <3>1, <3>2 DEF GraphInv, TypeOK, Tables, Row, Tracked, Parsed
    <3>4. Defs[Parsed(f)] \subseteq Names
      BY <3>3, SyntaxAssumption
    <3>5. \A n \in Files \X Names : n[1] = f => (n \in db.nodes <=> n[2] \in Defs[Parsed(f)])
      BY <3>1, <3>2 DEF GraphInv, GraphConsistent, Consistent, Parsed
    <3>6. db.nodes \in SUBSET (Files \X Names)
      BY DEF GraphInv, TypeOK, Tables
    <3>7. ASSUME NEW name \in symbols PROVE name \in Defs[Parsed(f)]
      BY <3>5, <3>6, <3>7
    <3>8. ASSUME NEW name \in Defs[Parsed(f)] PROVE name \in symbols
      <4>1. <<f, name>> \in {n \in db.nodes : n[1] = f}
        BY <3>1, <3>2, <3>4, <3>5
      <4> QED
        BY <4>1
    <3> HIDE DEF symbols
    <3> QED
      BY <3>1, <3>2, <3>7, <3>8
  <2> HIDE DEF symbols
  <2>4. OutlineSaysWhatWasParsed
    BY <2>2, <2>3 DEF OutlineSaysWhatWasParsed
  <2> QED
    BY <2>2, <2>4 DEF QueryInv, LookupInv, OutlineInv
<1> QED
  BY <1>1, <1>2, <1>3

-----------------------------------------------------------------------------
(* What an answer says when it is given.                                   *)
AnswerSays ==
    CASE query'.tool = "search"     -> SearchSaysWhatWasParsed
      [] query'.tool = "references" -> ReferencesSayWhatWasParsed
      [] query'.tool = "outline"    -> OutlineSaysWhatWasParsed

(* A step keeps what a query knows, and an answer given in it is right.    *)
LEMMA AnswerStep ==
    ASSUME GraphInv, GraphInv', QueryInv, [QueryNext]_queryView
    PROVE  QueryInv' /\ (Answered' /\ ~Answered => AnswerSays)
<1>1. CASE Beside
  BY <1>1, BesideStep
<1>2. CASE OpenDb \/ UNCHANGED queryView
  <2>1. UNCHANGED query /\ db' = db
    BY <1>2 DEF OpenDb, queryView, queryVars, vars
  <2>2. SaysTheSame
    BY <2>1 DEF SaysTheSame, Tracked
  <2> QED
    BY <2>1, <2>2, QueryStays DEF Answered
<1>3. CASE Deliver
  BY <1>3 DEF Deliver, QueryInv, LookupInv, OutlineInv, Answered
<1>4. CASE \E q \in Queries, limit \in Limits : Search(q, limit)
  <2>1. QueryInv' /\ query'.tool = "search" /\ SearchSaysWhatWasParsed
    BY <1>4, SearchStep
  <2> QED
    BY <2>1 DEF AnswerSays
<1>5. CASE \/ \E lookup \in Lookups : FindTargets(lookup)
           \/ \E n \in Files \X Names : ReadReferences(n)
  <2>1. QueryInv' /\ (Answered' => query'.tool = "references" /\ ReferencesSayWhatWasParsed)
    BY <1>5, FindTargetsStep, ReadReferencesStep
  <2> QED
    BY <2>1 DEF AnswerSays
<1>6. CASE (\E f \in Files : FindFile(f)) \/ OutlineImports \/ OutlineSymbols
  <2>1. QueryInv' /\ (Answered' => query'.tool = "outline" /\ OutlineSaysWhatWasParsed)
    BY <1>6, OutlineStep
  <2> QED
    BY <2>1 DEF AnswerSays
<1> QED
  BY <1>1, <1>2, <1>3, <1>4, <1>5, <1>6 DEF QueryNext, Ask, Read

(* An answer of so_search, so_references or an outline that no commit fell *)
(* into is what the texts last parsed say, all of it when a search says it *)
(* is complete.                                                            *)
THEOREM AnswersAreTrue == QuerySpec => AnswersSayWhatWasParsed
<1>1. QueryInit => GraphInv /\ QueryInv
  BY InitGraphInv DEF QueryInit, QueryInv, LookupInv, OutlineInv
<1>2. GraphInv /\ [QueryNext]_queryView => GraphInv'
  BY QueryStepIsGraphStep, NextGraphInv DEF queryView, vars
<1>3. GraphInv /\ GraphInv' /\ QueryInv /\ [QueryNext]_queryView
        => QueryInv' /\ [Answered' /\ ~Answered => AnswerSays]_queryView
  BY AnswerStep
<1> QED
  BY <1>1, <1>2, <1>3, PTL
  DEF QuerySpec, AnswersSayWhatWasParsed, AnswerSays, queryView
=============================================================================
