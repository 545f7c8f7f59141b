----------------------------- MODULE GraphQuery -----------------------------
(***************************************************************************)
(* What the tools ask of the code graph while a watch thread rebuilds it:  *)
(* so_search, so_references and the outline of so_read (core/graph/query.rs*)
(* and its callers). A query opens a connection of its own and runs its    *)
(* statements one after the other outside any transaction, so that the     *)
(* thread may commit between two of them; rows found by the first are then *)
(* known to the next by ids that may have been given away. Queries only    *)
(* read, so one at a time stands for them all.                             *)
(***************************************************************************)
EXTENDS GraphSync

CONSTANTS
    Imported,    \* content -> the names it imports; the others it calls
    Begun,       \* word -> the names with a word in them that it begins
    Holding,     \* word -> the names that it is part of
    Queries,     \* what so_search is asked for
    Limits,      \* its limits
    Lookups,     \* what so_references is asked for
    NoQuery,
    NoId         \* an id that no row has any more

ASSUME ImportedAssumption ==
    /\ Imported \in [Contents -> SUBSET Names]
    /\ \A v \in Contents : Imported[v] \subseteq Refs[v]

ASSUME WordsAssumption ==
    /\ Begun \in [Names -> SUBSET Names] /\ Holding \in [Names -> SUBSET Names]
    /\ \A word \in Names : word \in Begun[word] /\ word \in Holding[word]

(* The node of a file is none of a symbol.                                 *)
ASSUME NodesAssumption == \A f \in Files : f \notin Files \X Names

(* Hits are counted: a project has finitely many files and names.          *)
ASSUME FiniteAssumption == IsFiniteSet(Files) /\ IsFiniteSet(Names)

(* A search asks for words, joined by OR or by blanks only.                *)
ASSUME QueriesAssumption ==
    /\ Queries \subseteq [words : SUBSET Names, joined : BOOLEAN]
    /\ Limits \subseteq Nat
    /\ Lookups \subseteq [name : Names, kind : {"all", "callers", "callees", "imports"},
                          declare : BOOLEAN]

VARIABLES
    created,     \* GraphDb::exists
    query        \* the query under way, or answered

queryVars == <<created, query>>

Answered == query # NoQuery /\ query.step = "answered"

-----------------------------------------------------------------------------
(* so_search                                                               *)

(* Every word that is no operator is a term of its own, "word"*, joined by *)
(* OR: it matches the names with a word in them that begins with it.       *)
BuildFtsQuery(q) == UNION {Begun[word] : word \in q.words}

(* The text fallback splits at OR only: words joined by blanks are one     *)
(* needle, which no line of the texts modelled contains.                   *)
ParseFallbackTerms(q) ==
    IF q.joined \/ Cardinality(q.words) = 1 THEN q.words ELSE {}

(* One statement joins the search index with nodes and files. The index    *)
(* holds the paths as well: the names asked for are part of none.          *)
FtsHits(q) ==
    {n \in db.fts \cap db.nodes : n[2] \in BuildFtsQuery(q) /\ Tracked(db, n[1])}

(* A line of the text for each name it defines or uses; a needle may be    *)
(* anywhere in it. Files that are not legible are passed over.             *)
TextHits(q) ==
    {n \in Files \X Names :
        /\ Legible(n[1])
        /\ \E needle \in ParseFallbackTerms(q) : n[2] \in Holding[needle]
        /\ n[2] \in Defs[disk[n[1]].content] \cup Refs[disk[n[1]].content]}

(* At most limit of the hits are shown: the best, or the first met.        *)
Shown(hits, limit) ==
    {s \in SUBSET hits :
        Cardinality(s) = IF Cardinality(hits) < limit THEN Cardinality(hits) ELSE limit}

(* Mistake: a full page is said to be all there is.                        *)
ResultCompleteUpToLimit(shown, limit) == Cardinality(shown) <= limit

ResultComplete(shown, limit) == Cardinality(shown) < limit

(* Without a database the project's text is searched instead.              *)
Search(q, limit) ==
    /\ query = NoQuery
    /\ \E s \in Shown(IF created THEN FtsHits(q) ELSE TextHits(q), limit) :
        query' = [step |-> "answered", tool |-> "search", asked |-> q, answer |-> s,
                  backend |-> IF created THEN "graph_fts" ELSE "text_fallback",
                  complete |-> ResultComplete(s, limit)]
    /\ UNCHANGED <<vars, created>>

-----------------------------------------------------------------------------
(* so_references                                                           *)

EdgeKind(e) ==
    IF e.kind = "contains" THEN "contains"
    ELSE IF e.to[2] \in Imported[db.files[e.from].content] THEN "imports" ELSE "calls"

(* The edges of some kinds that reach a node, and those that leave one;    *)
(* resolved references leave the node of a file.                           *)
Inbound(node, kinds) == {e \in db.edges : e.to = node /\ EdgeKind(e) \in kinds}
Outbound(node, kinds) == {e \in db.edges : e.from = node /\ EdgeKind(e) \in kinds}

Entry(as, node) == [as |-> as, node |-> node]

Declarations(targets) == {Entry("declaration", n) : n \in targets}

Callers(node) == {Entry("caller", e.from) : e \in Inbound(node, {"calls"})}

Callees(node) == {Entry("callee", e.to) : e \in Outbound(node, {"calls"})}

Importers(node) == {Entry("import", e.from) : e \in Inbound(node, {"imports"})}

InboundAs == [calls |-> "calls:inbound", imports |-> "imports:inbound"]
OutboundAs == [calls |-> "calls:outbound", imports |-> "imports:outbound"]

AllReferences(node) ==
    {Entry(InboundAs[EdgeKind(e)], e.from) : e \in Inbound(node, {"calls", "imports"})}
    \cup {Entry(OutboundAs[EdgeKind(e)], e.to) : e \in Outbound(node, {"calls", "imports"})}

EntriesOf(node, kind) ==
    CASE kind = "callers" -> Callers(node)
      [] kind = "callees" -> Callees(node)
      [] kind = "imports" -> Importers(node)
      [] OTHER            -> AllReferences(node)

(* The nodes that carry the name; without one the answer is empty. Without *)
(* a database the call is refused.                                         *)
FindTargets(lookup) ==
    /\ query = NoQuery /\ created
    /\ LET targets == {n \in db.nodes : n[2] = lookup.name}
       IN query' = [step |-> IF targets = {} THEN "answered" ELSE "references",
                    tool |-> "references", asked |-> lookup,
                    todo |-> targets,
                    answer |-> IF lookup.declare THEN Declarations(targets) ELSE {},
                    moved |-> {}]
    /\ UNCHANGED <<vars, created>>

(* What the id of a node found earlier stands for now: a file parsed again *)
(* has given its ids away, to any node inserted since, the nodes of files  *)
(* included, or to none.                                                   *)
NodeUnderId(n) ==
    IF n[1] \notin query.moved THEN {n}
    ELSE {NoId} \cup {m \in db.nodes : m[1] \in query.moved}
                \cup {f \in query.moved : Tracked(db, f)}

(* One statement for each target.                                          *)
ReadReferences(n) ==
    /\ query # NoQuery /\ query.step = "references"
    /\ n \in query.todo
    /\ \E node \in NodeUnderId(n) :
        query' = [query EXCEPT !.todo = @ \ {n},
                               !.answer = @ \cup EntriesOf(node, query.asked.kind),
                               !.step = IF query.todo = {n} THEN "answered" ELSE @]
    /\ UNCHANGED <<vars, created>>

-----------------------------------------------------------------------------
(* so_read in outline mode                                                 *)

(* The lines a scan of the text takes for definitions.                     *)
BuildOutlineRegex(v) == SUBSET Defs[v]

Outlined(f, imports, symbols, backend, moved) ==
    [step |-> "answered", tool |-> "outline", asked |-> f, backend |-> backend,
     answer |-> [imports |-> imports, symbols |-> symbols], moved |-> moved]

(* The graph is asked first; a file that it does not hold is scanned.      *)
InGraph(f) == created /\ Tracked(db, f)

(* The text is read, which must be legible, and the row of the file looked *)
(* up.                                                                     *)
FindFile(f) ==
    /\ query = NoQuery
    /\ Legible(f)
    /\ IF InGraph(f)
       THEN query' = [step |-> "outline", tool |-> "outline", asked |-> f,
                      imports |-> {NoId}, moved |-> {}, renumbered |-> {}]
       ELSE \E s \in BuildOutlineRegex(disk[f].content) :
               query' = Outlined(f, {}, s, "text", {})
    /\ UNCHANGED <<vars, created>>

(* A file keeps its id when it is parsed again, not when it is inserted.   *)
FileUnderId(f) ==
    IF f \notin query.renumbered THEN {f}
    ELSE {NoId} \cup {g \in query.renumbered : Tracked(db, g)}

OutlineImports ==
    /\ query # NoQuery /\ query.step = "outline" /\ query.imports = {NoId}
    /\ \E f \in FileUnderId(query.asked) :
        query' = [query EXCEPT !.imports =
                    {r[2] : r \in {r \in db.refs : r[1] = f /\ r[2] \in Imported[db.files[f].content]}}]
    /\ UNCHANGED <<vars, created>>

OutlineSymbols ==
    /\ query # NoQuery /\ query.step = "outline" /\ query.imports # {NoId}
    /\ \E f \in FileUnderId(query.asked) :
        query' = Outlined(query.asked, query.imports, {n[2] : n \in {n \in db.nodes : n[1] = f}},
                          "graph", query.moved)
    /\ UNCHANGED <<vars, created>>

-----------------------------------------------------------------------------
(* The answer is handed over before anything else happens: nothing reads it*)
(* any more.                                                               *)
Deliver ==
    /\ Answered
    /\ query' = NoQuery
    /\ UNCHANGED <<vars, created>>

(* The first watch thread of the project opens the database.               *)
OpenDb ==
    /\ ~created
    /\ created' = TRUE
    /\ UNCHANGED <<vars, query>>

(* The files whose nodes, and the files that themselves, have other ids    *)
(* after a commit: all of them after a full index.                         *)
Replaced ==
    IF phase = "indexing" /\ phase' = "attaching" THEN {f \in Files : Tracked(db, f) \/ Tracked(db', f)}
    ELSE {f \in Files : Tracked(db, f) # Tracked(db', f)
                        \/ (Tracked(db, f) /\ db.files[f].content # db'.files[f].content)}
Renumbered ==
    IF phase = "indexing" /\ phase' = "attaching" THEN Replaced
    ELSE {f \in Files : Tracked(db, f) # Tracked(db', f)}

NoteCommit ==
    IF query = NoQuery \/ db' = db THEN UNCHANGED query
    ELSE query' = IF query.step = "outline"
                  THEN [query EXCEPT !.moved = @ \cup Replaced, !.renumbered = @ \cup Renumbered]
                  ELSE [query EXCEPT !.moved = @ \cup Replaced]

(* The watch thread, once it has opened the database, and editors.         *)
Beside ==
    /\ ~Answered
    /\ \/ created /\ Next
       \/ ~created /\ \E f \in Files : Write(f) \/ Remove(f)
    /\ NoteCommit
    /\ UNCHANGED created

Ask ==
    \/ \E q \in Queries, limit \in Limits : Search(q, limit)
    \/ \E lookup \in Lookups : FindTargets(lookup)
    \/ \E f \in Files : FindFile(f)

Read ==
    \/ \E n \in Files \X Names : ReadReferences(n)
    \/ OutlineImports \/ OutlineSymbols

QueryInit == Init /\ created = FALSE /\ query = NoQuery

QueryNext ==
    \/ Beside
    \/ ~Answered /\ OpenDb
    \/ Ask \/ Read \/ Deliver

QuerySpec == QueryInit /\ [][QueryNext]_<<vars, queryVars>>

-----------------------------------------------------------------------------
(* What the texts last parsed say of a name, whatever the tables hold.     *)
Parsed(f) == db.files[f].content
Defining(name) == {f \in Files : Tracked(db, f) /\ name \in Defs[Parsed(f)]}
Referring(name) == {f \in Files : Tracked(db, f) /\ name \in Refs[Parsed(f)]}
Importing(name) == {f \in Referring(name) : name \in Imported[Parsed(f)]}

SearchSaysWhatWasParsed ==
    LET a == query'
        named == {n \in Files \X Names :
                    /\ n[1] \in Defining(n[2])
                    /\ \E word \in a.asked.words : n[2] \in Begun[word]}
    IN a.backend = "graph_fts" =>
        /\ a.answer \subseteq named
        /\ a.complete => a.answer = named

ReferencesSayWhatWasParsed ==
    LET a == query'
        name == a.asked.name
        kind == a.asked.kind
        found(as) == {e.node : e \in {e \in a.answer : e.as = as}}
        calls == Referring(name) \ Importing(name)
    IN a.moved = {} =>
        /\ found("declaration") = IF a.asked.declare THEN Defining(name) \X {name} ELSE {}
        /\ Defining(name) = {} => a.answer = {}
        /\ Defining(name) # {} =>
            /\ kind = "callers" => found("caller") = calls
            /\ kind = "imports" => found("import") = Importing(name)
            /\ kind = "callees" => found("callee") = {}
            /\ kind = "all" => /\ found("calls:inbound") = calls
                               /\ found("imports:inbound") = Importing(name)
                               /\ found("calls:outbound") = {}
                               /\ found("imports:outbound") = {}

OutlineSaysWhatWasParsed ==
    LET a == query'
        f == a.asked
    IN a.backend = "graph" /\ a.moved = {} =>
        a.answer = [imports |-> Imported[Parsed(f)], symbols |-> Defs[Parsed(f)]]

(* "Treat the returned text as authoritative" (search.rs:25): an answer of *)
(* so_search, so_references or an outline is what the texts last parsed    *)
(* say of the name or the file, all of it when the search says it is       *)
(* complete, after any series of indexes, partial syncs and failures, if   *)
(* no commit fell between the statements of the query. But for what a      *)
(* definition itself calls or imports: "callees" and "all" are to tell it  *)
(* (references.rs:20, 145), but edges leave the nodes of files only, so    *)
(* that the answer says there is none, whatever the texts hold.            *)
AnswersSayWhatWasParsed ==
    [][Answered' /\ ~Answered =>
        CASE query'.tool = "search"     -> SearchSaysWhatWasParsed
          [] query'.tool = "references" -> ReferencesSayWhatWasParsed
          [] query'.tool = "outline"    -> OutlineSaysWhatWasParsed]_<<vars, queryVars>>
=============================================================================
