# A TLA+ verification project for so-context

so-context is a local helper for coding agents. A daemon serves the tools of the
Model Context Protocol (MCP) over a Unix socket, keeps a code graph of every
watched project up to date in SQLite, and suppresses repeated reads of unchanged
files; a bridge process connects each agent's stdio to the daemon; hooks, called
by the agent's host, inject a session id into tool calls and report compactions;
a command line starts, stops, talks to and replaces the daemon, and sets up the agents'
clients. This directory models the stateful parts of that program in TLA+, checks
them with TLC and proves its safety with TLAPS. Paths below are relative to
`src/src/`.

## 1. Inventory

### Components, their state and operations

| component | code | state it keeps | operations |
|---|---|---|---|
| watch registry | `daemon/watch_manager.rs` | project root -> handle (consumers, thread state, stop sender), one mutex | `ensure_watching`, `unwatch`, `unwatch_by_session`, `status` |
| MCP sessions | `mcp/mod.rs`, `daemon/mod.rs` | per connection: id, client name, whether it has roots | `initialize`, `on_initialized`, close, tool calls |
| control listener | `daemon/mod.rs` | none | `watch`, `unwatch`, `compact_reset`, status, one line at a time |
| watch loop | `daemon/watch_manager.rs`, `core/graph/watch.rs` | the debounce clock, the event channel | index, attach, sync per event, stop |
| code graph | `core/graph/{db,index,sync,symbols}.rs` | SQLite tables: files, nodes, edges, unresolved_refs, nodes_fts | `index`, `sync` in one transaction each |
| graph queries and tools | `core/graph/query.rs`, `core/read.rs`, `mcp/tools/{search,references}.rs` | one connection per query, no transaction | search, references, outline, text fallback |
| read cache | `core/file_visit_cache.rs` | (connection, context window, file) -> hash | `file`, `add_file`, `delete_context_window(_globally)` |
| so_read | `mcp/tools/read.rs` | one call in progress | read, look up, add, answer |
| hooks | `hook/pre_tool.rs`, `hook/post_compact.rs`, `setup/so-context.ts` | none | inject the session id, deny native tools, send `compact_reset` |
| MCP bridge | `mcp/transport.rs` | its connection | copy bytes both ways, write control messages |
| daemon control | `daemon/control.rs`, `socket.rs` | pid file and two sockets | start, stop, restart, run |
| so_shell and shell execution | `mcp/tools/shell.rs`, `shell/{exec,runner}.rs` | child, two reader threads, a worker of the runtime | refuse, run with limits and a timeout, answer, record |
| output spool | `shell/output_spool.rs` | a directory of log and meta files | store, rotate, get |
| shell policy | `shell/{policy,command_string,types}.rs` | none | split and judge a command line |
| compressors | `shell/patterns/` | none | shorten the output of a tool |
| event log | `core/events.rs` | a channel, a batch, a SQLite table | enqueue, batch, flush |
| metrics | `core/metrics*` | none | aggregate the event log |
| update and version | `update.rs`, `version.rs` | a cached release, the binary | check, download, replace |
| setup | `setup/` | the agents' configuration files | install, uninstall |

### How they interact

A connection's task in `Daemon::run` and the notification handlers that rmcp
spawns for it both call the registry; so does the control listener for the CLI.
The registry spawns watch threads and stops one by dropping the sender of its
stop channel; the thread shares its state with the handle, and the graph with
the queries of the tools, which read it through connections of their own, and
with a second thread on the same database when things go wrong. Tool calls share
the read cache with the control listener's `compact_reset`, the workers of the
runtime with one another, and the channel to the event log's one writer thread;
the report of `so-context metrics` reads that log from another process. Daemons
and commands are processes that share only three paths in the runtime directory,
and the path of the binary with `so-context update`. Setup shares the agents'
configuration files with the user and with the agents' clients, and what it leaves
there decides which of an agent's native calls reach the hook at all.

### What is hard, and what makes each part correct

* Registry: `ensure_watching` is two critical sections with a spawn between
  them. Correct when a project has a handle exactly while it has consumers, a
  stop sender has one owner, and a thread without one ends.
* Sessions: handlers outlive connections, clients may never answer. Correct when
  a close releases all and only what its connection holds, and handlers end.
* Read cache: a reset travels apart from the reads it concerns, and answers may
  be lost. Correct when "reuse existing context" is said only of content the
  agent's context has.
* Graph: files change while they are looked at; most of a sync is skipped on the
  word of a stat; derived tables must follow partial changes. Correct when the
  committed tables always agree with each other, a skipped file is up to date,
  and the graph catches up with the disk.
* Daemon control: check-then-act on files, crashes, stale files, timeouts.
  Correct when one daemon serves, can be found and stopped, and comes back after
  a crash.
* Output spool: two files per entry, written, read and rotated by several handlers
  with no lock, on views of the directory that are stale when used. Correct when
  an answered run can be fetched whole until it is due to go, and the spool stays
  within its limit.
* Graph queries: several statements outside a transaction, beside a thread that
  gives ids away anew. Correct when an answer that no commit falls into says what
  the texts last parsed say, all of it where it claims so.
* Shell execution: pipes that fill, output beyond a limit, commands that never end
  or leave a descendant behind. Correct when every call is answered within its
  timeout, and `raw_output_complete` is said only of all that was written.
* Event log and metrics: a batch, an interval, a failing database, a process that
  is killed. Correct when, short of a failure, each call that was run has one row
  that says what its agent was told, and the tables of a report agree.
* Policy and routing: a second reader of shell syntax, and two copies of the
  decision in two languages. Correct when a denied call can be made through
  so-context and does the same there, and all clients deny the same calls.
* Setup: files of others, rewritten without a lock. Correct when the user's own
  entries survive, a command that ends has done its work, and no native tool is
  denied without the server that stands in for it.
* Update: a copy and a rename, beside commands that start what is being replaced.
  Correct when a start runs a whole binary, and the one that is installed.

`PROJECT.json` lists every hazard at its line with the properties that address
it, or the reason none does.

## 2. The modules

A definition marked `Mistake:` is part of no specification. It is the definition
after it as a plausible bug would have it; put in its place, a property of a run
fails, and `PROJECT.json` says which.

### WatchRegistry, WatchManager: the registry

`WatchRegistry` is the promise: a map from project to consumers, a project being
watched exactly while it has some. Where calls may overlap (its constant
`Overlapping`), it also has `Displace`, a consumer that takes the place of the
others; the refinement sets the constant to "there are two callers", so that one
caller implements the promise without it. `WatchManager` is the code, one action per
critical section. `consumers` and `watcher` are the `projects` map (the handle's
consumers and the thread whose sender it owns); `call` holds the local state of an
`ensure_watching` that has found nothing and released the lock, between
`FindUnregistered` and `SpawnThread`/`SpawnFails`, and between `SpawnThread` and
`InsertHandle`; `phase` and `root` are the watch thread: indexing, attaching,
watching, failed or exited. A sender is not a variable: it is where it is held,
`HeldByHandle` or `HeldByCall`, and a thread sees its stop signal when nobody
holds it (`SeeStop`), only at the head of its loop, as in the code.
`Consumers` are the keys `client:session`. The idempotence of a second
`ensure_watching` of one key is a union of sets.

### WatchSessions: the registry's callers

Extends `WatchManager`; each of its steps that touches the registry is a step of
`WatchManager`. `conn` is the connection's task, `handler` the task of
`on_initialized`, `todo` the roots a running handler has still to register, one
`ensure_watching` after another. `Initialize` registers the roots of the
handshake's parameters; `AskRoots`, `RootsAnswered` and `FallBackToCwd` are the
roots/list exchange with its four ways to the working directory; `Close` and
`ServeFails` are the two ways a connection is unwatched. The handler's steps are
enabled after `Close`: rmcp (an external library, used at version 1.7.0) runs
notification handlers as spawned tasks that the end of the connection does not
cancel. The CLI's `watch` and `unwatch` come over control connections, with a
session's key or with a generated one.

### ReadCache: repeated reads and compactions

A call of so_read goes through its stages: called, read (the content is now fixed),
then a hit (`notice`), a miss and its insert (`missed`, `full`), or an excerpt,
which leaves the cache alone; then the answer is delivered or lost. Calls of
all sessions and connections interleave at every stage. `context` is what the
agent's context window shows, the thing the cache makes a claim about. `Compact`
empties it and sends a reset; `HandleReset` is `compact_reset`, two critical sections
with its short-circuit: `DeleteContextWindow` for the named connection, and
`DeleteContextWindowGlobally` only when that one had nothing, for which the message
waits under the session's id, as one without a connection does. `Reconnect` is a bridge
started anew for the same session.
The hash is injective on the model's contents (FNV-1a over 64 bits in the code).
A compaction happens between an agent's calls, as the host runs it.

`Hiccups` says what may go wrong around the daemon, so that what the code
guarantees and what it does not can be told apart; the same device is used in the
next two modules.

### GraphTables, GraphSync: the graph and its watch loop

`GraphTables` has no variables: the tables as a record of sets of rows and the
operations a transaction is made of, among them the cascades of the foreign keys
(`Purge`, `DeleteFiles`) and the two derived tables (`Resolve`, `RefreshFts`). A
parsed file is the symbols it defines and the names it refers to.
`GraphSync` is one watch thread: `db` the committed tables, `tx` what the open
transaction sees, `phase` the place in `watch_loop`. An index visits each file in
two steps, read then stat (`IndexRead`, `IndexStat`); a sync in two, stat and
pre-filter, then read and compare (`SyncStat`, `SyncRead`), and removes what it has
not seen (`SyncCommits`). A file may be there and not be text to be read (`Garbled`, a
content that is not UTF-8, or a file without permission): an index fails by it
(`IndexReadFails`, `core/graph/index.rs:53`), a sync goes on and leaves its old row
(`core/graph/sync.rs:146`). `EndWalk` forgets what a walk knew when its transaction ends. Editors write and remove files between any two of these
steps. Events are counted, not told apart, since any event starts the same sync.
`recent` is the debounce clock; `DropEvent` is the `continue` of the loop.

`GraphRecovery` adds a history variable, `missed`: has something happened, since the
index began, that the watch thread learns nothing of?

### DaemonControl: processes and files

One action per system call on the pid file or a socket by a daemon or a command.
`file[p]` is the daemon whose pid file or socket is at path `p`; connecting to a
socket succeeds while the process that bound it lives. `Init` allows every
combination of stale files. The text of the command-line match and the versions
are left out. The program installs no signal handlers: a signal ends the process
without its guard (`dying`, `Leave`).

### OutputSpool: the files of raw output

One action per file operation: `MakeLog` and `FillLog` are the two halves of
`fs::write` of a log, `WriteMeta` the meta's one small write, `RemoveLog` and
`RemoveMeta` the two of `remove_entry`. `job` is a handler in
`store_run_output_in_dir` or `get_spooled_output_in_dir`, with its place (`rot`) in
the `rotate_spool` that each begins with and a store also ends with: `List` is
`read_dir`, `StatEntry` looks at one name of it, `FindExpired` takes the time, and
the removals then work through the `view` that was collected. A removal of a log
that is being written takes its name away; the rest is written where nobody sees.
`dated` and `cut` are kept only for the properties: the first and last mtime of a
log, and the runs whose store an I/O error has cut short. Sizes are counts of
abstract bytes, the clock is the mtimes' resolution.

### GraphQuery: what the tools ask of the graph

Extends `GraphSync`. A query opens a connection of its own and runs its statements
outside any transaction, so each statement is a step and the watch thread may
commit between two of them: `Search` is one statement, `FindTargets` and
`ReadReferences` are one and one per target, `FindFile`, `OutlineImports` and
`OutlineSymbols` three. What the first statement found is known to the next by row
ids, and a commit gives ids away anew: `NodeUnderId` and `FileUnderId` are whatever
may be found under an old id then, or nothing. `created` is `GraphDb::exists`;
without a database a search falls back to the text and references are refused.
The search of the text, ripgrep over files, is one step. A word of a query matches in
the index the names that begin with it (`Begun`: `build_fts_query` makes a prefix of
each) and in the text the names that hold it (`Holding`). Queries only read, so one
at a time stands for all. The run's action constraint `QueriesArePrompt` lets a query
under way be overtaken by commits only: every other step of the watch thread or an
editor leaves the tables alone and might as well come after the query. What it cuts
is a second commit between two statements, and nothing is claimed of an answer that
even one fell into.

### EventLog, ShellExec, Metrics, ShellTool: so_shell and what is recorded of it

`EventLog` is the writer thread of `core/events.rs`: a channel, a batch, and a
transaction for each batch, each of which may fail. `ShellExec` is
`execute_with_limits`: the child, which a full pipe stops (`PipeSize`), a reader
for each stream that keeps what fits and reads on, the poll loop with its timeout,
the kill, and the join of the two readers, which waits for the end of both streams
and so for whoever holds them (`heir`). The handler is synchronous and keeps one of
`Workers` to its end. `Metrics` has no variables: the aggregation of the rows, with
the names commands are counted under. A line of a report is made from the rows at a set
of places of the log, as the code adds up rows in one pass into one entry for each name. `ShellTool` composes them: a call is refused,
fails to spawn, or is answered with its output compressed or as it is, and leaves
its event; `OtherCall` is the event of another tool's call. Output is counted in
chunks.

### CommandString, ShellPolicy, ToolRouting, Setup, AgentCalls: a client with so-context

`CommandString`, `ShellPolicy` and `ToolRouting` have no variables. A command line is
a sequence of chunks: the characters that a parser treats specially one by one, and
text nobody looks into (but for what makes it the name of a variable: `Naming`, and
`Assigning` for a chunk with the first `=`). `BaseProgramName` is `Path::file_name`, with
its treatment of slashes and dots at the end. `ParseSimpleShellCommand` is the code's split, `ShellReading`
the reference: what a POSIX shell makes of the same line. Both are recursive functions,
the state of the reader after each chunk; the characters that they tell apart
are distinct (`CharactersAssumption`). `ShellPolicy` decides which
commands stay native, `HookArgv` in `shell/policy.rs` and `PreferredSoShellArgv` in
the OpenCode plugin, which has its own copy of the code; `ToolRouting` does the same
for native reads and searches, with what `so_read` makes of the retry.
`Setup` is `setup` and `uninstall` of one client as the file operations they are
(`ReadConfig`, `WriteConfig`, `WriteCompanion`, `WriteDoc`), between which the user
edits the same files and at any of which the command may stop. Codex's functions
are Claude's where no other is given. `opaque` in a config names the groups and the events
that the user has in a form the installers do not enter: an inline array of TOML, which
Codex reads, or in Claude's JSON `hooks` that are no array. They are there from the start, or
the user rewrites them (`InlineHooks`), so-context's own handlers with them. Codex's
PostCompact becomes opaque as a whole event; one group of it alone does not. `kept` is what the user has put into the files,
less what one of the excuses named at `UserEntriesSurvive` has lost. `Selections`, which
`EventLog` uses too, is what a retain, a remove or an INSERT OR IGNORE leaves of a list:
the elements at some of its places. `AgentCalls`
composes them: the native calls of an agent in what setup has left.

### Release: the binary under the daemon

Extends `DaemonControl`: each step of it is one of `DaemonControl` (`ControlStep`) or
of an update: fetch, download or build, copy to the staging file in two halves, and
rename. `binary` and `staging` are the two files the updates share; `runs` is the
binary that each daemon was started from. Updates come between commands, unless
`"overlap"` is in `Hiccups`.

## 3. The runs

| run | question | bounds |
|---|---|---|
| `watch_manager` | structural invariants under races; does it implement `WatchRegistry`; `OrphansEnd` | 2 projects, 2 consumers, 2 callers, 2 threads: a race needs two callers of one project, a misfiled thread two projects |
| `watch_race` | finding: the later insert displaces a consumer | 1 project, 2 callers |
| `sessions` | closes, handlers and CLI in every order | 2 connections, 1 control connection, 1 key of each kind, 1 project |
| `sessions_late` | finding: a late handler registers for a closed connection | 1 connection |
| `read_cache` | is every notice true, does a reset forget | 2 sessions, 3 connections (one free for a reconnect), 1 file, 2 contents, 2 calls in flight |
| `graph` | consistency of the tables, safety of the pre-filter, do answers say what was parsed | 2 files, 2 contents of one size and one that cannot be read, 2 symbols that refer to each other, of which one begins with the other, 2 write times, 2 events, one query at a time |
| `graph_live` | does the graph catch up, and a new watch make up for what was missed | the same without queries, 1 write time that may repeat, every hiccup |
| `graph_burst` | finding: the debounce loses the last edit | 1 event, 2 write times |
| `daemon_control` | one findable daemon, over crashes, timeouts and updates | 3 processes (old, new, and one more), 2 commands, 1 update, 2 releases |
| `spool` | can an answered run be fetched whole, does the limit hold | 2 runs of which one fits, 2 handlers, 3 times with a TTL of 1, I/O errors |
| `shell` | is every call answered and recorded, is complete output complete | 2 calls in 3 plans, pipes of 1 chunk, limits 1 and 2 below an output of 3, batches of 2 of up to 3 events, every fault |
| `agent` | do setup and uninstall do what they say, does a denied call work through so-context | 3 commands, 1 edit, 2 places of the binary and one under another name, 2 matchers, groups and events in a form the installers pass over; every line of up to 5 of 9 chunks, and the words the policy knows |

What they show:

* `HandleHasConsumers` and `SingleOwner` hold for every interleaving of the two
  critical sections. What does not hold is that a consumer stays until it leaves:
  two first watches of a project race and the second insert drops the first's
  handle and consumer (`NoConsumerDisplaced`). A stopped thread looks at its stop
  channel only once it is in the loop, so a re-watch during an index has two threads
  on one database; `OrphansEnd` says that the stopped one ends.
* `QuietCloseReleases` is what remains true of a close: if `on_initialized` has
  returned, nothing of the connection is left or comes back. If it has not, the
  connection's consumer stays for ever (`ClosedConnectionHoldsNothing`): in the trace
  the client has no roots, the handler falls back to the working directory while the
  connection is open, and the close falls between the lookup and the insert of its
  `ensure_watching`.
* `WatchEndsOnlyWithConnection`: nobody takes a connection's watch, save the
  displacing insert above.
* With no hiccups `NoticeIsTrue`, `CacheIsShown` and `ResetForgets` hold, and that is
  what the run has: the two hazards of a reset and an answer on their way are not
  covered by a property. Adding
  `"late reset"`, `"lost reply"` or `"no hook"` to `Hiccups` in `MCReadCache.cfg`
  breaks `NoticeIsTrue`: the reset is sent without an answer and may come after
  the next read (`mcp/transport.rs:183`), the visit is recorded before its
  answer arrives (`mcp/tools/read.rs:133`), and a read without a hooked session id
  is filed under its connection, where no reset looks (`read.rs:52`).
* The tables are consistent after every commit whatever editors do, and a file
  the pre-filter passes over is up to date unless it was written between the
  index's read and its stat (`"torn index"`, `core/graph/index.rs:58`) or twice
  within a second at one size (`"quick edit"`, `core/graph/sync.rs:134`). Adding
  either to `Hiccups` in `MCGraphQuery.cfg` breaks `SkipIsSafe`.
* What a search, a lookup of references or an outline answers is what the texts last
  parsed say (`AnswersSayWhatWasParsed`), if no commit fell between the statements
  of the query; a search is one statement and needs no such excuse. If one did,
  the second statement looks under ids that other rows may have by then
  (`core/graph/query.rs:105`). Writing the property showed: `callees` is always empty, and so is the outgoing half
  of `all`, since resolved edges start at the node of a file, not of the caller, while
  `mcp/tools/references.rs:20` and `:145` speak of both (the property says that nothing is
  answered); while the first
  index runs the empty graph answers "No results." and says that this is complete;
  words joined by blanks are OR in the index and one phrase in the text fallback;
  the index holds the paths too, so that a word of a path finds the symbols of its
  file.
* The graph catches up once nothing has been missed since the last watch began (with
  every file that can be read as text; what is shown of another is whatever it last
  was), and a watch begun anew, if it meets no file that cannot be read, makes up for everything that was: edits before the watcher was
  attached, events dropped by the debounce, files that changed under their index or
  within a second, failed syncs and threads (`GraphRecovers`). Short of that an edit
  within the debounce time of a sync that has passed its file stays unseen
  (`GraphCatchesUp` under `"burst edit"`), and so does one whose sync failed.
* One daemon serves and it can be found as long as starts and restarts do not
  overlap; stops may. With `"overlap"` in `Hiccups` of `MCDaemonControl.cfg` two
  daemons pass the check of `daemon/mod.rs:44` and both serve.
* Under the same condition a start or restart that succeeds leaves a daemon that
  runs the binary installed by then, a whole one, wherever an update before it was
  cut (`StartRunsTheUpdate`). Two updates at once share the staging file
  (`update.rs:221`), so that one may rename what the other has half written; the run
  has one.
* Every call of so_shell is answered, whatever its command writes and even if it
  never ends, while a call whose descendant holds its pipes hangs beside it
  (`CallsAreAnswered`). That takes a free worker: after the timeout only the direct
  child is killed (`shell/exec.rs:105`), the readers wait for the descendant, and the
  handler, which is synchronous (`mcp/tools/shell.rs:38`), keeps its thread. With
  `Workers = 1` the property fails.
* `raw_output_complete` is said only of everything the command wrote, what is kept of
  a stream is a beginning of it (`CompleteIsAll`), and the row of a call tells its
  answer, if nothing fails (`CallsAreRecorded`, `NothingLostInTransit`). A failure
  costs what `core/events.rs:128` and `:194` say: all later events, or one batch.
  Whatever the log holds, the tables of a report agree (`ReportAddsUp`). A compressed
  answer can be longer than the raw output after all: the lengths are compared before
  the exit code and the hint at the raw output are added
  (`shell/runner.rs`, `select_rendered_output`), and its saving is counted as none.
* The user's hooks and text survive any three commands and an edit between any two
  of their steps, but for the losses named at `UserEntriesSurvive`: a config that
  does not parse is replaced by an empty one, a write between a command's read and
  its own is lost, `fs::write` cuts the file before it fills it, and without its end
  marker a block ends with the next one's. A setup that ends has done what it says,
  and so has an uninstall (`CommandsDoTheirWork`), wherever the installers could look:
  Codex's pass over a `PreToolUse`, a `PostCompact` or the `hooks` of a group written as
  an inline array (`setup/codex.rs:140`, `:193`, `:334`), Claude's over `hooks` that are
  no array (`setup/claude.rs:223`), and setup reports the hooks as written all the same.
  And if there was a config: Claude's
  uninstall returns at once without `settings.json` and leaves its rules file and the
  block in `CLAUDE.md` (`setup/claude.rs:92`); a binary of another name than
  `so-context` is not recognised again; Claude's PostCompact keeps one handler for each
  place the binary was in, Codex's replaces. No native tool is denied without a server
  (`DenialsHaveATool`), by a hook of a binary of whatever name, as long as there is one
  hook that an uninstall can find: those it cannot, of a binary of another name than
  `so-context` (`setup/claude.rs:240`) or in a form it passes over, it leaves, while it takes
  the server away, and they go on denying. OpenCode's uninstall takes the server first and the plugin
  then, and stopped between the two it leaves a client whose native tools are denied
  in favour of tools it has not.
* A denied line is run by so_shell as the shell would have run it (`RetryWorks`) where
  `ReadsAlike` holds, which leaves out: globs and `~`, which stay literal; `"$HOME"`
  in double quotes; a backslash that double quotes keep, as in `rg "\bfoo"`, denied in
  favour of the argv `rg bfoo` (`shell/command_string.rs:17`); empty quoted words,
  which are dropped; an escaped blank at the end, which is trimmed; a quoted
  assignment, which becomes one. A retried read is answered by so_read unless it
  asks for a mode that so_read lacks or for lines in the wrong order; a native
  read's `offset` and `limit` are not passed on.
* The hook and the OpenCode plugin deny the same calls (`ClientsAgree`) but for
  `KnownToDiffer`, of four kinds: a line of assignments only; a program named with a
  backslash; one whose path ends with a slash, which `Path::file_name` passes over
  (`less/` is `less` to the hook, `shell/policy.rs:171`) and the plugin does not
  (`setup/so-context.ts:112`); and a search whose query is an expression and whose
  pattern is literal. Both deny a
  streaming command in favour of so_shell, which cuts it at its timeout, when a flag
  with a value stands before the subcommand (`kubectl -n prod logs -f`, `docker --context x logs -f`:
  `shell/policy.rs:182`), and the plugin's message names the tools as Claude's client
  does and not as OpenCode's.
* An answered run can be fetched, whole, until its TTL has passed or the runs whose
  logs are no older than its own was when it was made fill the limit, whatever two handlers do on stale views and
  whichever stores or listings fail (`AnsweredIsFetchable`, `FetchIsWhole`). The
  limit holds whenever no handler is in the spool and no store has failed
  (`SpoolBounded`), counted as the code counts: a meta whose log was removed before
  the meta was written is never looked at again and stays for ever. The model
  reaches that state, with two stores or with one that a rotation overtakes. Three
  runs of which two fit were checked too, with a TTL of 0 (4.7 million states).

Bounds of the modules: `Threads`, `Requests`, `Daemons` and `Commands` bound what
is alive at one time and are reused; `MaxSecond` bounds the distinct write times
and `MaxEvents` the events waiting; `MaxTime` bounds the
spool's clock and `Jobs` the handlers in it; `Calls` and `OtherEvents` bound the tool
calls of a daemon, `MaxCommands` and `MaxEdits` what happens to a configuration,
`Updates` the updates at one time and `Releases` those that come out.

### Fairness and what justifies it

* `WatchManager`: a call that has spawned or is to spawn a thread runs on (it
  takes one lock, held for a few instructions, and waits for nothing); a thread's
  index ends since the tree is finite, and its loop returns to its head at least
  every `WATCH_POLL_SECS`. No fairness for callers or failures.
* `WatchSessions`: a running handler is scheduled until it returns and its wait is
  cut by `ROOTS_LIST_TIMEOUT_MS`. Clients and the CLI may stop at any time.
* `GraphSync` and `GraphRecovery`: the watch thread runs and the debounce time passes.
* `ShellTool`: the runtime takes the next step of a call when it can, a child that can
  write or end does, the clock passes the timeout, the writer thread runs. Nothing is
  assumed of a descendant, nor of the client.
* `DaemonControl`, and `Release` with the same: processes run. `StartServes` assumes
  in its own formula that crashes and timeouts stop and that somebody starts the daemon
  again and again.

## 4. The proofs

`WatchProofs` proves of `WatchManager`, for any sets of projects, consumers, callers and
threads:

* `RegistryTypes`: `Spec => []TypeOK`
* `WatchedWhileConsumed`: `Spec => []HandleHasConsumers`
* `StopSenderOwnedOnce`: `Spec => []SingleOwner`
* `OwnedThreadsServe`: `Spec => []OwnedThreadServesProject`
* `RegistryImplements`: `Spec => ImplementsRegistry`, the refinement of
  `WatchRegistry`; with one caller no step is a displacement.

The argument is one inductive invariant, `RegistryInv`, the conjunction of
`TypeOK` and the three properties. None of the three is inductive alone: an insert
keeps the sender's owner unique only because the inserting call was its one owner,
and keeps the handle's thread serving its project only because the call's thread
did. The proof of a step has one lemma per group of actions, and `SpawnThread` is
the step where freshness (`Unused`) is needed. The refinement needs from the
invariant that a handle has consumers, and, where there is one caller (`Serial`),
a second invariant (`SerialInv`): the project that a call found unregistered is
still unregistered at its insert. Assumptions: the two sentinels `NoThread` and
`NoCall` are not members of the sets they stand beside.

`WatchProofs` also proves of `WatchSessions`, for any sets of connections, projects and session keys:

* `SessionTypes`: `SessionSpec => []SessionTypeOK`
* `SessionsRunRegistry`: `SessionSpec => Spec` of `WatchManager`, so that what is
  proved of the registry for any callers holds under these;
* `ClosesRelease`: `SessionSpec => QuietCloseReleases`
* `NobodyTakesAWatch`: `SessionSpec => WatchEndsOnlyWithConnection`

The invariant is `SessionInv`: `SessionTypeOK`, `HandleHasConsumers`, `OwnCalls`
(a call for a connection's key is made by that connection's own task) and
`DoneIsDone` (a handler that has returned has nothing left to register). The last
two are what a quiet close needs: nobody who acts for the connection is still on
the way to an insert. Assumptions: the tasks that make calls, the consumers and the keys are what the code builds
them from and are disjoint (`TasksAssumption`, `ConsumersAssumption`,
`KeysAssumption`), and the working directory is a project (`CwdAssumption`).

`ReadCacheProofs` proves, for any number of sessions, connections, files, contents
and calls in flight, and with nothing of `Hiccups` allowed (`Hiccups = {}` is a
hypothesis of each theorem but the first):

* `ReadTypes`: `Spec => []TypeOK`
* `NoticesAreTrue`: `Spec => []NoticeIsTrue`
* `CacheKnowsContext`: `Spec => []CacheIsShown`
* `ResetsForget`: `Spec => ResetForgets`

The invariant `ReadInv` adds to the first two: `ResetsGoFirst` (a session whose
reset is on its way waits for no call), `ResetsReach` (a reset that names another
connection than the session's current one finds nothing of the session under
the current one) and `CallsAreHooked` (a call is filed under its session).
`NoticeIsTrue` is not inductive: the hit that makes a notice relies on
`CacheIsShown`, and `CacheIsShown` survives a compaction only because the reset is
on its way, which only `ResetsGoFirst` keeps from being overtaken. There is one
lemma per kind of step: the steps of a call that leave the cache alone, the
insert, the delivery, the compaction and its reset, the reconnect. Assumptions:
the hash separates the contents (`HashAssumption`), ids of sessions and
connections differ (`IdsAssumption`), and `NoRequest` is no request
(`NoRequestAssumption`). TLC finds `ReadInv` to hold on the
instance of `read_cache`.

`GraphProofs` proves of `GraphSync`, for any number of files, texts, symbols, events and
write times:

* `GraphTypes`: `Spec => []TypeOK`
* `GraphStaysConsistent`: `Spec => []GraphConsistent`, for all `Hiccups`
* `SkippingIsSafe`: `Spec => []SkipIsSafe`, without `"torn index"` and `"quick edit"`,
  the two that TLC shows to break it

`GraphConsistent` speaks of the committed tables, and a commit takes over whatever
the transaction has: so `GraphInv` says what the transaction keeps while a walk is
under way (`WalkInv`). Between files it is derived from the texts it tracks, with the
edges of references not yet resolved; in the middle of a file, of all texts but
that one (`DerivedBut`); and the files still ahead are as the walk found them. There is
one lemma per operation of `GraphTables` and one per action. `SkipInv` is the
induction under `SkipIsSafe`: no row, committed or not, nor any file is of a later time
than the clock; a row with the stat that its file has now was parsed as the file is now,
which a later write keeps true since it moves the clock on; and what an index has read
and not yet statted is still on disk. Assumptions: what a parse gives is a set of names, sizes are numbers
(`SyntaxAssumption`), the texts that cannot be read are texts (`GarbledAssumption`) and the
sentinels are none of what they stand beside.

`GraphProofs` also proves that `GraphQuery` implements `GraphSync`
(`QueriesLeaveTheGraph`), so that the above holds beside queries
(`GraphBesideQueries`, `SkippingBesideQueries`), and

* `AnswersAreTrue`: `QuerySpec => AnswersSayWhatWasParsed`, for any queries, lookups
  and limits.

The invariant `QueryInv` relates what a query has in its hands to the tables: as long
as no commit has fallen between its statements, the targets or the file that it found
are those the tables give now. The proof
of an answer then compares two ways to reach one set: from the tables by joins, and
from the texts. `FiniteAssumption` (a project has finitely many files and names) is
there since a search counts its hits against its limit, `WordsAssumption` says that a word
stands for names, and `NodesAssumption` that a row of a file is none of a symbol's.
That `callees` and the outgoing half of `all` are empty is in it too: an edge starts at
the node of a file, and no symbol has that node.

`DaemonControlProofs` proves, for any number of daemons, commands, updates and
releases, whatever crashes, runs out of time, or was left on disk:

* `UpdatesLeaveControl`: `ReleaseSpec => Spec`, updates beside `DaemonControl`
* `ReleaseTypes`: `ReleaseSpec => []ReleaseTypeOK`
* `OneDaemonServes`: `ReleaseSpec => []OneDaemon`
* `ServingDaemonsAreFound`: `ReleaseSpec => []ServingIsFindable`
* `StopsStop`: `ReleaseSpec => StopStops`
* `StartsRunTheUpdate`: `ReleaseSpec => StartRunsTheUpdate`

The last four assume `"overlap" \notin Hiccups`: with it TLC shows two daemons.
`OneDaemon` follows from `ServingIsFindable`, as a path leads to one process.
`ControlInv` adds what makes a step of one process safe for the others: a start
command is alone with the daemon it spawned (`OneAtATime`), what a command has found
out with a probe stays true until it acts on it (`CommandKnows`: that no daemon serves,
before it removes files or spawns; that only the process it waits for can, after),
and the same of a daemon that starts (`DaemonKnows`). `ReleaseInv` adds that an
update is alone and undisturbed, that the binary in place is whole and that a
staging file about to be renamed is, wherever the update before it was cut, and that the
daemon a start waits for runs what is in place.

`OutputSpoolProofs` proves, for any number of runs, handlers and sessions, any sizes
and times, and any file operation failing:

* `SpoolTypes`: `Spec => []TypeOK`
* `FetchesAreWhole`: `Spec => []FetchIsWhole`
* `AnsweredCanBeFetched`: `Spec => []AnsweredIsFetchable`
* `QuietSpoolFits`: `Spec => []SpoolBounded`

It has three invariants, each on top of the first. `SpoolInv` is the shape: a run
has one handler that stores it (`RunsAreOwned`); a log has its meta only when it is
whole (`FilesOf`), which is what `FetchIsWhole` needs: text that was read in part
has no meta when the meta is read; and a handler's view holds
each run once, dated as its log was at some time (`ViewOf`). `Kept` is what a store
owes its run: at each stage what that stage has made is still there, or the run is
excused. It survives a rotation on a stale view since a view never dates a log before
it was made: what goes has expired, or the runs that stay and are no older fill the
spool. `Bounded` says that while the spool is too large a store is on its way to a
rotation, or one is under way that has seen every file for at least its size:
a store that makes a file grow meanwhile has a rotation of its own to come. The sums of
bytes that both compare with the limit are the cardinalities of sets of bytes
(`BytesOf`), so that the library's theorems about finite sets apply and not
lemmas about a fold; they suppose finitely many runs (`FiniteAssumption`).
The attempt to prove `AnsweredIsFetchable` showed the property to be wrong as it was first
worded: it excused a run only by runs last written no earlier than itself. A rotation may
have seen the log between the two halves of its write, with its first mtime, and remove
it before a run that was written in between. TLC finds that with three runs, where two
are too few; `Since` now compares with the first mtime.

`ShellToolProofs` proves of the composition `ShellTool`, for any calls, workers,
commands, pipes, limits, batch sizes and faults:

* `CompleteMeansAll`: `Spec => []CompleteIsAll`
* `ToolTypes`: `Spec => []TypeOK`
* `EventsAreNotLost`: `Spec => []NothingLostInTransit`

The first follows from `ExecInv`: a stream is read no further than it was written, kept as far as it was
read and the limit goes, and at its end only when all was read and the child is gone; a
child that was not killed wrote everything before it exited; and the stages of a
handler fit those of its child. TLC finds `ExecInv` to hold on the instance of `shell`.

The other two follow from `ToolInv`, which adds to `ExecInv` and the types: an event
is in the table, in the batch or in the channel, in one of them and once
(`InOnePlace`); the writer's place tells how full its batch is, and a writer ends only by
a fault (`WriterKnows`); and a call of so_shell has sent its event only when it is
answered (`SentWhenAnswered`), which is why the event it sends is a new one, why
`INSERT OR IGNORE` never passes over an event of a batch, and why the table, the batch and
the channel in a row are all that was sent. TLC finds `ToolInv` to hold there as well.
A flush inserts the events at some places of its batch (`Those`), about which
`SelectionProofs` has what is needed. The proof uses the
assumptions of the three modules (`ShellExecAssumption`, `EventLogAssumption`,
`ShellToolAssumption`), of which the last says that other tools' events name
other tools and cost a natural number of tokens and milliseconds.

* `ReportsAddUp`: `Spec => []ReportAddsUp`

The rows of a report are those of the table, whatever it has lost. The report's sums are
`SumFunction` of the community modules, a fold that chooses one element after the other.
`SumsExist` gives every finite family of integers a sum for each part of it,
`SumsAgree` says that the sums of two families agree on what the families share, and so the
fold is a sum that any element can be taken from (`SumsRemove`) and that can be
compared (`SumBounds`). `GroupsAddUp` is the
argument of the report: rows grouped by a name, each group added up, add up to
all rows (`ToolsAddUp` with the tool as the name, `CommandsAddUp` with the command
that `ClassifyShellCommand` finds); the list of commands, when it is as long as the
log, leaves none out (`AllCommandsShown`); and a saving lies between zero and its
origin (`RatiosAre`).

`SelectionProofs` has no specification; its lemmas are about `Selections` and
about recursion, and the modules around it rest on them.

* `Induction` and `Recursion`: a property of naturals that goes from each number to the
  next holds of all up to a bound, and a recursive function has a value at every place.
  Both come from the well-founded order of the naturals, applied to a set, which is why they
  need no operator as a parameter: a set of naturals without a least element is empty.
* `RanksAreDense`, `NthsAreOrdered`, `Enumeration`: the places of a finite set can be
  numbered in their order, in one way.
* `ThosePlaces`, `ThoseOfThose`, `OnlyOfConcat` and the rest: what a selection of a selection is,
  of a list with one more element, of two lists in a row; what is selected by value is not
  changed by taking out other values, which is how a user's hooks are told to survive.

`AgentCallsProofs` proves of `AgentCalls`, and so of `Setup` in it, for any binaries,
hooks, matchers, lines of a document, command lines, and any number of commands and
edits:

* `SetupInvariant`: `Spec => []IInv`
* `AgentCallsTypeOK`: `Spec => []TypeOK`
* `SetupUserEntriesSurvive`: `Spec => []UserEntriesSurvive`
* `SetupCommandsDoTheirWork`: `Spec => []CommandsDoTheirWork`
* `SetupDenialsHaveATool`: `Spec => []DenialsHaveATool`
* `AgentCallsRetryWorks`: `Spec => []RetryWorks`
* `AgentCallsClientsAgree`: `Spec => []ClientsAgree`

None of the three about setup is inductive, as each says what is there when a command has
ended and nothing of the way there. `IInv` is `SetupTypeOK` and four parts. `FilesOK` says that `kept`
is what the files hold of the user's (not only where the config can be read), and
gives the shape of what setup and users leave: a matcher has one group, so-context's
handlers are in groups of its matchers and never without a server (`ConfigShape`); an
end marker of the document closes a whole block, and there is one at most (`DocShape`).
`CommandOK` says, for each step a command is at, what it has done: what it read is of that
shape, the config is whole or bare once it was written, and so on with the plugin and the
document in their order, unless the user has edited in between. `OutcomeOK` says the same of a command that has ended, and
`PluginOK` is `DenialsHaveATool` for OpenCode. TLC finds `IInv` to hold on the instance of
`agent`. There is a lemma per action; below them
are what installing does to a group, to the groups of an event and to a
config (`GroupInstalled`, `PreInstalled`, `ClaudeInstalled`, `CodexInstalled`,
`InstalledIs`), what uninstalling does (`UninstalledIs`), and what the edit of a document between
two markers does to the user's lines (`CutText`, `RemovedIs`, `UpsertedIs`).
The assumptions: the users' hooks are none of the binaries, the users' lines none of the block's,
the recognised binaries are binaries, there is at least one matcher, `PostCompact` is none of the matchers, and the sentinels are
none of what they stand beside.

`RetryWorks` and `ClientsAgree` are about one line at a time. A reading
of a line is a course of states, one after each chunk (`ShellReadsOn`, `ParseReadsOn`, by
`Recursion`), and `TurnsAlike` is the simulation between the two readers: while the shell has met
nothing it would expand, kept no backslash and ended no empty word, a turn of the parser
leaves it where the shell is (`Sim`). What the shell has met it does not forget, so what
is good at the end of a line was good all along it (`CoursesAlike`). Two differences are left: the
code trims blanks and line breaks off the line first, which changes no reading but that of an escaped blank at
the end (`TrimmedCourse`, with the blanks before and after as turns that do nothing), and the two
readers end a last word differently (`EndsAlike`). `WordsAlike` puts these
together. For the clients, `ProgramsAlike` shows that skipping assignments by a count and by a
search for the first other word find one program. `CharactersAssumption` is used throughout: a
character that were both a quote and a blank would be read by the first arm that matches.

Only model-checked is liveness, the six properties that assume fairness (`OrphansEnd`,
`HandlerEnds`, `GraphRecovers`, `StartServes`, `CallsAreAnswered`, `CallsAreRecorded`): what they need of
ENABLED and of the fairness rules is out of the prover's reach. Every invariant, action
property and refinement that a passing run checks is also a theorem.

## 5. What is not modelled, and why

* External code: rmcp, notify, SQLite, tree-sitter, the ignore rules. They appear
  by what the code relies on: handlers as tasks, at least one event per change once
  attached, atomic transactions, a parse as a set of symbols. The roots in the
  parameters of `initialize` are the client's choice.
* Two watch threads on one database: they occur after a re-watch during an index
  (`daemon/watch_manager.rs:331`), until the stopped one ends; `GraphSync` has one.
* The output compressors of `shell/patterns/`: text to text, one per tool, without
  state. `ShellTool` has what a compressor may do to an answer: any length.
* Redaction, the rendering of excerpts, of the report and of tool answers, logging,
  the estimate of tokens, the ranking of search results: formatting, about which no
  property says anything.
* The choice of a project for a call that names none (`mcp/tools/context.rs`), beyond
  the one rule that so_shell needs, and the replies of so_status.
* The cached release and the notices a bridge prints from it. A write of that file
  that is cut makes every later bridge fail at its start (`version.rs:309`); the version
  a notice gives of the daemon is asked of the file at its path, not of the process
  (`daemon/control.rs:312`). They are listed as a hazard without a property.
* What an agent's shell knows beside the line: the working directory, builtins and
  aliases. `RetryWorks` compares the words of a simple command, nothing else.
* Command line dispatch and the install script, which lead to the operations above.

## 6. Plan

Done, in this order: WatchRegistry, WatchManager and its proofs; WatchSessions;
ReadCache; GraphTables, GraphSync; DaemonControl; the proofs of WatchSessions and
ReadCache; OutputSpool; EventLog, ShellExec, Metrics and ShellTool; CommandString,
ShellPolicy, ToolRouting, Setup and AgentCalls; GraphQuery; Release; GraphRecovery; the
proofs of GraphSync, GraphQuery, DaemonControl with Release, OutputSpool and
ShellTool; Selections, and the proofs of Setup, AgentCalls and of the report. To come,
in this order:

1. Two watch threads on one database, with SQLite's lock.
2. Sub-agents as contexts of their own in ReadCache, which share the session id of
   their parent (`hook/pre_tool.rs:57`).
3. The release cache, and the choice of a project.
