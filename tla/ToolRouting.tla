----------------------------- MODULE ToolRouting ----------------------------
(***************************************************************************)
(* What the PreToolUse hook (hook/pre_tool.rs) makes of an agent's native  *)
(* calls, what the OpenCode plugin (setup/so-context.ts) makes of them,    *)
(* and what so_read (mcp/tools/read.rs) makes of the retry they ask for.   *)
(* An optional argument is a set of at most one value.                     *)
(***************************************************************************)
EXTENDS ShellPolicy

None == {}
The(option) == CHOOSE v \in option : TRUE
OrElse(option, other) == IF option # None THEN option ELSE other

-----------------------------------------------------------------------------
(* A native read. A path, a mode or a query is what is left of it when it  *)
(* is trimmed.                                                             *)
NativeRead ==
    [path : {None, {""}, {"file"}}, file_path : {None, {"file"}},
     mode : {None, {""}, {"full"}, {"outline"}, {"other"}},
     start_line : {None, {0}, {1}, {2}}, end_line : {None, {0}, {1}, {2}},
     line_numbers : {None, {TRUE}}]

ReadPath(input) == OrElse(input.path, input.file_path)
ReadIsDenied(input) == ReadPath(input) \notin {None, {""}}

PreferredSoReadArgs(input) ==
    LET start == input.start_line \ {0}
        end == input.end_line \ {0}
        mode == input.mode \ {""}
        excerpt == start \cup end # {} \/ input.line_numbers # None
    IN  [path |-> ReadPath(input),
         mode |-> IF mode = None /\ ~excerpt THEN {"full"} ELSE mode,
         start_line |-> start, end_line |-> end, line_numbers |-> input.line_numbers]

(* Mistake: the order of the lines is not looked at.                       *)
ParseExcerptUnordered(args) ==
    IF args.start_line = None /\ args.end_line = None THEN "whole" ELSE "excerpt"

(* parse_excerpt_request: the lines asked for, "whole" without any, and    *)
(* "refused" where they are no range.                                      *)
ParseExcerptRequest(args) ==
    LET start == The(OrElse(args.start_line, {1}))
        end == The(OrElse(args.end_line, {start}))
    IN  CASE args.start_line = None /\ args.end_line = None -> "whole"
          [] args.start_line \cup args.end_line # {} /\ (start = 0 \/ end < start) -> "refused"
          [] OTHER -> "excerpt"

SoReadAnswers(args) ==
    /\ ParseExcerptRequest(args) # "refused"
    /\ The(OrElse(args.mode, {"full"})) \in {"full", "outline"}

-----------------------------------------------------------------------------
(* A native search. A query is literal text or an expression. others: it   *)
(* has an argument besides query, pattern, path, directory, root, limit.   *)
NativeSearch ==
    [query : {None, {""}, {"literal"}, {"expression"}},
     pattern : {None, {""}, {"literal"}, {"expression"}},
     regex : BOOLEAN, others : BOOLEAN]

OnlyAllowedSearchKeys(input) == ~input.regex /\ ~input.others
IsSimpleQuery(text) == text \notin {None, {""}, {"expression"}}

(* The hook: a query it cannot use is passed over for the pattern.         *)
PreferredSoSearchArgs(input) ==
    LET usable(text) == OnlyAllowedSearchKeys(input) /\ IsSimpleQuery(text)
    IN  CASE usable(input.query) -> input.query
          [] ~usable(input.query) /\ ~input.regex /\ usable(input.pattern) -> input.pattern
          [] OTHER -> None

(* The plugin: if there is a query, nothing but the query is looked at.    *)
PluginSoSearchArgs(input) ==
    LET text == IF input.query \notin {None, {""}} THEN input.query ELSE input.pattern
    IN  IF OnlyAllowedSearchKeys(input) /\ IsSimpleQuery(text) THEN text ELSE None

-----------------------------------------------------------------------------
(* A call, as one of the client's agent makes it.                          *)
ShellCall(line) == [tool |-> "shell", line |-> line]
ReadCall(input) == [tool |-> "read", input |-> input]
SearchCall(input) == [tool |-> "search", input |-> input]

HookDenies(call) ==
    CASE call.tool = "shell" -> HookArgv(call.line) # <<>>
      [] call.tool = "read" -> ReadIsDenied(call.input)
      [] call.tool = "search" -> PreferredSoSearchArgs(call.input) # None

PluginDenies(call) ==
    CASE call.tool = "shell" -> PreferredSoShellArgv(call.line) # <<>>
      [] call.tool = "read" -> ReadIsDenied(call.input)
      [] call.tool = "search" -> PluginSoSearchArgs(call.input) # None

(* The words of a plain line, with the assignments handed to env.          *)
PlainArgv(line) == RewriteEnvPrefix(ShellReading(line).words)

(* A line that a shell reads as its plain words and in which neither an    *)
(* empty word, a backslash that double quotes keep, nor an escaped blank   *)
(* at the end, which is trimmed, is lost.                                  *)
ReadsAlike(line) ==
    LET shell == ShellReading(line)
    IN  /\ shell.plain /\ ~shell.kept /\ ShellReading(Trim(line)).plain
        /\ \A i \in DOMAIN shell.words : shell.words[i] # <<>>

(* "Retry with argv": what so_shell then runs is what the shell would have *)
(* run (pre_tool.rs:118). "Retry with arguments": so_read answers, unless  *)
(* the native call asked for a mode it does not have or for no range.      *)
RetryDoesTheSame(call) ==
    CASE call.tool = "shell" ->
            HookArgv(call.line) # <<>> /\ ReadsAlike(call.line) =>
                HookArgv(call.line) = PlainArgv(call.line)
      [] call.tool = "read" ->
            ReadIsDenied(call.input) =>
                LET in == call.input
                    ordered == \A s \in in.start_line, e \in in.end_line : 0 < e => s <= e
                IN  SoReadAnswers(PreferredSoReadArgs(in)) <=> in.mode # {"other"} /\ ordered
      [] OTHER -> TRUE

(* A program the hook and the plugin know by different names: one named    *)
(* with a backslash, which parts the name in the plugin (so-context.ts:110)*)
(* and not in the hook, and one whose path ends with a slash, or with a    *)
(* dot behind one, which file_name passes over (policy.rs:171) and the     *)
(* plugin does not (so-context.ts:112): less/ is less to the hook.         *)
NamedApart(word) ==
    \/ \E j \in DOMAIN word : word[j] = Escape
    \/ word # <<>> /\ Last(word) = Slash
    \/ Len(word) > 1 /\ word[Len(word) - 1] = Slash /\ Last(word) = "."

(* The hook and the plugin deny the same calls, but for four: a line of    *)
(* assignments only, a program named with a backslash, one whose path ends *)
(* with a slash, and a search whose query is an expression and whose       *)
(* pattern is not.                                                         *)
KnownToDiffer(call) ==
    CASE call.tool = "shell" ->
            LET argv == ParseSimpleShellCommand(Trim(call.line))
            IN  \/ Assignments(argv) = Len(argv)
                \/ LET env == RewriteEnvPrefix(argv)
                   IN  ProgramIndex(env) \in DOMAIN env /\ NamedApart(env[ProgramIndex(env)])
      [] call.tool = "search" ->
            call.input.query = {"expression"} /\ IsSimpleQuery(call.input.pattern)
      [] OTHER -> FALSE

ClientsAgreeOn(call) == KnownToDiffer(call) \/ (HookDenies(call) <=> PluginDenies(call))
=============================================================================
