----------------------------- MODULE ShellPolicy ----------------------------
(***************************************************************************)
(* Which simple commands are better run by so_shell (shell/policy.rs), and *)
(* the copy of that decision in the OpenCode plugin (setup/so-context.ts), *)
(* which is given policy.rs's tables and has the code a second time.       *)
(***************************************************************************)
EXTENDS CommandString

CONSTANT Dashed    \* text that begins with a dash

Slash == "/"

Words(names) == {<<n>> : n \in names}

FollowFlags == Words({"-f", "--follow"})
AlwaysKeepNative ==
    Words({"ssh", "scp", "sftp", "mosh", "top", "htop", "less", "more", "man", "vim", "nvim", "nano",
           "tmux", "screen", "watch"})
DockerKeepNative == Words({"run", "exec", "attach"})
ComposeKeepNative == Words({"up", "exec", "run", "attach", "watch"})
KubectlKeepNative == Words({"exec", "attach", "port-forward"})
CargoKeepNative == Words({"run", "watch"})
JsKeepNative == Words({"dev", "start", "serve", "watch", "create"})
JsRunKeepNative == Words({"dev", "start", "serve", "watch"})

HasAnyFlag(args, flags) == \E i \in DOMAIN args : args[i] \in flags

(* The first word without a dash, or <<>>; the words after a given one.    *)
FirstNonFlag(args) ==
    LET words == SelectSeq(args, LAMBDA w : w[1] \notin Dashed)
    IN  IF words = <<>> THEN <<>> ELSE words[1]
AfterSubcommand(args, word) ==
    LET i == SelectInSeq(args, LAMBDA w : w = word)
    IN  IF i = 0 THEN <<>> ELSE SubSeq(args, i + 1, Len(args))

(* Path::file_name: the last of the parts between slashes, of which those  *)
(* that are empty or a dot do not count; a path that ends with .. has none.*)
Part(word, end) == SubSeq(word, SelectLastInSubSeq(word, 1, end, LAMBDA ch : ch = Slash) + 1, end)

BaseProgramName(word) ==
    LET ends == {j \in DOMAIN word :
                    /\ word[j] # Slash /\ (j < Len(word) => word[j + 1] = Slash)
                    /\ Part(word, j) # <<".">>}
    IN  IF ends = {} \/ Part(word, Max(ends)) = <<"..">> THEN word ELSE Part(word, Max(ends))

(* The subcommands that keep the native shell, and logs that are followed. *)
SubcommandKeepsNative(args, sub, table) ==
    IF sub = <<"logs">> THEN HasAnyFlag(args, FollowFlags) ELSE sub \in table

ComposeKeepsNative(args) == SubcommandKeepsNative(args, FirstNonFlag(args), ComposeKeepNative)

DockerKeepsNative(args) ==
    IF FirstNonFlag(args) = <<"compose">>
    THEN ComposeKeepsNative(AfterSubcommand(args, <<"compose">>))
    ELSE SubcommandKeepsNative(args, FirstNonFlag(args), DockerKeepNative)

JsRunnerKeepsNative(args) ==
    IF FirstNonFlag(args) = <<"run">>
    THEN FirstNonFlag(AfterSubcommand(args, <<"run">>)) \in JsRunKeepNative
    ELSE FirstNonFlag(args) \in JsKeepNative

Second(args) == IF Len(args) < 2 THEN <<>> ELSE args[2]

PythonKeepsNative(args) ==
    \/ HasAnyFlag(args, {<<"-i">>})
    \/ /\ args # <<>>
       /\ \/ args[1] = <<"-m">> /\ Second(args) = <<"http.server">>
          \/ Last(args[1]) = "manage.py" /\ Second(args) = <<"runserver">>

ShouldKeepNativeShell(program, args) ==
    \/ program \in AlwaysKeepNative
    \/ program = <<"tail">> /\ HasAnyFlag(args, FollowFlags)
    \/ program = <<"docker">> /\ DockerKeepsNative(args)
    \/ program = <<"docker-compose">> /\ ComposeKeepsNative(args)
    \/ program = <<"kubectl">> /\ SubcommandKeepsNative(args, FirstNonFlag(args), KubectlKeepNative)
    \/ program = <<"cargo">> /\ FirstNonFlag(args) \in CargoKeepNative
    \/ program \in Words({"npm", "pnpm", "yarn", "bun", "npx"}) /\ JsRunnerKeepsNative(args)
    \/ program \in Words({"python", "python3"}) /\ PythonKeepsNative(args)
    \/ program = <<"node">> /\ HasAnyFlag(args, {<<"--watch">>})

(* Mistake: env is taken for the program.                                  *)
ProgramIndexFirst(argv) == 1

(* Behind env and its assignments.                                         *)
ProgramIndex(argv) ==
    IF argv # <<>> /\ argv[1] = <<"env">> THEN Assignments(Tail(argv)) + 2 ELSE 1

ShouldPreferSoShell(argv) ==
    LET i == ProgramIndex(argv)
    IN  /\ i <= Len(argv)
        /\ ~ShouldKeepNativeShell(BaseProgramName(argv[i]), SubSeq(argv, i + 1, Len(argv)))

(* The argv the hook asks to retry with, <<>> where it lets the call go.   *)
HookArgv(line) ==
    LET argv == RewriteEnvPrefix(ParseSimpleShellCommand(Trim(line)))
    IN  IF ShouldPreferSoShell(argv) THEN argv ELSE <<>>

-----------------------------------------------------------------------------
(* The plugin. Its parser, flags, subcommands and Python rules are written *)
(* as in Rust; these are written differently.                              *)
PluginRewriteEnvPrefix(argv) ==
    IF Assignments(argv) \in {0, Len(argv)} THEN argv ELSE << <<"env">> >> \o argv

PluginBaseProgramName(word) ==
    LET d == SelectLastInSeq(word, LAMBDA ch : ch \in {Slash, Escape})
    IN  IF d = Len(word) THEN word ELSE SubSeq(word, d + 1, Len(word))

PluginProgramIndex(argv) ==
    LET others == {i \in DOMAIN argv : i > 1 /\ ~IsEnvAssignment(argv[i])}
    IN  IF argv = <<>> \/ argv[1] # <<"env">> THEN 1
        ELSE IF others = {} THEN Len(argv) + 1
        ELSE CHOOSE i \in others : \A j \in others : i <= j

PreferredSoShellArgv(line) ==
    LET argv == PluginRewriteEnvPrefix(ParseSimpleShellCommand(Trim(line)))
        i == PluginProgramIndex(argv)
    IN  IF \/ i > Len(argv)
           \/ ShouldKeepNativeShell(PluginBaseProgramName(argv[i]), SubSeq(argv, i + 1, Len(argv)))
        THEN <<>>
        ELSE argv
=============================================================================
