-------------------------------- MODULE Setup -------------------------------
(***************************************************************************)
(* `so-context setup` and `uninstall` (setup/): what they leave of the     *)
(* files they share with the user and with the agent's client. Claude Code *)
(* and Codex keep a config with servers and hooks, a file of guidance and  *)
(* a document that includes it; OpenCode a config and a plugin. A command  *)
(* treats one client after the other and goes on after an error, and their *)
(* files are apart: a behaviour follows one client.                        *)
(***************************************************************************)
EXTENDS Selections, SequencesExt

CONSTANTS
    Binaries,    \* paths `setup` is run from or given
    Recognised,  \* those whose file name is so-context
    Matchers,    \* the matchers of the PreToolUse groups, in order
    UserHooks, UserLines,
    NoBinary, Absent, Unparsable, NoCommand,
    MaxCommands, MaxEdits

ASSUME BinariesAssumption == Recognised \subseteq Binaries /\ NoBinary \notin Binaries
ASSUME HooksAssumption == UserHooks \cap Binaries = {}
ASSUME MatchersAssumption == Matchers \in Seq(STRING) \ {<<>>}

VARIABLES
    client,      \* the client this behaviour follows
    config,      \* settings.json, config.toml, opencode.json
    companion,   \* is the guidance file, the plugin, there
    doc,         \* CLAUDE.md, AGENTS.md: its lines, or Absent
    command,     \* the command that runs
    outcome,     \* how the last one ended
    torn,        \* an uninstall was stopped, or the config lost, since a setup last wrote it
    kept,        \* what the user has put into config and doc
    budget       \* commands and edits that may still come

setupVars == <<client, config, companion, doc, command, outcome, torn, kept, budget>>

Clients == {"claude", "codex", "opencode"}
Start == "<!-- so-context -->"
End == "<!-- /so-context -->"
Include == "@include"
Block == <<Start, Include, End>>

ASSUME LinesAssumption == UserLines \cap ToSet(Block) = {}

Group == [matcher : ToSet(Matchers) \cup {"other"}, hooks : Seq(Binaries \cup UserHooks)]
PostCompact == "PostCompact"

ASSUME EventsAssumption == PostCompact \notin ToSet(Matchers)

(* `opaque`: the matchers whose group is there, and the events (PreToolUse *)
(* is all the matchers), in a form the installers pass over: an inline     *)
(* array of Codex's TOML, which Codex itself reads; in Claude's JSON hooks *)
(* that are no array.                                                      *)
Config ==
    [server : Binaries \cup {NoBinary}, pre : Seq(Group), post : Seq(Seq(Binaries \cup UserHooks)),
     opaque : SUBSET (ToSet(Matchers) \cup {PostCompact})]
Text == Seq(UserLines \cup ToSet(Block))
Steps == {"read", "write", "companion", "doc"}
Command ==
    [op : {"setup", "uninstall"}, binary : Binaries, edited : BOOLEAN, todo : Seq(Steps) \ {<<>>},
     read : {NoCommand, Absent, Unparsable} \cup Config]

ASSUME FilesAssumption ==
    /\ {Absent, Unparsable} \cap Config = {} /\ Absent # Unparsable
    /\ Absent \notin Text
    /\ NoCommand \notin Command

EmptyConfig == [server |-> NoBinary, pre |-> <<>>, post |-> <<>>, opaque |-> {}]
Readable(file) == file \notin {Absent, Unparsable}

(* is_so_context_hook_value, is_so_context_pre_tool_handler.               *)
IsSoContext(handler) == handler \in Recognised
Others(handlers) == Without(handlers, Recognised)

-----------------------------------------------------------------------------
(* Mistake: the group is written anew.                                     *)
InstallPreToolGroupAnew(groups, matcher, binary) ==
    LET i == SelectInSeq(groups, LAMBDA g : g.matcher = matcher)
    IN  IF i = 0
        THEN Append(groups, [matcher |-> matcher, hooks |-> <<binary>>])
        ELSE [groups EXCEPT ![i].hooks = <<binary>>]

(* Mistake: what an earlier setup has left is not looked for.              *)
InstallPreToolGroupAgain(groups, matcher, binary) ==
    LET i == SelectInSeq(groups, LAMBDA g : g.matcher = matcher)
    IN  IF i = 0
        THEN Append(groups, [matcher |-> matcher, hooks |-> <<binary>>])
        ELSE [groups EXCEPT ![i].hooks = Append(@, binary)]

(* The hooks of a config. A PreToolUse group is for one matcher; a         *)
(* PostCompact group has none and is written as its handlers.              *)
InstallPreToolGroup(groups, matcher, binary) ==
    LET i == SelectInSeq(groups, LAMBDA g : g.matcher = matcher)
    IN  IF i = 0
        THEN Append(groups, [matcher |-> matcher, hooks |-> <<binary>>])
        ELSE [groups EXCEPT ![i].hooks = Append(Others(@), binary)]

(* What cannot be entered is left as it is, without a word: as setup ends, *)
(* it reports the hooks as written.                                        *)
InstallPreToolUse(groups, binary, opaque) ==
    LET after[n \in 0 .. Len(Matchers)] ==
            IF n = 0 THEN groups
            ELSE IF Matchers[n] \in opaque THEN after[n - 1]
            ELSE InstallPreToolGroup(after[n - 1], Matchers[n], binary)
    IN  after[Len(Matchers)]

RemovePreToolUse(groups, opaque) ==
    LET ours(g) == g.matcher \in ToSet(Matchers) \ opaque
        left == [i \in DOMAIN groups |->
                    IF ours(groups[i]) THEN [groups[i] EXCEPT !.hooks = Others(@)] ELSE groups[i]]
    IN  Those(left, {i \in DOMAIN left : ours(left[i]) => left[i].hooks # <<>>})

(* Claude: the first group with a handler of exactly this binary.          *)
InstallPostCompactClaude(groups, binary) ==
    LET i == SelectInSeq(groups, LAMBDA hs : binary \in ToSet(hs))
    IN  IF i = 0
        THEN Append(groups, <<binary>>)
        ELSE [groups EXCEPT ![i] = Append(Without(@, {binary}), binary)]

(* Codex: every handler of so-context goes, and the group of the first one *)
(* is where the new one goes.                                              *)
InstallPostCompactCodex(groups, binary) ==
    LET had(hs) == \E h \in ToSet(hs) : IsSoContext(h)
        target == SelectInSeq(groups, had)
        left == [i \in DOMAIN groups |->
                    IF i = target THEN Append(Others(groups[i]), binary) ELSE Others(groups[i])]
    IN  IF target = 0
        THEN Append(groups, <<binary>>)
        ELSE Those(left, {i \in DOMAIN left : had(groups[i]) => left[i] # <<>>})

(* Mistake: only the handlers of one binary are taken out.                 *)
RemovePostCompactOfOne(groups) ==
    LET one == CHOOSE b \in Recognised : TRUE
    IN  Without([i \in DOMAIN groups |-> Without(groups[i], {one})], {<<>>})

RemovePostCompact(groups) ==
    Without([i \in DOMAIN groups |-> Others(groups[i])], {<<>>})

(* A config that does not parse counts as an empty one.                    *)
Parsed(file) == IF Readable(file) THEN file ELSE EmptyConfig

InstalledClaude(file, binary) ==
    [server |-> binary, pre |-> InstallPreToolUse(file.pre, binary, file.opaque),
     post |-> InstallPostCompactClaude(file.post, binary), opaque |-> file.opaque]
InstalledCodex(file, binary) ==
    [server |-> binary, pre |-> InstallPreToolUse(file.pre, binary, file.opaque),
     post |-> IF PostCompact \in file.opaque THEN file.post
              ELSE InstallPostCompactCodex(file.post, binary),
     opaque |-> file.opaque]
InstalledOpenCode(file, binary) == [file EXCEPT !.server = binary]

Installed(file, binary) ==
    CASE client = "claude" -> InstalledClaude(Parsed(file), binary)
      [] client = "codex" -> InstalledCodex(Parsed(file), binary)
      [] client = "opencode" -> InstalledOpenCode(Parsed(file), binary)

(* Claude's and Codex's; OpenCode's config has no hooks.                   *)
UninstalledHooked(file) ==
    [server |-> NoBinary, pre |-> RemovePreToolUse(file.pre, file.opaque),
     post |-> IF PostCompact \in file.opaque THEN file.post ELSE RemovePostCompact(file.post),
     opaque |-> file.opaque]
UninstalledOpenCode(file) == [file EXCEPT !.server = NoBinary]

Uninstalled(file) ==
    IF client = "opencode" THEN UninstalledOpenCode(Parsed(file)) ELSE UninstalledHooked(Parsed(file))

-----------------------------------------------------------------------------
(* The block in the document.                                              *)
RemoveBlock(lines) ==
    LET s == SelectInSeq(lines, LAMBDA l : l = Start)
        e == SelectInSubSeq(lines, s, Len(lines), LAMBDA l : l = End)
    IN  IF s = 0 \/ e = 0 THEN lines ELSE SubSeq(lines, 1, s - 1) \o SubSeq(lines, e + 1, Len(lines))

UpsertBlock(lines) == RemoveBlock(lines) \o Block

LinesOf(file) == IF file = Absent THEN <<>> ELSE file
Balanced(file) ==
    LET lines == LinesOf(file)
        Closes(i, j) ==
            /\ i < j /\ lines[i] = Start /\ lines[j] = End
            /\ \A k \in i + 1 .. j - 1 : lines[k] \notin {Start, End}
    IN  \A i \in DOMAIN lines :
            /\ lines[i] = Start => \E j \in DOMAIN lines : Closes(i, j)
            /\ lines[i] = End => \E j \in DOMAIN lines : Closes(j, i)

-----------------------------------------------------------------------------
(* What of a config and of a document is the user's, in order.             *)
UserView(file) ==
    LET users(hs) == Only(hs, UserHooks)
        pre == [i \in DOMAIN file.pre |-> [file.pre[i] EXCEPT !.hooks = users(@)]]
        post == [i \in DOMAIN file.post |-> users(file.post[i])]
    IN  [pre |-> Those(pre, {i \in DOMAIN pre : pre[i].hooks # <<>>}),
         post |-> Without(post, {<<>>})]
UserText(file) == Only(LinesOf(file), UserLines)

(* The forms a user's group for m, or an event of the user's, may have. In *)
(* Claude's an event that is no array stops the command (Stop).            *)
Forms(matchers) ==
    {{m} : m \in matchers \cap ToSet(Matchers)}
        \cup (IF client = "codex" THEN {ToSet(Matchers), {PostCompact}} ELSE {})

(* The files before the first command: none, or the user's own.            *)
OwnConfigs ==
    UNION {{[server |-> NoBinary, pre |-> <<[matcher |-> m, hooks |-> <<h>>]>>, post |-> <<<<h>>>>, opaque |-> o] :
        o \in {{}} \cup Forms({m}), h \in UserHooks} : m \in {Matchers[1], "other"}}

SetupInit ==
    /\ client \in Clients
    /\ config \in {Absent, EmptyConfig} \cup (IF client = "opencode" THEN {} ELSE OwnConfigs)
    /\ companion = FALSE
    /\ doc \in {Absent} \cup (IF client = "opencode" THEN {} ELSE {<<l>> : l \in UserLines})
    /\ command = NoCommand
    /\ outcome = "none" /\ torn = FALSE
    /\ kept = [view |-> UserView(Parsed(config)), text |-> UserText(doc)]
    /\ budget = [commands |-> MaxCommands, edits |-> MaxEdits]

(* Mistake: the plugin is written before the server it needs.              *)
InstallStepsPluginFirst ==
    IF client = "opencode" THEN <<"companion", "read", "write">>
    ELSE <<"read", "write", "companion", "doc">>

(* The steps of a command, in the order of the client's install and        *)
(* uninstall. Each write is one system call, the last steps read too.      *)
InstallSteps ==
    IF client = "opencode" THEN <<"read", "write", "companion">>
    ELSE <<"read", "write", "companion", "doc">>
UninstallSteps ==
    IF client = "opencode" THEN <<"read", "write", "companion">>
    ELSE <<"read", "write", "doc", "companion">>

Running == command # NoCommand
Step == command.todo[1]
Removing == command.op = "uninstall"

Ended == IF command.edited THEN "none" ELSE IF Removing THEN "uninstalled" ELSE "installed"

(* Mistake: a command without a step left is not over.                     *)
GoOnForever(todo) == command' = [command EXCEPT !.todo = todo] /\ UNCHANGED outcome

(* The command goes on with todo, or ends.                                 *)
GoOn(todo) ==
    IF todo = <<>>
    THEN command' = NoCommand /\ outcome' = Ended
    ELSE command' = [command EXCEPT !.todo = todo] /\ UNCHANGED outcome

Begin ==
    /\ ~Running /\ budget.commands > 0
    /\ \E op \in {"setup", "uninstall"}, binary \in Binaries :
        /\ op = "uninstall" => binary = CHOOSE b \in Binaries : TRUE
        /\ command' = [op |-> op, binary |-> binary, read |-> NoCommand, edited |-> FALSE,
                       todo |-> IF op = "setup" THEN InstallSteps ELSE UninstallSteps]
    /\ outcome' = "none"
    /\ budget' = [budget EXCEPT !.commands = @ - 1]
    /\ UNCHANGED <<client, config, companion, doc, torn, kept>>

(* Without a config Claude's and Codex's uninstall return at once, and     *)
(* OpenCode's goes on to the plugin.                                       *)
ReadConfig ==
    /\ Running /\ Step = "read"
    /\ IF Removing /\ config = Absent
       THEN IF client = "opencode"
            THEN GoOn(<<"companion">>)
            ELSE command' = NoCommand /\ outcome' = "nothing"
       ELSE command' = [command EXCEPT !.read = config, !.todo = Tail(@)] /\ UNCHANGED outcome
    /\ UNCHANGED <<client, config, companion, doc, torn, kept, budget>>

(* What the user wrote is lost here, if the file did not parse or was      *)
(* written between the read and this.                                      *)
WriteConfig ==
    /\ Running /\ Step = "write"
    /\ LET new == IF Removing THEN Uninstalled(command.read) ELSE Installed(command.read, command.binary)
       IN  /\ config' = new
           /\ kept' = IF command.read = Unparsable \/ command.read # config
                      THEN [kept EXCEPT !.view = UserView(new)] ELSE kept
    /\ torn' = (torn /\ Removing)
    /\ GoOn(Tail(command.todo))
    /\ UNCHANGED <<client, companion, doc, budget>>

WriteCompanion ==
    /\ Running /\ Step = "companion"
    /\ companion' = ~Removing
    /\ GoOn(Tail(command.todo))
    /\ UNCHANGED <<client, config, doc, torn, kept, budget>>

(* A block whose end the user has removed ends with the next one's.        *)
WriteDoc ==
    /\ Running /\ Step = "doc"
    /\ LET new == IF Removing THEN IF doc = Absent THEN Absent ELSE RemoveBlock(doc)
                  ELSE UpsertBlock(LinesOf(doc))
       IN  /\ doc' = new
           /\ kept' = IF Balanced(doc) THEN kept ELSE [kept EXCEPT !.text = UserText(new)]
    /\ GoOn(Tail(command.todo))
    /\ UNCHANGED <<client, config, companion, torn, budget>>

(* The command is killed, panics on an entry that is no object, or returns *)
(* an error, between two steps or in the write of a file: fs::write has    *)
(* then truncated it. Half a JSON text is none; half a TOML text may be    *)
(* one.                                                                    *)
Stop ==
    /\ Running
    /\ command' = NoCommand /\ outcome' = "stopped"
    /\ \/ torn' = (torn \/ Removing) /\ UNCHANGED <<config, doc, kept>>
       \/ /\ Step = "write"
          /\ config' \in {Unparsable} \cup (IF client = "codex" THEN {EmptyConfig} ELSE {})
          /\ kept' = [kept EXCEPT !.view = UserView(EmptyConfig)]
          /\ torn' = TRUE /\ UNCHANGED doc
       \/ /\ Step = "doc"
          /\ doc' = <<>>
          /\ kept' = [kept EXCEPT !.text = <<>>]
          /\ torn' = (torn \/ Removing) /\ UNCHANGED config
    /\ UNCHANGED <<client, companion, budget>>

SetupStep == ReadConfig \/ WriteConfig \/ WriteCompanion \/ WriteDoc \/ Stop

-----------------------------------------------------------------------------
(* The user, and the client, which writes its config itself.               *)
Edit(file, text) ==
    /\ budget.edits > 0
    /\ budget' = [budget EXCEPT !.edits = @ - 1]
    /\ config' = file /\ doc' = text
    /\ kept' = [view |-> UserView(Parsed(file)), text |-> UserText(text)]
    /\ outcome' = "none"
    /\ torn' = (torn \/ ~Readable(file))
    /\ command' = IF Running THEN [command EXCEPT !.edited = TRUE] ELSE command
    /\ UNCHANGED <<client, companion>>

AddHook ==
    /\ Readable(config) /\ client # "opencode"
    /\ \E h \in UserHooks :
        \/ \E i \in DOMAIN config.pre : Edit([config EXCEPT !.pre[i].hooks = Append(@, h)], doc)
        \/ \E i \in DOMAIN config.post : Edit([config EXCEPT !.post[i] = <<h>> \o @], doc)

(* The user, or the client, writes its hooks in another form.              *)
InlineHooks ==
    /\ Readable(config) /\ client = "codex"
    /\ \E form \in Forms({config.pre[i].matcher : i \in DOMAIN config.pre}) :
          Edit([config EXCEPT !.opaque = @ \cup form], doc)

BreakConfig == Readable(config) /\ Edit(Unparsable, doc)
DeleteConfig == config # Absent /\ Edit(Absent, doc)

EditDoc ==
    /\ doc # Absent
    /\ \/ \E l \in UserLines : Edit(config, Append(doc, l))
       \/ \E i \in DOMAIN doc : doc[i] = End /\ Edit(config, RemoveAt(doc, i))

UserStep == AddHook \/ InlineHooks \/ BreakConfig \/ DeleteConfig \/ EditDoc

SetupNext == Begin \/ SetupStep \/ UserStep

-----------------------------------------------------------------------------
SetupTypeOK ==
    /\ client \in Clients
    /\ Readable(config) => config \in Config
    /\ companion \in BOOLEAN /\ torn \in BOOLEAN
    /\ doc # Absent => doc \in Text
    /\ Running => command \in Command
    /\ outcome \in {"none", "installed", "uninstalled", "nothing", "stopped"}

(* The files are the user's before they are so-context's: commands that    *)
(* end, in any number, of any binary, leave the user's hooks and text as   *)
(* they were, in their order. They are lost where the file did not parse   *)
(* (claude.rs:62), was written under the command's hands, or was cut, and  *)
(* text with an end marker the user has removed.                           *)
UserEntriesSurvive ==
    /\ Readable(config) => UserView(config) = kept.view
    /\ UserText(doc) = kept.text

PreHooks(file, m) ==
    [i \in DOMAIN file.pre |-> IF file.pre[i].matcher = m THEN file.pre[i].hooks ELSE <<>>]

(* Of some handlers the groups hold one, and it is the binary.             *)
Sole(groups, handlers, binary) ==
    \E i \in DOMAIN groups : \E k \in DOMAIN groups[i] :
        /\ groups[i][k] = binary
        /\ \A j \in DOMAIN groups : \A n \in DOMAIN groups[j] :
              groups[j][n] \in handlers => j = i /\ n = k

(* A config with all that a setup writes, and one with nothing of it,      *)
(* where the installers could look.                                        *)
Whole(file) ==
    /\ file.server # NoBinary
    /\ client # "opencode" =>
        /\ file.server \in Recognised =>
            \A m \in ToSet(Matchers) \ file.opaque :
                Sole(PreHooks(file, m), Recognised, file.server)
        /\ PostCompact \notin file.opaque =>
            IF client = "claude" THEN Sole(file.post, {file.server}, file.server)
            ELSE file.server \in Recognised => Sole(file.post, Recognised, file.server)
Bare(file) ==
    /\ file.server = NoBinary
    /\ \A i \in DOMAIN file.pre :
          file.pre[i].matcher \notin file.opaque => ToSet(file.pre[i].hooks) \cap Recognised = {}
    /\ PostCompact \notin file.opaque =>
          \A i \in DOMAIN file.post : ToSet(file.post[i]) \cap Recognised = {}

(* "Setup complete": a setup that ended has left one handler for a matcher *)
(* however often it was run and wherever the binary was before, and one    *)
(* block; Claude's PostCompact keeps one for each place the binary was in. *)
(* It says so too where it has written no handler: for the matchers of the *)
(* groups and events in a form it passes over ("Codex: wrote MCP + hooks", *)
(* codex.rs:93, after the returns of codex.rs:140 and 334 and the branches *)
(* not taken at codex.rs:193 and claude.rs:223), which Whole leaves out.   *)
SetupIsWhole ==
    outcome = "installed" =>
        /\ Readable(config) /\ Whole(config) /\ companion
        /\ client # "opencode" /\ Balanced(doc) =>
            \E i \in DOMAIN doc : \A j \in DOMAIN doc : doc[j] = Start <=> j = i

(* "Removes all so-context entries from supported agent configs"           *)
(* (setup/mod.rs:28), if there was a config to look at (claude.rs:105),    *)
(* the binary was never given another name, and where the user has not     *)
(* rewritten the groups in a form uninstall passes over.                   *)
UninstallRemovesAll ==
    outcome = "uninstalled" /\ Readable(config) =>
        /\ Bare(config) /\ ~companion
        /\ Balanced(doc) => ToSet(LinesOf(doc)) \subseteq UserLines

(* What a command says it has done when it ends.                           *)
CommandsDoTheirWork == SetupIsWhole /\ UninstallRemovesAll

(* The hook of any binary denies, of whatever name.                        *)
Routed ==
    IF client = "opencode" THEN companion
    ELSE Readable(config) /\ \E i \in DOMAIN config.pre : \E h \in ToSet(config.pre[i].hooks) : h \in Binaries

(* The hooks an uninstall does not find: those of a binary of another name *)
(* (is_so_context_hook_value, claude.rs:240), and those in a form it       *)
(* passes over.                                                            *)
OutOfReach(file) ==
    \A i \in DOMAIN file.pre : \A h \in ToSet(file.pre[i].hooks) :
        IsSoContext(h) => file.pre[i].matcher \in file.opaque

(* A native tool is denied in favour of a so-context tool: never without   *)
(* the server that offers it. OpenCode's plugin is a file of its own, and  *)
(* the order in which config and plugin are written is what keeps this; an *)
(* uninstall takes the server first. In Claude and Codex uninstall takes   *)
(* the server away whatever hooks it leaves (claude.rs:104, codex.rs:112): *)
(* those out of its reach go on denying, without a tool to turn to, and    *)
(* are the exception here; hooks it can find never are.                    *)
DenialsHaveATool ==
    Routed =>
        \/ Readable(config) /\ config.server # NoBinary
        \/ client = "opencode" /\ (torn \/ (Running /\ Removing))
        \/ client # "opencode" /\ OutOfReach(config)
=============================================================================
