----------------------------- MODULE AgentCalls -----------------------------
(***************************************************************************)
(* An agent at work in a client that so-context was set up in: the native  *)
(* calls it makes pass the PreToolUse hook, or OpenCode's plugin, of the   *)
(* configuration that setup (Setup) has left.                              *)
(***************************************************************************)
EXTENDS Setup, ToolRouting

CONSTANTS Lines, NoCall    \* command lines the agent may type

ASSUME AgentLinesAssumption == Lines \subseteq Seq(STRING)

VARIABLE call              \* the native call that is looked at

vars == <<setupVars, call>>

Calls == {ShellCall(l) : l \in Lines} \cup {ReadCall(r) : r \in NativeRead}
             \cup {SearchCall(s) : s \in NativeSearch}

Init == SetupInit /\ call = NoCall

(* What a call is answered depends on nothing in the config but the        *)
(* handler: calls are looked at after a first setup without anything of    *)
(* the user's.                                                             *)
Fresh ==
    /\ Routed /\ outcome = "installed" /\ doc \in {Absent, Block}
    /\ config = Installed(Absent, CHOOSE b \in Recognised : TRUE)
    /\ budget = [commands |-> MaxCommands - 1, edits |-> MaxEdits]

Ask ==
    /\ Fresh /\ call = NoCall
    /\ call' \in Calls
    /\ UNCHANGED setupVars

(* The call goes its native way, or its retry does.                        *)
Done ==
    /\ call # NoCall
    /\ call' = NoCall
    /\ UNCHANGED setupVars

Next == Ask \/ Done \/ (call = NoCall /\ SetupNext /\ UNCHANGED call)

Spec == Init /\ [][Next]_vars

TypeOK == SetupTypeOK /\ (call # NoCall => call \in Calls)

(* A denied call can be made through so-context, and does the same there.  *)
RetryWorks == call # NoCall => RetryDoesTheSame(call)

(* The same calls are denied in every client.                              *)
ClientsAgree == call # NoCall => ClientsAgreeOn(call)
=============================================================================
