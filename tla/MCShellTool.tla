---------------------------- MODULE MCShellTool -----------------------------
(* Two calls: one is slow to write, fails or is refused, the other cannot  *)
(* be spawned, never ends, or leaves a descendant; and a call of so_read.  *)
EXTENDS ShellTool, TLC

CONSTANTS c1, c2

Writes(n, m, exit) ==
    [stdout |-> n, stderr |-> m, found |-> TRUE, ends |-> TRUE, exit |-> exit, lingers |-> FALSE]

long == Writes(3, 0, 0)
failing == Writes(0, 2, 1)
endless == [Writes(0, 0, 0) EXCEPT !.ends = FALSE]
lingering == [Writes(0, 0, 0) EXCEPT !.lingers = TRUE]
missing == [Writes(0, 0, 0) EXCEPT !.found = FALSE]
CommandsDef == {long, failing, endless, lingering, missing}

Asks(argv, cmd) ==
    [argv |-> argv, strings |-> TRUE, family |-> "unknown", full |-> FALSE, reason |-> "none",
     cwd |-> "none", roots |-> 1, runs |-> cmd]

test(cmd) == Asks(<<"cargo", "test">>, cmd)
fully(cmd) == [test(cmd) EXCEPT !.full = TRUE, !.reason = "expired"]
elsewhere(cmd) == [test(cmd) EXCEPT !.cwd = "relative", !.roots = 2]
script(cmd) == Asks(<<"sh", "-c">>, cmd)

Both(r1, r2) == [c \in Calls |-> IF c = c1 THEN r1 ELSE r2]
PlansDef ==
    {Both(fully(long), script(missing)), Both(elsewhere(failing), script(endless)),
     Both(test(failing), script(lingering))}
RequestsDef == UNION {{p[c] : c \in Calls} : p \in PlansDef}

(* A whole read of a text that the agent has already.                      *)
OtherEventsDef ==
    {[id |-> "read", tool |-> "so_read", ok |-> TRUE, mode |-> "full", argv |-> <<>>,
      family |-> "none", duration |-> 1, origin |-> 3, actual |-> 1]}
=============================================================================
