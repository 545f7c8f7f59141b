------------------------------- MODULE Metrics ------------------------------
(***************************************************************************)
(* so-context metrics (core/metrics.rs, core/metrics/query.rs): what the   *)
(* summary makes of the rows of the event log. Rows are those the window   *)
(* and the project filter let through; a ratio is a pair of numerator and  *)
(* denominator. argv and family are what the params of a so_shell row say. *)
(***************************************************************************)
EXTENDS Integers, FiniteSetsExt, SequencesExt

(* A row as load_event_rows reads it, columns that are NULL being 0.       *)
EventRow ==
    [tool : STRING, ok : BOOLEAN, mode : STRING, argv : Seq(STRING), family : STRING,
     duration : Nat, origin : Nat, actual : Nat]

Clamp(n) == IF n < 0 THEN 0 ELSE n

IsSavingsEligible(row) ==
    row.tool \in {"so_shell", "so_search"} \/ (row.tool = "so_read" /\ row.mode # "full")

IsCompressionHitEligible(row) ==
    row.tool = "so_shell" \/ (row.tool = "so_read" /\ row.mode # "full")

SavedTokens(row) == Clamp(row.origin - row.actual)

(* A group of rows is the set of its places in the list. What it adds up   *)
(* to:                                                                     *)
RowsOf(rows, tool) == {i \in DOMAIN rows : rows[i].tool = tool}
EligibleRows(rows, own) == {i \in own : IsSavingsEligible(rows[i])}
Errors(rows, own) == Cardinality({i \in own : ~rows[i].ok})
Latency(rows, own) == SumFunction([i \in own |-> rows[i].duration])
Saved(rows, own) == SumFunction([i \in own |-> SavedTokens(rows[i])])
Origin(rows, own) == SumFunction([i \in own |-> Clamp(rows[i].origin)])

(* Mistake: the tokens of a tool are summed whether eligible or not.       *)
ToolMetricsOfAny(rows, tool) ==
    LET own == RowsOf(rows, tool)
    IN [calls |-> Cardinality(own), errors |-> Errors(rows, own), latency |-> Latency(rows, own),
        saved |-> Saved(rows, own)]

(* tool_aggs, before the average is taken.                                 *)
ToolMetrics(rows, tool) ==
    LET own == RowsOf(rows, tool)
    IN [calls |-> Cardinality(own), errors |-> Errors(rows, own), latency |-> Latency(rows, own),
        saved |-> Saved(rows, EligibleRows(rows, own))]

(* The name a command is counted under, as the words it is joined from. A  *)
(* row without argv is counted under its family.                           *)
Classify(argv, family) ==
    LET command == argv[1]
        Flag(flag, other) == IF Contains(argv, flag) THEN <<command, flag>> ELSE other
    IN CASE argv = <<>> -> <<IF family = "none" THEN "unknown" ELSE family>>
         [] command \in {"rg", "grep"} -> Flag("--files", Flag("-n", <<command>>))
         [] command = "sed" -> Flag("-n", <<command>>)
         [] command \in {"find", "cat", "head", "tail"} -> <<command>>
         [] command \in {"sh", "bash", "zsh"} -> <<IF family = "none" THEN command ELSE family>>
         [] command = "git" /\ Len(argv) > 1 /\ argv[2] = "status" /\ Contains(argv, "--short") ->
                <<"git", "status", "--short">>
         [] OTHER -> SubSeq(argv, 1, IF Len(argv) < 2 THEN Len(argv) ELSE 2)

ClassifyShellCommand(row) == Classify(row.argv, row.family)

ShellCommands(rows) == {ClassifyShellCommand(rows[i]) : i \in RowsOf(rows, "so_shell")}

ShellCommandMetrics(rows, name) ==
    LET own == {i \in RowsOf(rows, "so_shell") : ClassifyShellCommand(rows[i]) = name}
    IN [calls |-> Cardinality(own), latency |-> Latency(rows, own),
        saved |-> Saved(rows, own), origin |-> Origin(rows, own)]

(* The commands that come first by tokens saved, then by calls; the order  *)
(* of the names that breaks ties is left open.                             *)
TopShellCommands(rows, topN) ==
    LET names == ShellCommands(rows)
        line == [n \in names |-> ShellCommandMetrics(rows, n)]
        Above(m, n) == \/ line[m].saved > line[n].saved
                       \/ line[m].saved = line[n].saved /\ line[m].calls > line[n].calls
        shown == IF topN < 1 THEN 1 ELSE topN
        top == CHOOSE ns \in SUBSET names :
                   /\ Cardinality(ns) = shown \/ (ns = names /\ Cardinality(names) < shown)
                   /\ \A m \in names \ ns, n \in ns : ~Above(m, n)
    IN [n \in top |-> line[n]]

SummaryMetrics(rows) ==
    LET all == DOMAIN rows
        saving == EligibleRows(rows, all)
        eligible == {i \in saving : IsCompressionHitEligible(rows[i])}
    IN [calls |-> Cardinality(all), errors |-> Errors(rows, all), latency |-> Latency(rows, all),
        eligible |-> Cardinality(eligible),
        hits |-> Cardinality({i \in eligible : SavedTokens(rows[i]) > 0}),
        saved |-> Saved(rows, saving), origin |-> Origin(rows, saving)]

-----------------------------------------------------------------------------
(* The tables of one report agree: the tools' lines add up to the summary, *)
(* and the shell commands' lines to the line of so_shell.                  *)
AddsUp(rows) ==
    LET tools == {rows[i].tool : i \in DOMAIN rows}
        sum == SummaryMetrics(rows)
        top == TopShellCommands(rows, Len(rows))
    IN /\ sum.calls = SumFunction([t \in tools |-> ToolMetrics(rows, t).calls])
       /\ sum.errors = SumFunction([t \in tools |-> ToolMetrics(rows, t).errors])
       /\ sum.latency = SumFunction([t \in tools |-> ToolMetrics(rows, t).latency])
       /\ sum.saved = SumFunction([t \in tools |-> ToolMetrics(rows, t).saved])
       /\ ToolMetrics(rows, "so_shell").saved = SumFunction([n \in DOMAIN top |-> top[n].saved])
       /\ ToolMetrics(rows, "so_shell").calls = SumFunction([n \in DOMAIN top |-> top[n].calls])

(* What is rendered as a percentage lies between 0 and 100.                *)
RatiosInRange(rows) ==
    LET sum == SummaryMetrics(rows)
    IN /\ sum.errors <= sum.calls
       /\ sum.hits <= sum.eligible /\ sum.eligible <= sum.calls
       /\ 0 <= sum.saved /\ sum.saved <= sum.origin
=============================================================================
