---------------------------- MODULE CommandString ---------------------------
(***************************************************************************)
(* How a command line becomes an argv (shell/command_string.rs), next to   *)
(* how a shell reads the same line. A line is a sequence of chunks: the    *)
(* characters both sides treat specially, one by one, and pieces of text   *)
(* that neither looks into. A word is a sequence of chunks too.            *)
(***************************************************************************)
EXTENDS Naturals, Sequences, SequencesExt

CONSTANTS
    Naming,      \* text of letters, digits and _ only
    Assigning,   \* such text up to its first =, and what follows: A=
    Globbing     \* text a shell expands, or drops, unless it is quoted: * ~ #

Blank == " "
Single == "single quote"
Double == "double quote"
Unquoted == "no quote"
Quotes == {Single, Double}
Escape == "backslash"
Expanding == {"dollar", "backquote"}
Operators == Expanding \cup {"|", "&", ";", "<", ">", "(", ")"}
Breaks == {"newline", "return"}

ASSUME CharactersAssumption ==
    (Naming \cup Assigning \cup Globbing) \cap (Quotes \cup Operators \cup Breaks \cup {Blank, Escape}) = {}

(* str::trim, which does not know of escapes.                              *)
Trim(line) ==
    LET text == {i \in DOMAIN line : line[i] \notin Breaks \cup {Blank}}
    IN  IF text = {} THEN <<>>
        ELSE SubSeq(line, CHOOSE i \in text : \A j \in text : i <= j,
                          CHOOSE i \in text : \A j \in text : j <= i)

Flush(s) == IF s.word = <<>> THEN s ELSE [s EXCEPT !.words = Append(@, s.word), !.word = <<>>]
Push(s, ch) == [s EXCEPT !.word = Append(@, ch), !.escaped = FALSE]

(* Mistake: a backslash escapes in single quotes too.                      *)
ParseCharEscaping(s, ch) ==
    CASE s.escaped -> Push(s, ch)
      [] ~s.escaped /\ ch = Escape -> [s EXCEPT !.escaped = TRUE]
      [] ~s.escaped /\ ch # Escape /\ s.quote # Unquoted ->
            IF ch = s.quote THEN [s EXCEPT !.quote = Unquoted] ELSE Push(s, ch)
      [] OTHER ->
            CASE ch \in Quotes -> [s EXCEPT !.quote = ch]
              [] ch = Blank -> Flush(s)
              [] ch \in Operators -> [s EXCEPT !.simple = FALSE]
              [] OTHER -> Push(s, ch)

(* One turn of parse_simple_shell_command's loop.                          *)
ParseChar(s, ch) ==
    CASE s.escaped -> Push(s, ch)
      [] ~s.escaped /\ s.quote # Unquoted ->
            CASE ch = s.quote -> [s EXCEPT !.quote = Unquoted]
              [] ch = Escape /\ s.quote = Double -> [s EXCEPT !.escaped = TRUE]
              [] OTHER -> Push(s, ch)
      [] OTHER ->
            CASE ch \in Quotes -> [s EXCEPT !.quote = ch]
              [] ch = Escape -> [s EXCEPT !.escaped = TRUE]
              [] ch = Blank -> Flush(s)
              [] ch \in Operators -> [s EXCEPT !.simple = FALSE]
              [] OTHER -> Push(s, ch)

(* The argv of a simple line, <<>> of any other: a line with no word, an   *)
(* open quote, an operator or a line break is not simple.                  *)
ParseSimpleShellCommand(line) ==
    LET start == [words |-> <<>>, word |-> <<>>, quote |-> Unquoted, escaped |-> FALSE, simple |-> TRUE]
        at[i \in 0 .. Len(line)] == IF i = 0 THEN start ELSE ParseChar(at[i - 1], line[i])
        end == at[Len(line)]
    IN  IF \/ \E i \in DOMAIN line : line[i] \in Breaks
           \/ ~end.simple \/ end.quote # Unquoted
        THEN <<>>
        ELSE Flush(end).words

(* Everything before the first = is a name.                                *)
IsEnvAssignment(word) ==
    \E i \in DOMAIN word : word[i] \in Assigning /\ \A j \in 1 .. i - 1 : word[j] \in Naming

(* How many words from the first on are assignments.                       *)
Assignments(argv) ==
    LET others == {i \in DOMAIN argv : ~IsEnvAssignment(argv[i])}
    IN  IF others = {} THEN Len(argv) ELSE (CHOOSE i \in others : \A j \in others : i <= j) - 1

RewriteEnvPrefix(argv) == IF Assignments(argv) = 0 THEN argv ELSE << <<"env">> >> \o argv

-----------------------------------------------------------------------------
(* A shell's reading of a line (POSIX 2.2, quoting): in double quotes a    *)
(* backslash is one unless $ ` " or \ follows, and $ and ` expand; quotes  *)
(* make a word, also an empty one. plain: nothing in the line is expanded, *)
(* no operator is in it, and no assignment is quoted, in its name or at    *)
(* its =. kept: a backslash stayed in double quotes.                       *)
EscapedInDouble == Expanding \cup {Double, Escape}

Word(s, ch, quoted) ==
    [s EXCEPT !.word = Append(@, ch), !.open = TRUE, !.escaped = FALSE,
              !.quoted = @ \/ quoted, !.plain = @ /\ ~((quoted \/ s.quoted) /\ ch \in Assigning)]
EndWord(s) ==
    IF s.open
    THEN [s EXCEPT !.words = Append(@, s.word), !.word = <<>>, !.open = FALSE, !.quoted = FALSE]
    ELSE s

ShellChar(s, ch) ==
    CASE s.escaped /\ s.quote = Double /\ ch \notin EscapedInDouble ->
            [Word(Word(s, Escape, TRUE), ch, TRUE) EXCEPT !.kept = TRUE]
      [] s.escaped /\ (s.quote = Unquoted \/ ch \in EscapedInDouble) -> Word(s, ch, TRUE)
      [] ~s.escaped /\ s.quote # Unquoted ->
            CASE ch = s.quote -> [s EXCEPT !.quote = Unquoted]
              [] s.quote = Double /\ ch = Escape -> [s EXCEPT !.escaped = TRUE]
              [] s.quote = Double /\ ch \in Expanding -> [s EXCEPT !.plain = FALSE]
              [] OTHER -> Word(s, ch, TRUE)
      [] OTHER ->
            CASE ch \in Quotes -> [s EXCEPT !.quote = ch, !.open = TRUE, !.quoted = TRUE]
              [] ch = Escape -> [s EXCEPT !.escaped = TRUE]
              [] ch = Blank -> EndWord(s)
              [] ch \in Operators \cup Breaks \cup Globbing -> [s EXCEPT !.plain = FALSE]
              [] OTHER -> Word(s, ch, FALSE)

ShellReading(line) ==
    LET start == [words |-> <<>>, word |-> <<>>, open |-> FALSE, quote |-> Unquoted,
                  escaped |-> FALSE, quoted |-> FALSE, plain |-> TRUE, kept |-> FALSE]
        at[i \in 0 .. Len(line)] == IF i = 0 THEN start ELSE ShellChar(at[i - 1], line[i])
        end == at[Len(line)]
    IN  [words |-> EndWord(end).words, kept |-> end.kept,
         plain |-> end.plain /\ end.quote = Unquoted /\ ~end.escaped]
=============================================================================
