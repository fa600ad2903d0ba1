---------------------------- MODULE CommandLine ----------------------------
(***************************************************************************)
(* utils/exec.c for Windows: make_program_args, which puts a program's     *)
(* arguments into the one string that Windows gives to it, and             *)
(* quote_cmd_arg, which quotes one of them.                                *)
(***************************************************************************)
EXTENDS Integers, Sequences

SPACE == 32
TAB == 9
QUOTE == 34
BACKSLASH == 92

HasOneOf(source, set) == \E i \in DOMAIN source : source[i] \in set

\* One more character of an argument, from the last to the first, so that the
\* backslashes before a quote are known to be before one.  (A slip: they are not
\* doubled.)
EscapeNot(s, c) ==
    CASE c = QUOTE -> [hit |-> TRUE, text |-> <<BACKSLASH, c>> \o s.text]
      [] OTHER     -> [hit |-> FALSE, text |-> <<c>> \o s.text]
Escape(s, c) ==
    CASE s.hit /\ c = BACKSLASH -> [hit |-> TRUE, text |-> <<c, BACKSLASH>> \o s.text]
      [] c = QUOTE              -> [hit |-> TRUE, text |-> <<BACKSLASH, c>> \o s.text]
      [] OTHER                  -> [hit |-> FALSE, text |-> <<c>> \o s.text]

Escaped(source) ==
    LET done[n \in 0..Len(source)] ==
            IF n = 0 THEN [hit |-> TRUE, text |-> <<>>]
            ELSE Escape(done[n - 1], source[Len(source) - n + 1])
    IN  done[Len(source)].text

quote_cmd_arg(source) ==
    IF source = <<>> THEN <<QUOTE, QUOTE>>
    ELSE IF ~HasOneOf(source, {SPACE, TAB, QUOTE}) THEN source
    ELSE IF ~HasOneOf(source, {QUOTE, BACKSLASH}) THEN <<QUOTE>> \o source \o <<QUOTE>>
    ELSE <<QUOTE>> \o Escaped(source) \o <<QUOTE>>

\* The line, and the characters that are allocated for it: every argument with
\* its null, twice, and a pair of quotes.
make_program_args(args) ==
    LET line[i \in 0..Len(args)] ==
            IF i = 0 THEN <<>>
            ELSE line[i - 1] \o (IF i # 1 THEN <<SPACE>> ELSE <<>>) \o quote_cmd_arg(args[i])
        space[i \in 0..Len(args)] ==
            IF i = 0 THEN 0 ELSE space[i - 1] + 2 * (Len(args[i]) + 1) + 2
    IN  [line |-> line[Len(args)], space |-> space[Len(args)]]

-----------------------------------------------------------------------------
\* What the C library of the started program makes of a line that begins after
\* the program's name: 2n backslashes and a quote are n backslashes and a quote
\* that opens or closes, one more backslash makes the quote a character, and so
\* does a second quote between quotes.

Backslashes(n) == [i \in 1..n |-> BACKSLASH]

\* After the backslashes that precede it, a quote:
AtQuote(s, follows) ==
    LET text == s.text \o Backslashes(s.slashes \div 2)
        t    == [s EXCEPT !.open = TRUE, !.slashes = 0]
    IN  IF s.slashes % 2 = 1 THEN [t EXCEPT !.text = Append(text, QUOTE)]
        ELSE IF s.quoted /\ follows = QUOTE
             THEN [t EXCEPT !.text = Append(text, QUOTE), !.skip = TRUE]
        ELSE [t EXCEPT !.text = text, !.quoted = ~s.quoted]

\* or another character, which may end an argument:
AtOther(s, c) ==
    LET text == s.text \o Backslashes(s.slashes)
        t    == [s EXCEPT !.slashes = 0]
    IN  IF c \notin {SPACE, TAB} \/ s.quoted
        THEN [t EXCEPT !.open = TRUE, !.text = Append(text, c)]
        ELSE IF s.open THEN [t EXCEPT !.args = Append(s.args, text), !.text = <<>>, !.open = FALSE]
        ELSE t

\* One character is read.
ReadNext(s, all, i) ==
    IF s.skip THEN [s EXCEPT !.skip = FALSE]
    ELSE IF all[i] = BACKSLASH THEN [s EXCEPT !.slashes = @ + 1, !.open = TRUE]
    ELSE IF all[i] = QUOTE THEN AtQuote(s, all[i + 1])
    ELSE AtOther(s, all[i])

ParsedArguments(line) ==
    LET all == Append(line, SPACE)     \* the end ends an argument, as a blank does
        read[i \in 0..Len(all)] ==
            IF i = 0 THEN [args |-> <<>>, text |-> <<>>, open |-> FALSE, quoted |-> FALSE,
                           slashes |-> 0, skip |-> FALSE]
            ELSE ReadNext(read[i - 1], all, i)
    IN  read[Len(all)].args
=============================================================================
