------------------------------- MODULE Lines -------------------------------
(***************************************************************************)
(* function/split_line.c and, for tables, function/merge_line.c: a text    *)
(* into its lines, and lines into a text.  A text is a sequence of bytes.  *)
(***************************************************************************)
EXTENDS Integers, Sequences, SequencesExt

CR == 13
LF == 10

\* A field of a table that is no string.
NotString == <<-1>>

-----------------------------------------------------------------------------
\* split_line at position pos: a line ends there, the next one starts at next.
Cut(s, data, pos, next) ==
    [start |-> next, lines |-> Append(s.lines, SubSeq(data, s.start, pos - 1))]

\* (A slip: the two bytes of CR LF end a line each.)
AfterEach(data, pos) == pos + 1
After(data, pos) ==
    IF data[pos] = CR /\ pos < Len(data) /\ data[pos + 1] = LF THEN pos + 2 ELSE pos + 1

\* A position before start is the LF of a CR LF.
_split_line(data) ==
    LET scanned == FoldLeftDomain(
            LAMBDA s, pos : IF pos >= s.start /\ data[pos] \in {CR, LF}
                            THEN Cut(s, data, pos, After(data, pos)) ELSE s,
            [start |-> 1, lines |-> <<>>], data)
    IN  IF scanned.start <= Len(data)
        THEN Append(scanned.lines, SubSeq(data, scanned.start, Len(data)))
        ELSE scanned.lines

\* t[1], t[2], ... up to the first that is no string, delim between them.
_merge_line_by_table(t, delim) ==
    LET strings == SelectInSeq(Append(t, NotString), LAMBDA v : v = NotString) - 1
    IN  FoldLeftDomain(LAMBDA text, i : text \o (IF i # 1 THEN delim ELSE <<>>) \o t[i],
                       <<>>, SubSeq(t, 1, strings))

-----------------------------------------------------------------------------
\* What the lines of a text are, said of the text as a whole.

\* Every line end written as LF.
WithLF(data) ==
    [i \in DOMAIN data |-> IF data[i] = LF /\ i > 1 /\ data[i - 1] = CR THEN <<>>
                           ELSE IF data[i] = CR THEN <<LF>> ELSE <<data[i]>>]
InOneStyle(data) == FlattenSeq(WithLF(data))
WithoutLast(text) == IF text # <<>> /\ Last(text) = LF THEN Front(text) ELSE text
LineEnds(text) == {i \in DOMAIN text : text[i] = LF}
=============================================================================
