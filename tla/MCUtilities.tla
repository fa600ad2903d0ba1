---------------------------- MODULE MCUtilities ----------------------------
(* Small inputs of every kind, chosen next to each other. *)
EXTENDS Utilities

Of(type, ats) == {[type |-> type, at |-> a] : a \in ats}

\* With a mantissa of three bits, 8 and 9, 10 and 11, 11 and 12 are hard.
MCValue == UNION {
    Of("nil", {0}), Of("boolean", {0, 1}), Of("lightuserdata", {1, 2}),
    Of("number", {NaN, 7, 8, 9, 10, 11, 12}),
    Of("string", {<<>>, <<65>>, <<65, 66>>, <<200>>, <<65, 200>>}),
    Of("table", {1, 2}), Of("function", {1}) }

MCText == BoundedSeq({CR, LF, 65}, 5)

\* The name, and one long argument or two short ones.
Argument(n) == BoundedSeq({SPACE, QUOTE, BACKSLASH, 97}, n)
MCArgumentList == {<< <<97>> >>} \union {<< <<97>>, a >> : a \in Argument(4)}
                     \union {<< <<97>>, a, b >> : a, b \in Argument(2)}

\* Two required variables, and names before, between and behind them.
MCrequired_vars == <<2, 4>>
MCEnvironment ==
    LET entry == {Entry(n, <<7>>) : n \in {NoName, 1, 2, 3, 4, 5}} \union {Entry(2, <<7, 7>>)}
    IN  UNION {[1..n -> entry] : n \in 0..2}
MCHost == UNION {[names -> {<<>>, <<8>>, <<9>>, <<8, 9>>}] : names \in SUBSET {2, 4}}

\* Directories of every kind, one of them written in quotes, and nothing.
MCcwd == <<"C", ":", "\\", "w">>
Plain(d) == [text |-> d, dir |-> d]
MCElement ==
    {Plain(d) : d \in {<<>>, <<"C", ":", "\\", "a">>, <<"\\", "a">>, <<"C", ":", "a">>,
                       <<"D", ":", "a", "\\">>, <<"\\", "\\", "a">>, <<"a">>}}
    \union {[text |-> <<"\"", "a", ";", "b", "\"">>, dir |-> <<"a", ";", "b">>]}
MCFileName == {<<"p">>, <<"p", ".">>, <<"p", ".", "x">>}
=============================================================================
