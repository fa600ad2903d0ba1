---------------------------- MODULE MCArgparser ----------------------------
(* The values "1", a number and one of the choices, and "c", which the       *)
(* choices map to false and a type function to nil, and which is the name of *)
(* a positional argument too.                                                *)
EXTENDS Argparser, TLC

MCName   == {"-a", "-b", "--bar", "c"}
MCDashed == {"-a", "-b", "--bar"}
Form(name, value) == [name |-> name, value |-> value]
MCSplit  == "-a" :> Form("-a", NONE) @@ "-a1" :> Form("-a", "1")
            @@ "--bar=c" :> Form("--bar", "c") @@ "1" :> Form("1", NONE)
            @@ "c" :> Form("c", NONE)
MCWord   == DOMAIN MCSplit
MCToNumber == "1" :> 1
MCToObject == [w \in MCWord \cup {NIL} |-> IF w = "c" THEN NIL ELSE IF w = NIL THEN "1" ELSE w]

Plain(names) == [names |-> names, action |-> NOREF, type |-> NOREF, choices |-> NOREF,
                 default |-> NOREF, required |-> FALSE, narg |-> 1, refused |-> NONE]
D == [string |-> "c"]
Flag   == [string |-> "1"] :> TRUE @@ [string |-> "c"] :> FALSE

Kinds(names) == LET o == Plain(names) IN
    { o,
      [o EXCEPT !.narg = 0, !.action = "count", !.default = D],
      [o EXCEPT !.narg = 2, !.action = "append", !.required = TRUE],
      [o EXCEPT !.narg = OneAtMost, !.default = D, !.action = "function"],
      [o EXCEPT !.narg = AnyNumber, !.action = "append", !.type = "function"],
      [o EXCEPT !.narg = OneOrMore, !.type = "number", !.default = [boolean |-> TRUE]],
      [o EXCEPT !.narg = 1, !.choices = Flag, !.action = "count"],
      [o EXCEPT !.narg = 0, !.action = "help"],
      [o EXCEPT !.refused = "type", !.action = "append"],
      [o EXCEPT !.narg = -1, !.refused = "nargs", !.action = "store", !.type = "string"] }
MCOption == Kinds(<<"-a">>)
            \cup {o \in Kinds(<<"-b", "--bar">>) : o.action \notin {"count", "help"}}
            \cup {Plain(<<"c">>), [Plain(<<"-a">>) EXCEPT !.refused = "action"]}
=============================================================================
