----------------------------- MODULE SearchPath -----------------------------
(***************************************************************************)
(* utils/exec.c for Windows: _search_path, which looks for a program: in   *)
(* the directory it is named with, or in the working directory and then in *)
(* those of PATH.                                                          *)
(*                                                                         *)
(* A path is a sequence of tokens: names of directories and files, and the *)
(* characters the code looks for.                                          *)
(***************************************************************************)
EXTENDS Integers, Sequences, SequencesExt

SLASHES == {"\\", "/"}
SEPARATORS == SLASHES \union {":"}
QUOTES == {"\"", "'"}

\* token i of path is in set; none is beyond its end.
At(path, i, set) == i \in DOMAIN path /\ path[i] \in set
\* wcschr: the first position from i on with token c, or the end of path.
From(path, i, c) == SelectInSubSeq(path, i, Len(path), LAMBDA t : t = c)
FromOrEnd(path, i, c) == IF From(path, i, c) # 0 THEN From(path, i, c) ELSE Len(path) + 1

-----------------------------------------------------------------------------
\* What a directory is relative to: nothing, the drive of the working
\* directory, or all of it.
Kind(dir, cwd) ==
    CASE Len(dir) > 2 /\ At(dir, 1, SLASHES) /\ At(dir, 2, SLASHES)      -> "unc"
      [] At(dir, 1, SLASHES) /\ ~(Len(dir) > 2 /\ At(dir, 2, SLASHES))   -> "rooted"
      [] At(dir, 2, {":"}) /\ ~At(dir, 1, SLASHES) /\ ~At(dir, 3, SLASHES) ->
            IF SubSeq(cwd, 1, 2) = SubSeq(dir, 1, 2) THEN "same drive" ELSE "other drive"
      [] At(dir, 2, {":"}) /\ ~At(dir, 1, SLASHES) /\ At(dir, 3, SLASHES) -> "absolute"
      [] OTHER -> "relative"

Separated(path) ==
    IF path # <<>> /\ Last(path) \notin SEPARATORS THEN Append(path, "\\") ELSE path

\* The name of a file: a directory is put behind what it is relative to.
Joined(dir, name, ext, cwd) ==
    LET kind == Kind(dir, cwd)
        base == CASE kind \in {"relative", "same drive"} -> cwd
                  [] kind = "rooted"                     -> SubSeq(cwd, 1, 2)
                  [] OTHER                               -> <<>>
        rest == IF kind = "same drive" THEN SubSeq(dir, 3, Len(dir)) ELSE dir
        dot  == IF ext # <<>> /\ name # <<>> /\ Last(name) # "." THEN <<".">> ELSE <<>>
    IN  Separated(base) \o Separated(rest) \o name \o dot \o ext

\* The extensions in the order they are tried.
Extensions(name_has_ext) ==
    (IF name_has_ext THEN << <<>> >> ELSE <<>>) \o << <<"com">>, <<"exe">> >>

NULL == <<>>

\* files is the set of the files there are.
search_path_join_test(dir, name, ext, cwd, files) ==
    IF Joined(dir, name, ext, cwd) \in files THEN Joined(dir, name, ext, cwd) ELSE NULL
path_search_walk_ext(dir, name, cwd, name_has_ext, files) ==
    LET found(ext) == search_path_join_test(dir, name, ext, cwd, files)
        tried == Extensions(name_has_ext)
        i == SelectInSeq(tried, LAMBDA ext : found(ext) # NULL)
    IN  IF i = 0 THEN NULL ELSE found(tried[i])

-----------------------------------------------------------------------------
\* The slices of PATH.

\* A slice ends at a ';', one that begins with a quote at a ';' after the next
\* such quote.  (A slip: quotes do not matter.)
SliceEndAnywhere(path, start) == FromOrEnd(path, start, ";")
SliceEnd(path, start) ==
    FromOrEnd(path, IF At(path, start, QUOTES) THEN FromOrEnd(path, start + 1, path[start])
                    ELSE start, ";")

\* Where the next slice begins; end is the end of the one before, or 1.
SliceStart(path, end) == IF end # 1 \/ At(path, 1, {";"}) THEN end + 1 ELSE end

\* A slice without the quote it begins with and the one it ends with.
Unquoted(slice) ==
    LET rest == IF At(slice, 1, QUOTES) THEN Tail(slice) ELSE slice
    IN  IF At(rest, Len(rest), QUOTES) THEN Front(rest) ELSE rest

\* Of a slice that is a quote and nothing else, the code reads what is before
\* it and takes 1 from a length of 0.
LoneQuote(slice) == Len(slice) = 1 /\ At(slice, 1, QUOTES)

\* One slice after the other until there is a result: undefined is set when the
\* search came upon a lone quote.
Scanned(file, cwd, path, name_has_ext, files) ==
    FoldLeft(
        LAMBDA s, round :
            IF s.result # NULL \/ s.undefined \/ s.end > Len(path) THEN s
            ELSE LET start == SliceStart(path, s.end)
                     slice == SubSeq(path, start, SliceEnd(path, start) - 1)
                 IN  [end       |-> SliceEnd(path, start),
                      undefined |-> LoneQuote(slice),
                      result    |-> IF slice = <<>> \/ LoneQuote(slice) THEN NULL
                                    ELSE path_search_walk_ext(Unquoted(slice), file, cwd,
                                                              name_has_ext, files)],
        [end |-> 1, undefined |-> FALSE,
         result |-> path_search_walk_ext(<<>>, file, cwd, name_has_ext, files)],
        [round \in 1..(Len(path) + 1) |-> round])

\* The result, or how the call ends without one.
_search_path(file, cwd, path, files) ==
    LET slash  == SelectLastInSeq(file, LAMBDA t : t \in SEPARATORS)
        name   == SubSeq(file, slash + 1, Len(file))
        dot    == From(name, 1, ".")
        name_has_ext == dot # 0 /\ dot < Len(name)
        walked == IF slash # 0
                  THEN [undefined |-> FALSE,
                        result |-> path_search_walk_ext(SubSeq(file, 1, slash), name, cwd,
                                                        name_has_ext, files)]
                  ELSE Scanned(file, cwd, path, name_has_ext, files)
    IN  IF file \in {<<>>, <<".">>} THEN <<"NULL">>
        ELSE IF walked.undefined THEN <<"undefined">>
        ELSE IF walked.result = NULL THEN <<"ERROR_OUTOFMEMORY">>   \* _wcsdup(NULL)
        ELSE walked.result
=============================================================================
