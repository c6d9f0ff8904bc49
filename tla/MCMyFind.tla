------------------------------ MODULE MCMyFind ------------------------------
(* Small instances of MyFind: a directory with one file in two spellings. *)
EXTENDS MyFind

CONSTANTS a, A, b, r1, r2

CaseFold == [n \in {a, A, b} |-> IF n = A THEN a ELSE n]

Entry(n, p, d, below) == [name |-> n, path |-> p, dir |-> d, below |-> below]

Files == {Entry(a, 1, FALSE, FALSE), Entry(A, 2, FALSE, TRUE), Entry(b, 3, TRUE, FALSE)}

Call(opts, exists, names) == [opts |-> opts, exists |-> exists, names |-> names]

\* Two names, one name with both options, no name at all, and two mistakes.
Calls == {Call(<<>>, TRUE, <<a, b>>), Call(<<"R", "i">>, TRUE, <<a>>), Call(<<>>, TRUE, <<>>),
          Call(<<"i", "i">>, TRUE, <<a>>), Call(<<>>, FALSE, <<a>>)}

\* Two names each.
Pairs == {Call(<<>>, TRUE, <<a, b>>)}
=============================================================================
