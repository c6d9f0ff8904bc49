----------------------------- MODULE MCMailStore -----------------------------
(* Values for the constants of MailStore that a cfg cannot write. *)
EXTENDS MailRefinement

CONSTANTS s1, s2, ann, bob, hello, word, piece

OneLine  == {<<word>>}
TwoSizes == {<<word>>, <<Empty, word>>}
NoLine   == {<<>>}

\* Every write ends with a line.
WholeLines == [line \in Line |-> {}]

\* The word begins with a dot.
DotOfWord == [line \in Line |-> IF line = word THEN {Dot} ELSE {}]

\* More than the dot may be left of the word, and something of a header.
PieceOfAny == [line \in Line |-> IF line = word THEN {Dot, piece}
                                 ELSE IF line \in User \cup Subject THEN {piece} ELSE {}]

Typed == {-1, 0}
TypedBeyond == {-1, 0, 1}
First == {0}

Sessions == Permutations({s1, s2})
=============================================================================
