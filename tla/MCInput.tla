------------------------------ MODULE MCInput ------------------------------
(***************************************************************************)
(* A small instance of Input for TLC: every shader of at most MaxChars     *)
(* characters in at most three strings, empty strings included.  The       *)
(* lexer's room is one or two characters, so that requests end inside      *)
(* strings, between a backslash and what follows it, and across strings.   *)
(***************************************************************************)
EXTENDS Input

CONSTANT MaxChars

Chars == {"a", Backslash, Newline, Return}

\* A text and the two places where it is cut into three strings.
Cuts == {c \in BoundedSeq(Chars, MaxChars) \X (0..MaxChars) \X (0..MaxChars) :
            c[2] <= c[3] /\ c[3] <= Len(c[1])}

Strings(c) ==
    <<SubSeq(c[1], 1, c[2]), SubSeq(c[1], c[2] + 1, c[3]), SubSeq(c[1], c[3] + 1, Len(c[1]))>>

\* The last strings of such a cut: all arrays of at most three strings.
SmallInputs == {SubSeq(Strings(c), n, 3) : c \in Cuts, n \in 1..4}
=============================================================================
