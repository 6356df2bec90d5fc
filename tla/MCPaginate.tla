---------------------------- MODULE MCPaginate -----------------------------
(***************************************************************************)
(* All texts of up to 5 lines of 0, 1 or 4 bytes, texts of 13 lines with   *)
(* one empty line, where a fifth of a page is more than a line, and limits *)
(* below, at and above what they need, up to the largest integer.          *)
(***************************************************************************)
EXTENDS Paginate

\* The text of n lines, the i-th of w[i] bytes with its newline.
Starts(w, n) ==
    LET at[i \in 1..(n + 1)] == IF i = 1 THEN 0 ELSE at[i - 1] + w[i - 1] IN at

ShortTexts == UNION {{Starts(w, n) : w \in [1..n -> {1, 2, 5}]} : n \in 1..5}
LongTexts == {Starts([i \in 1..13 |-> IF i = k THEN 1 ELSE 2], 13) : k \in 10..13}
MCTexts == ShortTexts \union LongTexts

MCOffsets == {-1, 1, 13}
MCLineLimits == {-1, 1, 2, 10, 40}
MCByteLimits == {0, 1, 6}
=============================================================================
