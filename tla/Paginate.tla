------------------------------ MODULE Paginate ------------------------------
(***************************************************************************)
(* tools/helpers.go: paginateText, which get_section, get_document and the *)
(* draft tools answer with, and a client that reads a text page by page,   *)
(* each time from the offset the last page named, with limits of its       *)
(* choice.  A text is the sequence of the byte positions where its lines   *)
(* start and, at last, where it ends.  Lines are counted from 0, as in the *)
(* code: line i takes the bytes from text[i + 1] to text[i + 2] - 1, its   *)
(* newline included, and an empty line takes one.  The code counts a       *)
(* newline for the last line too, as the text does here.                   *)
(***************************************************************************)
EXTENDS Integers, Sequences

CONSTANTS
    Texts,         \* the texts read
    Offsets,       \* the offsets a client starts with
    LineLimits,    \* the max_lines it asks for
    ByteLimits,    \* the max_chars it asks for
    DefaultLines,  \* defaultMaxLines
    MaxInt         \* the largest Go int

IsText(t) == /\ t \in Seq(Nat) /\ Len(t) >= 2 /\ 2 * Len(t) <= MaxInt
             /\ \A i, j \in 1..Len(t) : i < j => t[i] < t[j]

ASSUME TextsAssumption == \A t \in Texts : IsText(t)
ASSUME LimitsAssumption ==
    /\ Offsets \subseteq Int /\ LineLimits \subseteq Int /\ ByteLimits \subseteq Int
    /\ DefaultLines \in Nat \ {0} /\ MaxInt \in Nat

VARIABLES
    text,    \* the text read; it does not change between the pages
    offset,  \* where the client reads on
    page,    \* the page it was given last: [from, to, lines, bytes]
    status   \* "reading", or "done": the page named no offset, or had no text

vars == <<text, offset, page, status>>

NoPage == [from |-> 0, to |-> 0, lines |-> 0, bytes |-> 0]

Total == Len(text) - 1
Size(i, j) == text[j + 1] - text[i + 1]  \* the bytes of lines i..(j - 1)
Empty(i) == Size(i, i + 1) = 1

First(S) == CHOOSE i \in S : \A j \in S : i <= j
AtMost(a, b) == IF a > b THEN b ELSE a

TypeOK == /\ IsText(text) /\ offset \in Int /\ status \in {"reading", "done"}
          /\ page \in [from : Nat, to : Nat, lines : Int, bytes : Int]

Init == /\ text \in Texts /\ offset \in Offsets
        /\ page = NoPage /\ status = "reading"
-----------------------------------------------------------------------------
\* The sum of two Go ints.
Plus(a, b) == IF a + b > MaxInt THEN a + b - 2 * (MaxInt + 1) ELSE a + b

\* max_lines is not clamped to the text.
LinesUnclamped(lines) == IF lines <= 0 THEN DefaultLines ELSE lines

Lines(lines) == AtMost(IF lines <= 0 THEN DefaultLines ELSE lines, Total)

\* The end by lines.
Window(from, lines) == AtMost(Plus(from, Lines(lines)), Total)

\* A page of exactly max_chars bytes exceeds them.
ExceedingEarly(from, end, bytes) ==
    {i \in from..(end - 1) : bytes > 0 /\ Size(from, i + 1) >= bytes}

\* The lines of the window that exceed max_chars, 0 for no limit.
Exceeding(from, end, bytes) ==
    {i \in from..(end - 1) : bytes > 0 /\ Size(from, i + 1) > bytes}

\* The line that exceeds is left out although it is the page's only one.
StopBefore(from, end, bytes) ==
    LET over == Exceeding(from, end, bytes)
    IN  IF over = {} THEN end ELSE First(over)

\* The end by bytes: before the first line that exceeds, but after it when
\* it would be the page's only line.
Stop(from, end, bytes) ==
    LET over == Exceeding(from, end, bytes)
    IN  IF over = {} THEN end
        ELSE IF First(over) > from THEN First(over) ELSE First(over) + 1

\* A fifth of the page is looked at for an empty line, but at least one line.
LookAhead(from, end) ==
    LET fifth == (end - from) \div 5
    IN  AtMost(IF fifth <= 0 THEN end + 1 ELSE end + fifth, Total)

\* Empty lines, whatever the bytes before them.
ParagraphsBeyond(from, end, bytes) ==
    {i \in end..(LookAhead(from, end) - 1) : Empty(i)}

\* The empty lines the page may be extended to.
Paragraphs(from, end, bytes) ==
    {i \in end..(LookAhead(from, end) - 1) :
        Empty(i) /\ (bytes > 0 => Size(from, i + 1) <= bytes)}

PageEnd(from, lines, bytes) ==
    LET window == Window(from, lines)
        end == Stop(from, window, bytes)
        next == Paragraphs(from, end, bytes)
    IN  IF end < Total /\ end = window /\ next # {} THEN First(next) + 1 ELSE end

\* One call; a negative offset is taken for 0.
From == IF offset < 0 THEN 0 ELSE offset

Call(lines, bytes) ==
    /\ status = "reading" /\ From < Total
    /\ LET end == PageEnd(From, lines, bytes)
       IN  /\ page' = [from |-> From, to |-> end, lines |-> lines, bytes |-> bytes]
           /\ offset' = end
           /\ status' = IF end < Total THEN "reading" ELSE "done"
    /\ UNCHANGED text

\* An offset beyond the text: a note instead of a page.
NoContent ==
    /\ status = "reading" /\ From >= Total
    /\ status' = "done"
    /\ UNCHANGED <<text, offset, page>>

Next == \/ \E lines \in LineLimits, bytes \in ByteLimits : Call(lines, bytes)
        \/ NoContent

Spec == Init /\ [][Next]_vars /\ WF_vars(Next)
-----------------------------------------------------------------------------
\* Every page starts in the text, ends in it and has a line: a client that
\* follows the offsets gets on, and the slice of lines is a legal one
\* (helpers.go:66-68, 82-84).
PageAdvances ==
    page # NoPage => /\ 0 <= page.from /\ page.from < page.to
                     /\ page.to <= Total

\* max_chars is "a hard cap counted in bytes", but for a single line; the
\* newline after the last line is not part of the page (helpers.go:82-84).
WithinBytes ==
    page.bytes > 0 =>
        \/ Size(page.from, page.to) - 1 <= page.bytes
        \/ page.to = page.from + 1

\* The extension to a paragraph adds at most a fifth of the lines, or one
\* (helpers.go:106-110).
Asked == LinesUnclamped(page.lines)
WithinLines ==
    page # NoPage =>
        page.to - page.from <= Asked + (IF Asked < 5 THEN 1 ELSE Asked \div 5)

\* Types - a slice bound is never negative - and both limits together: the
\* extension may not break the cap, nor the cap be bought with lines.
WithinLimits == TypeOK /\ WithinBytes /\ WithinLines

\* A page with fewer lines than were asked for ends the text, or the next
\* line would have exceeded max_chars: nothing is cut without a reason.
NotShort ==
    page # NoPage /\ page.to - page.from < Asked /\ page.to < Total =>
        page.bytes > 0 /\ Size(page.from, page.to + 1) > page.bytes

\* A client that follows the offsets reaches the end, whatever its limits.
ReadingEnds == <>(status = "done")
=============================================================================
