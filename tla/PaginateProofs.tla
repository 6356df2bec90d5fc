--------------------------- MODULE PaginateProofs ---------------------------
(***************************************************************************)
(* Proofs about module Paginate: what one page returns, for every text and *)
(* every limits a client may choose.                                       *)
(***************************************************************************)
EXTENDS Paginate, FiniteSetTheorems, TLAPS

\* A set of naturals that is not empty has a least element: the sets 0..x of
\* its elements are finite, and one of them contains no other one.
LEMMA FirstIsLeast ==
  ASSUME NEW S \in SUBSET Nat, S # {}
  PROVE  First(S) \in S /\ \A j \in S : First(S) <= j
<1> DEFINE T == {0..x : x \in S}
<1> HIDE DEF T
<1>1. T \subseteq FiniteSubsetsOf(Nat) /\ T # {}
  <2>1. \A x \in S : IsFiniteSet(0..x)
    BY FS_Interval
  <2>2. \A x \in S : 0..x \in SUBSET Nat
    OBVIOUS
  <2>3. QED
    BY <2>1, <2>2 DEF T, FiniteSubsetsOf
<1>2. PICK m \in T : \A y \in T : <<y, m>> \notin StrictSubsetOrdering(Nat)
  BY <1>1, FS_StrictSubsetOrderingWellFounded, WFMin, Zenon
<1>3. PICK x \in S : m = 0..x
  BY DEF T
<1>4. ASSUME NEW y \in S
      PROVE  x <= y
  <2>1. SUFFICES ASSUME y < x PROVE FALSE
    OBVIOUS
  <2>2. 0..y \subseteq 0..x /\ 0..y # 0..x
    <3>1. x \in 0..x /\ x \notin 0..y
      BY <2>1
    <3>2. QED
      BY <2>1, <3>1
  <2>3. 0..y \in SUBSET Nat /\ 0..x \in SUBSET Nat
    OBVIOUS
  <2>4. <<0..y, m>> \in StrictSubsetOrdering(Nat)
    BY <2>2, <2>3, <1>3 DEF StrictSubsetOrdering
  <2>5. QED
    BY <2>4, <1>2 DEF T
<1>5. QED
  BY <1>4 DEF First

\* The window starts at from, has a line, and has as many as were asked for
\* unless the text ends first: the clamp keeps the sum from wrapping.
LEMMA WindowBounds ==
  ASSUME IsText(text), NEW from \in Nat, from < Total, NEW lines \in Int
  PROVE  /\ Window(from, lines) \in Nat
         /\ from < Window(from, lines) /\ Window(from, lines) <= Total
         /\ LinesUnclamped(lines) \in Nat
         /\ Window(from, lines) - from <= LinesUnclamped(lines)
         /\ Window(from, lines) < Total =>
              Window(from, lines) - from = LinesUnclamped(lines)
<1>1. Total \in Nat /\ Total > 0 /\ 2 * Total < MaxInt /\ MaxInt \in Nat
  BY LimitsAssumption DEF IsText, Total
<1>2. DefaultLines \in Nat \ {0}
  BY LimitsAssumption
<1>3. LinesUnclamped(lines) \in Nat \ {0}
  BY <1>2 DEF LinesUnclamped
<1>4. Lines(lines) = AtMost(LinesUnclamped(lines), Total)
  BY DEF Lines, LinesUnclamped
<1>5. Lines(lines) \in Nat \ {0} /\ Lines(lines) <= Total
  BY <1>1, <1>3, <1>4 DEF AtMost
<1>6. Plus(from, Lines(lines)) = from + Lines(lines)
  BY <1>1, <1>5 DEF Plus
<1>7. Window(from, lines) = AtMost(from + Lines(lines), Total)
  BY <1>6 DEF Window
<1>8. QED
  BY <1>1, <1>3, <1>4, <1>5, <1>7 DEF AtMost

\* Sizes are integers and grow with the line.
LEMMA SizeGrows ==
  ASSUME IsText(text), NEW i \in Nat, NEW j \in Nat, NEW k \in Nat,
         i <= Total, j < k, k <= Total
  PROVE  /\ Size(i, j) \in Int /\ Size(i, k) \in Int
         /\ Size(i, j) < Size(i, k)
<1>0. Total + 1 = Len(text) /\ Len(text) \in Nat /\ Total \in Nat
  BY DEF IsText, Total
<1>1. /\ \A n \in 1..Len(text) : text[n] \in Nat
      /\ \A m, n \in 1..Len(text) : m < n => text[m] < text[n]
  <2>1. text \in Seq(Nat) /\ \A m, n \in 1..Len(text) : m < n => text[m] < text[n]
    BY DEF IsText
  <2>2. \A n \in 1..Len(text) : text[n] \in Nat
    BY <2>1
  <2>3. QED
    BY <2>1, <2>2
<1>2. i + 1 \in 1..Len(text) /\ j + 1 \in 1..Len(text) /\ k + 1 \in 1..Len(text)
  BY <1>0
<1>3. QED
  BY <1>1, <1>2 DEF Size

\* The cut by bytes keeps a line, and the page within the bytes unless it is
\* that one line; where it shortens the window, the next line exceeds.
LEMMA StopBounds ==
  ASSUME IsText(text), NEW from \in Nat, NEW window \in Nat, NEW bytes \in Int,
         from < window, window <= Total
  PROVE  LET end == Stop(from, window, bytes)
         IN  /\ end \in Nat /\ from < end /\ end <= window
             /\ bytes > 0 => Size(from, end) <= bytes \/ end = from + 1
             /\ end < window => bytes > 0 /\ Size(from, end + 1) > bytes
<1> DEFINE over == Exceeding(from, window, bytes)
<1>0. Total \in Nat
  BY DEF IsText, Total
<1>1. over \in SUBSET Nat /\ \A i \in over : from <= i /\ i < window
  BY DEF Exceeding
<1>2. \A i \in Nat : from <= i /\ i < window /\ i \notin over /\ bytes > 0 =>
        Size(from, i + 1) <= bytes
  <2>1. \A i \in Nat : from <= i /\ i < window => Size(from, i + 1) \in Int
    <3>1. TAKE i \in Nat
    <3>2. HAVE from <= i /\ i < window
    <3>3. QED
      BY <1>0, <3>2, SizeGrows
  <2>2. QED
    BY <2>1 DEF Exceeding
<1>3. CASE over = {}
  <2>1. Stop(from, window, bytes) = window
    BY <1>3 DEF Stop
  <2>2. window - 1 \in Nat /\ from <= window - 1 /\ window - 1 < window
    OBVIOUS
  <2>3. bytes > 0 => Size(from, window) <= bytes
    BY <1>2, <1>3, <2>2
  <2>4. QED
    BY <2>1, <2>3
<1>4. CASE over # {}
  <2> DEFINE f == First(over)
  <2>1. f \in over /\ \A j \in over : f <= j
    BY <1>1, <1>4, FirstIsLeast
  <2> HIDE DEF f
  <2>2. f \in Nat /\ from <= f /\ f < window /\ bytes > 0 /\ Size(from, f + 1) > bytes
    BY <1>1, <2>1 DEF Exceeding
  <2>3. CASE f > from
    <3>1. Stop(from, window, bytes) = f
      BY <1>4, <2>3 DEF Stop, f
    <3>2. f - 1 \in Nat /\ from <= f - 1 /\ f - 1 < window /\ f - 1 \notin over
      BY <2>1, <2>2, <2>3
    <3>3. Size(from, f) <= bytes
      BY <1>2, <2>2, <3>2
    <3>4. QED
      BY <2>2, <2>3, <3>1, <3>3
  <2>4. CASE f = from
    <3>1. Stop(from, window, bytes) = from + 1
      BY <1>4, <2>4 DEF Stop, f
    <3>2. from + 1 < window => Size(from, from + 2) > bytes
      <4>1. SUFFICES ASSUME from + 1 < window PROVE Size(from, from + 2) > bytes
        OBVIOUS
      <4>2. /\ Size(from, from + 1) \in Int /\ Size(from, from + 2) \in Int
            /\ Size(from, from + 1) < Size(from, from + 2)
        BY <4>1, <1>0, SizeGrows
      <4>3. QED
        BY <4>2, <2>2, <2>4
    <3>3. QED
      BY <2>2, <3>1, <3>2
  <2>5. QED
    BY <2>2, <2>3, <2>4
<1>5. QED
  BY <1>3, <1>4

\* The lines asked for, and what the extension to a paragraph may add.
Allowed(lines) ==
  LinesUnclamped(lines)
    + (IF LinesUnclamped(lines) < 5 THEN 1 ELSE LinesUnclamped(lines) \div 5)

\* One page: it starts at from, has a line, ends in the text, within the bytes
\* and the lines, and is not shorter than asked for without a reason.
LEMMA PageBounds ==
  ASSUME IsText(text), NEW from \in Nat, from < Total,
         NEW lines \in Int, NEW bytes \in Int
  PROVE  LET end == PageEnd(from, lines, bytes)
         IN  /\ end \in Nat /\ from < end /\ end <= Total
             /\ bytes > 0 => Size(from, end) - 1 <= bytes \/ end = from + 1
             /\ end - from <= Allowed(lines)
             /\ end - from < LinesUnclamped(lines) /\ end < Total =>
                  bytes > 0 /\ Size(from, end + 1) > bytes
<1> DEFINE window == Window(from, lines)
           end == Stop(from, window, bytes)
           next == Paragraphs(from, end, bytes)
           asked == LinesUnclamped(lines)
<1>0. Total \in Nat
  BY DEF IsText, Total
<1>1. /\ window \in Nat /\ from < window /\ window <= Total /\ asked \in Nat
      /\ window - from <= asked
      /\ window < Total => window - from = asked
  BY WindowBounds
<1>2. /\ end \in Nat /\ from < end /\ end <= window
      /\ bytes > 0 => Size(from, end) <= bytes \/ end = from + 1
      /\ end < window => bytes > 0 /\ Size(from, end + 1) > bytes
  <2> HIDE DEF window
  <2>1. QED
    BY <1>1, StopBounds
<1>3. PageEnd(from, lines, bytes) =
        IF end < Total /\ end = window /\ next # {} THEN First(next) + 1 ELSE end
  BY DEF PageEnd
<1>4. end <= from + asked
  <2> HIDE DEF window, end, asked
  <2>1. QED
    BY <1>1, <1>2
<1>5. asked <= Allowed(lines)
  BY <1>1 DEF Allowed
<1>6. CASE end < Total /\ end = window /\ next # {}
  <2> DEFINE f == First(next)
  <2>1. next \in SUBSET Nat
    <3> HIDE DEF end
    <3>1. QED
      BY <1>2 DEF Paragraphs
  <2>2. f \in next
    BY <1>6, <2>1, FirstIsLeast
  <2>3. PageEnd(from, lines, bytes) = f + 1
    BY <1>3, <1>6
  <2> HIDE DEF f, next, end, window, asked
  <2>4. /\ f \in Nat /\ end <= f /\ f <= LookAhead(from, end) - 1
        /\ bytes > 0 => Size(from, f + 1) <= bytes
    BY <1>2, <2>1, <2>2 DEF next, Paragraphs
  <2>5. /\ end - from = asked /\ asked > 0
    BY <1>1, <1>2, <1>6
  <2>6. /\ LookAhead(from, end) \in Int /\ LookAhead(from, end) <= Total
        /\ LookAhead(from, end) - from <= Allowed(lines)
    <3>1. LookAhead(from, end) =
            AtMost(IF asked \div 5 <= 0 THEN end + 1 ELSE end + (asked \div 5), Total)
      BY <2>5 DEF LookAhead
    <3>2. asked \div 5 \in Nat /\ (asked < 5 <=> asked \div 5 <= 0)
      BY <1>1
    <3>3. Allowed(lines) = asked + (IF asked \div 5 <= 0 THEN 1 ELSE asked \div 5)
      BY <3>2 DEF Allowed, asked
    <3>4. QED
      BY <1>0, <1>1, <1>2, <2>5, <3>1, <3>2, <3>3 DEF AtMost
  <2>7. f + 1 <= LookAhead(from, end) /\ from < f + 1 /\ f + 1 - from > asked
    BY <1>2, <2>4, <2>5, <2>6
  <2>8. Size(from, f + 1) \in Int
    BY <1>0, <2>4, <2>6, <2>7, SizeGrows
  <2>9. Allowed(lines) \in Int
    BY <1>1 DEF Allowed, asked
  <2>10. QED
    BY <1>0, <1>1, <2>3, <2>4, <2>6, <2>7, <2>8, <2>9 DEF asked
<1>7. CASE ~ (end < Total /\ end = window /\ next # {})
  <2>1. PageEnd(from, lines, bytes) = end
    BY <1>3, <1>7
  <2> HIDE DEF next, end, window
  <2>2. Size(from, end) \in Int
    BY <1>0, <1>1, <1>2, SizeGrows
  <2>3. Allowed(lines) \in Int
    BY <1>1 DEF Allowed
  <2>4. end - from < asked /\ end < Total => end < window
    <3> HIDE DEF asked
    <3>1. QED
      BY <1>0, <1>1, <1>2
  <2> HIDE DEF asked
  <2>5. QED
    BY <1>0, <1>1, <1>2, <1>4, <1>5, <2>1, <2>2, <2>3, <2>4 DEF asked
<1>8. QED
  BY <1>6, <1>7
-----------------------------------------------------------------------------
\* What holds of every page is what holds of the one just returned: the text
\* does not change, so the four properties and the types are inductive.
Inv == TypeOK /\ PageAdvances /\ WithinBytes /\ WithinLines /\ NotShort

\* The first page has not been asked for yet.
LEMMA InitInv == Init => Inv
<1> SUFFICES ASSUME Init PROVE Inv
  OBVIOUS
<1>1. TypeOK
  BY TextsAssumption, LimitsAssumption DEF Init, TypeOK, NoPage
<1>2. page = NoPage /\ page.bytes = 0
  BY DEF Init, NoPage
<1>3. QED
  BY <1>1, <1>2 DEF Inv, PageAdvances, WithinBytes, WithinLines, NotShort

\* Every call returns a page within the bounds.
LEMMA NextInv == Inv /\ [Next]_vars => Inv'
<1> SUFFICES ASSUME Inv, [Next]_vars PROVE Inv'
  OBVIOUS
<1>1. IsText(text) /\ Total \in Nat
  BY DEF Inv, TypeOK, IsText, Total
<1>2. ASSUME NEW lines \in LineLimits, NEW bytes \in ByteLimits, Call(lines, bytes)
      PROVE  Inv'
  <2> DEFINE end == PageEnd(From, lines, bytes)
  <2>1. lines \in Int /\ bytes \in Int
    BY LimitsAssumption
  <2>2. From \in Nat /\ From < Total
    BY <1>2 DEF Call, From, Inv, TypeOK
  <2>3. /\ end \in Nat /\ From < end /\ end <= Total
        /\ bytes > 0 => Size(From, end) - 1 <= bytes \/ end = From + 1
        /\ end - From <= Allowed(lines)
        /\ end - From < LinesUnclamped(lines) /\ end < Total =>
             bytes > 0 /\ Size(From, end + 1) > bytes
    <3> DEFINE from == From
    <3> HIDE DEF from
    <3>1. from \in Nat /\ from < Total
      BY <2>2 DEF from
    <3>2. LET to == PageEnd(from, lines, bytes)
          IN  /\ to \in Nat /\ from < to /\ to <= Total
              /\ bytes > 0 => Size(from, to) - 1 <= bytes \/ to = from + 1
              /\ to - from <= Allowed(lines)
              /\ to - from < LinesUnclamped(lines) /\ to < Total =>
                   bytes > 0 /\ Size(from, to + 1) > bytes
      BY <1>1, <2>1, <3>1, PageBounds
    <3>3. QED
      BY <3>2 DEF from
  <2> HIDE DEF end
  <2>4. /\ page' = [from |-> From, to |-> end, lines |-> lines, bytes |-> bytes]
        /\ offset' = end /\ text' = text /\ status' \in {"reading", "done"}
    BY <1>2 DEF Call, end
  <2> DEFINE from == From
  <2> HIDE DEF from
  <2>5. page'.from = from /\ page'.to = end /\ page'.lines = lines /\ page'.bytes = bytes
    BY <2>4 DEF from
  <2>6. from \in Nat
    BY <2>2 DEF from
  <2>7. TypeOK'
    BY <1>1, <2>1, <2>3, <2>4, <2>6 DEF TypeOK, from
  <2>8. Total' = Total /\ \A i, j \in Nat : Size(i, j)' = Size(i, j)
    BY <2>4 DEF Total, Size
  <2>9. PageAdvances'
    BY <2>3, <2>5, <2>6, <2>8 DEF PageAdvances, from
  <2>10. WithinBytes'
    BY <2>3, <2>4, <2>5, <2>6 DEF WithinBytes, Size, from
  <2>11. WithinLines'
    BY <2>3, <2>5 DEF WithinLines, Asked, Allowed, from
  <2>12. NotShort'
    BY <2>3, <2>4, <2>5, <2>8 DEF NotShort, Asked, Size, from
  <2>13. QED
    BY <2>7, <2>9, <2>10, <2>11, <2>12 DEF Inv
<1>3. CASE NoContent
  BY <1>3 DEF NoContent, Inv, TypeOK, PageAdvances, WithinBytes, WithinLines,
              NotShort, Asked, Size, Total
<1>4. CASE UNCHANGED vars
  BY <1>4 DEF vars, Inv, TypeOK, PageAdvances, WithinBytes, WithinLines,
              NotShort, Asked, Size, Total
<1>5. QED
  BY <1>2, <1>3, <1>4 DEF Next

\* The invariant of a reading client: every page it is given is within all the
\* bounds, for every text, offset and limits.
THEOREM Invariance == Spec => []Inv
BY InitInv, NextInv, PTL DEF Spec

\* Types: the slice bounds are never negative.
THEOREM TypeCorrect == Spec => []TypeOK
BY Invariance, PTL DEF Inv

\* Following the offsets always gets on, and no page reaches beyond the text.
THEOREM PagesAdvance == Spec => []PageAdvances
BY Invariance, PTL DEF Inv

\* max_chars holds, but for a single line.
THEOREM BytesAreCapped == Spec => []WithinBytes
BY Invariance, PTL DEF Inv

\* The extension to a paragraph is at most a fifth of the page, or a line.
THEOREM LinesAreCapped == Spec => []WithinLines
BY Invariance, PTL DEF Inv

\* Types and both limits together.
THEOREM LimitsHold == Spec => []WithinLimits
BY Invariance, PTL DEF Inv, WithinLimits

\* A page is cut short only by max_chars or by the end of the text.
THEOREM PagesAreFull == Spec => []NotShort
BY Invariance, PTL DEF Inv
=============================================================================
