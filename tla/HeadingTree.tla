---------------------------- MODULE HeadingTree ----------------------------
(***************************************************************************)
(* ingest/rfctxt: how ParseRFCText turns the lines of a body into a tree   *)
(* of sections.  Tier 1 takes the headings that stand out in the text,     *)
(* Tier 2 the ones the document's own table of contents leads to; then     *)
(* three passes repair the parents -- promoteDotZero,                      *)
(* rescueDanglingParents and reparentDanglingAncestors -- and              *)
(* assembleSections cuts the text at the headings.                         *)
(*                                                                         *)
(* A document is abstracted to what these steps look at.  A line at column *)
(* 0 is a numbering token and a title, a title alone, or text; it follows  *)
(* a blank line or not.  The regular expressions that tell these apart,    *)
(* and a heading's tail on the same line, are left out; so are roman       *)
(* numerals and the location of the table of contents.                     *)
(***************************************************************************)
EXTENDS Integers, FiniteSets, Sequences

CONSTANTS
    Titles,  \* titles; the slug of title t is the number <<t>>
    Known,   \* the titles of knownUnnumbered
    Upper,   \* the titles that start with an uppercase letter
    Plain, MaxPlain,     \* lines of documents without a table, and how many
    Fronts,              \* what a table follows: up to and with its title
    Body, MaxBody,       \* lines from the end of the table on
    Listed, MaxListed    \* entries of the table

\* A number is its sequence of segments; the empty one is "no parent".
Root == <<>>

\* The slug of a title is lower case, and a table's line of digits is no entry:
\* no numbering token starts with what may be a slug.
Segments == STRING
Tokens == {n \in Seq(Segments) : n # Root => n[1] \notin Titles}
TextLines == [num : Tokens, title : STRING, blank : BOOLEAN]

ASSUME TitlesAssumption ==
    Titles \subseteq Segments /\ Known \subseteq Titles /\ Upper \subseteq Titles
ASSUME LinesAssumption ==
    /\ Plain \subseteq TextLines /\ Body \subseteq TextLines
    /\ Fronts \subseteq Seq(TextLines)
    /\ MaxPlain \in Nat /\ MaxBody \in Nat /\ MaxListed \in Nat
ASSUME EntriesAssumption ==
    \A e \in Listed : e.num \in Tokens /\ (e.num = Root => e.title \in Titles)

Up(n) == SubSeq(n, 1, Len(n) - 1)
Slug(t) == <<t>>
IsSlug(n) == n \in {Slug(t) : t \in Titles}

First(S) == CHOOSE i \in S : \A j \in S : i <= j
Last(S)  == CHOOSE i \in S : \A j \in S : j <= i

VARIABLES
    doc,       \* [lines, toc]: toc.at is the line of the table's title, the
               \* table ends before line toc.end; both are 0 without a table
    pc,        \* the pass that runs next
    heads,     \* the headings: [line, num, parent, level]
    exclude,   \* excludeStart and excludeEnd: the lines cut out of the text
    visited,   \* promoteDotZero has visited the headings up to this line
    sections   \* the result: [num, parent, level, text]

vars == <<doc, pc, heads, exclude, visited, sections>>

Lines == DOMAIN doc.lines
Line(i) == doc.lines[i]
InToc(i) == doc.toc.at < i /\ i < doc.toc.end
Excised == {i \in Lines : exclude.start <= i /\ i < exclude.end}
Numbers == {h.num : h \in heads}
Parents == {h.parent : h \in heads}

TypeOK ==
    /\ pc \in {"detect", "promote", "rescue", "reparent", "assemble", "done",
               "panic"}
    /\ \A h \in heads : h.line \in Lines /\ h.level \in 0..(Cardinality(heads) + 1)
    /\ exclude \in [start : Nat, end : Nat] /\ visited \in 0..Len(doc.lines)
    /\ \A s \in sections : s.text \subseteq Lines

UpTo(S, n) == UNION {[1..k -> S] : k \in 1..n}

\* A table is the part of the text from its title to line "end".  A line of
\* the body that follows it may still be taken for a part of it.
Init == /\ \/ \E ls \in UpTo(Plain, MaxPlain) :
                 doc = [lines |-> ls,
                        toc |-> [at |-> 0, end |-> 0, entries |-> <<>>]]
           \/ \E f \in Fronts, ls \in [1..MaxBody -> Body], over \in 0..1,
                  es \in UpTo(Listed, MaxListed) :
                 doc = [lines |-> f \o ls,
                        toc |-> [at |-> Len(f), end |-> Len(f) + 1 + over,
                                 entries |-> es]]
        /\ pc = "detect"
        /\ heads = {} /\ exclude = [start |-> 0, end |-> 0]
        /\ visited = 0 /\ sections = {}
-----------------------------------------------------------------------------
(***************************************************************************)
(* Tier 1: lines that follow a blank one, a repeated number dropped.       *)
(***************************************************************************)
Heading(i, n, p) == [line |-> i, num |-> n, parent |-> p, level |-> 0]

Numbered(i) == Line(i).num # Root
NumberOn(i) == IF Numbered(i) THEN Line(i).num ELSE Slug(Line(i).title)

Candidate(i) == /\ Line(i).blank
                /\ \/ Numbered(i) /\ ~InToc(i)
                   \/ ~Numbered(i) /\ Line(i).title \in Known

Tier1 == {Heading(i, NumberOn(i), Up(NumberOn(i))) :
            i \in {i \in Lines : /\ Candidate(i)
                                 /\ \A j \in 1..(i - 1) :
                                      Candidate(j) => NumberOn(j) # NumberOn(i)}}

(***************************************************************************)
(* Tier 2: the entries of the table, located in the text one after the     *)
(* other by their titles.                                                  *)
(***************************************************************************)
Entries == doc.toc.entries
EntryNumber(e) == IF e.num # Root THEN e.num ELSE Slug(e.title)

\* The nearest line with the title that follows a blank line, else the
\* nearest one; 0 when there is none.
Locate(from, t) ==
    LET same == {i \in from..Len(doc.lines) : Line(i).title = t}
        good == {i \in same : Line(i).blank}
    IN  IF good # {} THEN First(good) ELSE IF same # {} THEN First(same) ELSE 0

Located ==
    LET at[k \in 0..Len(Entries)] ==
          IF k = 0 THEN [line |-> 0, pos |-> doc.toc.end]
          ELSE LET pos == at[k - 1].pos
                   l == Locate(pos, Entries[k].title)
               IN  [line |-> l, pos |-> IF l = 0 THEN pos ELSE l + 1]
    IN  [k \in DOMAIN Entries |-> at[k].line]

\* numberDepth, else the rank of the indentation among all the entries.
Depth(e) == IF e.num # Root THEN Len(e.num)
            ELSE Cardinality({w \in {Entries[k].indent : k \in DOMAIN Entries} :
                                w <= e.indent})

\* The stack leaves the last kept entry of a smaller depth on top.
Tier2 ==
    LET at == Located
        found == {k \in DOMAIN Entries : at[k] # 0}
        kept == {k \in found : \A j \in found : j < k =>
                    EntryNumber(Entries[j]) # EntryNumber(Entries[k])}
        above(k) == {j \in kept : j < k /\ Depth(Entries[j]) < Depth(Entries[k])}
        parent(k) == IF above(k) = {} THEN Root
                     ELSE EntryNumber(Entries[Last(above(k))])
    IN  IF Cardinality(found) < 2 THEN {}
        ELSE {Heading(at[k], EntryNumber(Entries[k]), parent(k)) : k \in kept}
-----------------------------------------------------------------------------
Nums(H) == {h.num : h \in H}
LinesOf(H) == {h.line : h \in H}

\* Both the number and the line of a heading are new to H.
Adds(h, H) == h.num \notin Nums(H) /\ h.line \notin LinesOf(H)

\* A numberless title that starts in lowercase continues the entry above it.
Plausible(n) == IsSlug(n) => \E t \in Upper : n = Slug(t)

Uncovered == \E k \in DOMAIN Entries : /\ Plausible(EntryNumber(Entries[k]))
                                       /\ EntryNumber(Entries[k]) \notin Nums(Tier1)
Hopeless == Cardinality(Tier1) < 3

\* Tier 2 replaces a hopeless Tier 1, but for known titles outside the table.
Wholesale ==
    LET block == {i \in Lines : doc.toc.at <= i /\ i < doc.toc.end}
    IN  /\ Entries # <<>> /\ Hopeless /\ Cardinality(Tier2) >= 2
        /\ heads' = Tier2 \union {h \in Tier1 : /\ IsSlug(h.num) /\ Adds(h, Tier2)
                                                /\ h.line \notin block}
        /\ exclude' = [start |-> doc.toc.at, end |-> doc.toc.end]

\* A healthy Tier 1 is supplemented with what only the table leads to.
Supplement ==
    /\ Entries # <<>> /\ ~Hopeless /\ Uncovered
    /\ heads' = Tier1 \union {h \in Tier2 : Adds(h, Tier1) /\ Plausible(h.num)}
    /\ UNCHANGED exclude

TierOneOnly ==
    /\ \/ Entries = <<>>
       \/ Hopeless /\ Cardinality(Tier2) < 2
       \/ ~Hopeless /\ ~Uncovered
    /\ heads' = Tier1 /\ UNCHANGED exclude

\* ... and a body with at most one heading becomes a single section.
Detect ==
    /\ pc = "detect"
    /\ Wholesale \/ Supplement \/ TierOneOnly
    /\ IF Cardinality(heads') > 1
       THEN pc' = "promote" /\ UNCHANGED sections
       ELSE /\ pc' = "done"
            /\ sections' = {[num |-> <<"body">>, parent |-> Root, level |-> 1,
                             text |-> Lines]}
    /\ UNCHANGED <<doc, visited>>
-----------------------------------------------------------------------------
\* Whether there is a heading N is not asked.
EndsInZero(n) == Len(n) > 1 /\ n[Len(n)] = "0"

IsDotZero(n) == Len(n) > 1 /\ n[Len(n)] = "0" /\ Up(n) \notin Numbers

\* promoteDotZero, heading by heading: N.0 takes the place of a missing N.
Promoted(h) ==
    {IF g = h THEN [g EXCEPT !.parent = Up(Up(h.num))]
     ELSE IF g.parent = Up(h.num) THEN [g EXCEPT !.parent = h.num]
     ELSE g : g \in heads}

Promote ==
    /\ pc = "promote"
    /\ LET rest == {i \in LinesOf(heads) : i > visited}
       IN  \/ /\ rest = {} /\ pc' = "rescue"
              /\ UNCHANGED <<heads, visited>>
           \/ \E h \in heads :
                 /\ rest # {} /\ h.line = First(rest)
                 /\ visited' = h.line
                 /\ heads' = IF IsDotZero(h.num) THEN Promoted(h) ELSE heads
                 /\ UNCHANGED pc
    /\ UNCHANGED <<doc, exclude, sections>>

\* rescueDanglingParents, one pass: the first line with a number that a
\* heading's parent needs, whatever line comes before it.
Needed == Parents \ (Numbers \union {Root})
Carries(i, n) == Line(i).num = n /\ ~InToc(i) /\ Line(i).title \in Upper
Rescuable == {n \in Needed : \E i \in Lines : Carries(i, n)}

Rescue ==
    /\ pc = "rescue"
    /\ heads' = heads \union
         {Heading(First({i \in Lines : Carries(i, n)}), n, Up(n)) : n \in Rescuable}
    /\ pc' = IF Rescuable = {} THEN "reparent" ELSE "rescue"
    /\ UNCHANGED <<doc, exclude, visited, sections>>

\* Climbs from a dangling parent to the nearest number that is a heading.
Nearest(n) ==
    LET k == {k \in 1..Len(n) : SubSeq(n, 1, k) \in Numbers}
    IN  IF k = {} THEN Root ELSE SubSeq(n, 1, Last(k))

\* recomputeLevels: the number of steps to the root, or to a missing parent,
\* at most as many as there are headings.
DepthIn(H, h) ==
    LET up[k \in 0..Cardinality(H)] ==      \* the heading k steps up, or {}
          IF k = 0 THEN {h}
          ELSE {g \in H : \E c \in up[k - 1] : c.parent = g.num}
    IN  Cardinality({k \in 0..Cardinality(H) : up[k] # {}})

ReparentTo(parent) ==
    /\ pc = "reparent" /\ pc' = "assemble"
    /\ LET moved == {[h EXCEPT !.parent = parent[h.parent]] : h \in heads}
       IN  heads' = {[h EXCEPT !.level = DepthIn(moved, h)] : h \in moved}
    /\ UNCHANGED <<doc, exclude, visited, sections>>

\* One segment is stripped, whether that number is a heading or not.
ReparentOnce == ReparentTo([n \in Parents |-> IF n \in Numbers THEN n ELSE Up(n)])

ReparentDangling == ReparentTo([n \in Parents |-> Nearest(n)])
-----------------------------------------------------------------------------
\* The overlap test forgets the sections behind the table.
ClipUntested(start, end) ==
    IF exclude.end <= exclude.start \/ end <= exclude.start
    THEN start..(end - 1)
    ELSE (start..(exclude.start - 1)) \union (exclude.end..(end - 1))

\* The lines from start up to end, without the table.
ClipExcluded(start, end) ==
    IF exclude.end <= exclude.start \/ exclude.end <= start \/ end <= exclude.start
    THEN start..(end - 1)
    ELSE (start..(exclude.start - 1)) \union (exclude.end..(end - 1))

Between(i, j) == ClipExcluded(i + 1, j)

\* The end of the text of a heading: the next heading's line.
EndOf(h) == LET below == {i \in LinesOf(heads) : i > h.line}
            IN  IF below = {} THEN Len(doc.lines) + 1 ELSE First(below)

Titled == {[num |-> h.num, parent |-> h.parent, level |-> h.level,
            text |-> Between(h.line, EndOf(h))] : h \in heads}

\* The text above the first heading, unless there is none.
Header == LET text == Between(0, First(LinesOf(heads)))
          IN  {s \in {[num |-> <<"header">>, parent |-> Root, level |-> 1,
                       text |-> text]} : text # {}}

\* The text above the first heading is dropped.
AssembleHeaderless ==
    /\ pc = "assemble"
    /\ pc' = "done" /\ sections' = Titled
    /\ UNCHANGED <<doc, heads, exclude, visited>>

\* Two headings on one line: lines[start:end] with start > end panics.
Assemble ==
    /\ pc = "assemble"
    /\ \/ /\ Cardinality(LinesOf(heads)) < Cardinality(heads)
          /\ pc' = "panic" /\ UNCHANGED sections
       \/ /\ Cardinality(LinesOf(heads)) = Cardinality(heads)
          /\ pc' = "done" /\ sections' = Header \union Titled
    /\ UNCHANGED <<doc, heads, exclude, visited>>

Next == Detect \/ Promote \/ Rescue \/ ReparentDangling \/ Assemble

Spec == Init /\ [][Next]_vars /\ WF_vars(Next)
-----------------------------------------------------------------------------
SectionNumbers == {s.num : s \in sections}

\* No section's parent is missing: get_toc's nesting and the descendants of
\* get_section follow ParentNumber alone (parser.go:313-332).
TreeIsClosed ==
    pc = "done" => \A s \in sections : s.parent \in SectionNumbers \union {Root}

\* A section is one level below its parent, so no chain of parents is a cycle
\* (parser.go:370-375).
LevelsAreDepths ==
    pc = "done" =>
        \A s \in sections :
            \/ s.parent = Root /\ s.level = 1
            \/ \E p \in sections : p.num = s.parent /\ s.level = p.level + 1

\* Every line is a heading's, cut out with the table, or text of exactly one
\* section, and nothing of the table is text (parser.go:400-410, 442-454).
TextIsKept ==
    pc = "done" =>
        /\ (UNION {s.text : s \in sections}) \union LinesOf(heads) \union Excised = Lines
        /\ \A s \in sections : s.text \intersect Excised = {}
        /\ \A s, t \in sections : s # t => s.text \intersect t.text = {}

\* Sections differ in their numbers: the store has UNIQUE(rfc, number).  Only
\* the synthetic section "header" may clash with a heading of that title.
NumbersAreUnique ==
    pc = "done" => \A s, t \in sections : s # t /\ s.num = t.num => s.num = <<"header">>

\* The sections are well-typed and form a tree: what GetTOC, the walk down
\* parent_number and the UNIQUE constraint of the store rely on.
SectionsAreATree == TypeOK /\ TreeIsClosed /\ LevelsAreDepths /\ NumbersAreUnique

\* Without a table, a section's parent is a prefix N of its number or an N.0
\* in the place of N; it is the nearest one wherever Tier 1 found both.  No
\* repair moves a section below a stranger, nor out of a section that is
\* there (parser.go:190-200, 313-332).
Prefixes(n) == {SubSeq(n, 1, k) : k \in 1..(Len(n) - 1)}
Zero(n) == Append(n, "0")

NestedByNumber ==
    pc = "done" /\ Entries = <<>> =>
        \A s \in sections :
            /\ s.parent \in {Root} \union Prefixes(s.num)
                              \union {Zero(p) : p \in Prefixes(s.num)}
            /\ Up(s.num) \in Nums(Tier1) => s.parent = Up(s.num)
            /\ LET zero == Zero(Up(s.num))
               IN  {zero, s.num} \subseteq Nums(Tier1) /\ zero # s.num
                     /\ Up(s.num) \notin SectionNumbers \union {Root} => s.parent = zero

\* The parser returns; "callers always get at least one section to index"
\* (parser.go:29-31).
AlwaysReturns == pc # "panic"
=============================================================================
