--------------------------- MODULE SectionLookup ---------------------------
(***************************************************************************)
(* The rows of one RFC and the tools that read them (src/db/sections.go,   *)
(* src/db/references.go, src/tools/get_section.go, get_toc.go,             *)
(* get_document.go, get_references.go, rfc_lookup.go, and                  *)
(* get_draft_section.go, which answers the same questions from memory).    *)
(* An import stores a parsed document in one transaction and its           *)
(* references in a second one; a tool call asks several queries, one after *)
(* the other, and each sees the last commit.  The build command writes the *)
(* file a server may have open, so an import may fall between two queries. *)
(*                                                                         *)
(* A section is [number, parent, text]: a number is the sequence of the    *)
(* parts between its dots, a slug is one part, <<>> is no parent, and text *)
(* "" is a body of blanks.  Titles and levels only decorate the answers.   *)
(* What a query finds is a set of positions in the table, and an answer is *)
(* the sections at these positions, so that it keeps their order.          *)
(***************************************************************************)
EXTENDS Naturals, FiniteSets, SequencesExt

CONSTANTS
  Documents,    \* what the parser may make of the RFC: sequences of sections
  Questions,    \* the section numbers callers ask for
  FoldCase,     \* the lower-case form of each part of a number, as LIKE has it
  MaxImports    \* bound: imports of the RFC

VARIABLES
  row,      \* the RFC's row: "absent", "notIssued" or "issued"
  table,    \* its committed sections, in id order: a section and its id
  fts,      \* the full-text index: the <<id, section>> it has entries for
  refs,     \* its stored references: the <<number, text>> they were found in
  tx,       \* the import in progress
  imports,  \* imports begun
  call,     \* the tool call in progress
  last,     \* history: the row and the document of the last import committed,
            \* and the document whose references were stored last
  seen      \* history: the rows and documents committed during the call

store == <<row, table, fts, refs, tx, imports, last>>
vars == <<row, table, fts, refs, tx, imports, call, last, seen>>

(* The documents HeadingTree's theorems allow: a parent is a section of the*)
(* document, before or after it, and a number occurs once, or else the     *)
(* store's UNIQUE(rfc, number) fails the import.                           *)
IsClosed(doc) ==
  /\ \A i \in DOMAIN doc :
       doc[i].parent = <<>> \/ \E j \in DOMAIN doc : doc[j].number = doc[i].parent
  /\ \A i, j \in DOMAIN doc : doc[i].number = doc[j].number => i = j

Section(r) == [number |-> r.number, parent |-> r.parent, text |-> r.text]

ASSUME DocumentsAreSections ==
  \A doc \in Documents : doc \in Seq(Range(doc)) /\ \A s \in Range(doc) : s = Section(s)
ASSUME DocumentsAreClosed == \A doc \in Documents : doc # <<>> /\ IsClosed(doc)
ASSUME NumbersAreSequences ==
  /\ \A doc \in Documents : \A s \in Range(doc) : s.number \in Seq(DOMAIN FoldCase) \ {<<>>}
  /\ \A number \in Questions : number \in Seq(DOMAIN FoldCase) \ {<<>>}
ASSUME MaxImportsIsNat == MaxImports \in Nat

Picked(rows, positions) == [i \in positions |-> Section(rows[i])]
Content(rows) == Picked(rows, DOMAIN rows)
Blank(s) == s.text = ""
Version(l) == [row |-> l.row, doc |-> l.doc]

(* The section texts that name another RFC: all that are not blank.        *)
Citing(doc) == {<<s.number, s.text>> : s \in {u \in Range(doc) : ~Blank(u)}}

NoImport == [pc |-> "none"]
NoCall == [pc |-> "none"]

Init ==
  /\ row \in {"absent", "notIssued", "issued"}
  /\ table = <<>> /\ fts = {} /\ refs = {}
  /\ tx = NoImport /\ imports = 0
  /\ call = NoCall /\ seen = {}
  /\ last = [row |-> row, doc |-> <<>>, cited |-> <<>>]

-----------------------------------------------------------------------------
(* The queries.  Each reads the committed table once.                      *)

(* Every number reached from the asked one by the parent_number chain: the *)
(* least set with the one and, with a number, those of its children.       *)
Descendants(rows, number) ==
  LET numbers == {number} \union {r.number : r \in Range(rows)}
      Closed(N) == /\ number \in N
                   /\ \A r \in Range(rows) : r.parent \in N => r.number \in N
  IN  {n \in numbers : \A N \in SUBSET numbers : Closed(N) => n \in N}

SelectOne(rows, number) == {i \in DOMAIN rows : rows[i].number = number}
SelectTree(rows, number) ==
  LET wanted == Descendants(rows, number)
  IN  {i \in DOMAIN rows : rows[i].number \in wanted}
Exists(rows, number) == SelectOne(rows, number) # {}

GetChildren(rows, number) == {i \in DOMAIN rows : rows[i].parent = number}

(* number LIKE prefix% AND number NOT LIKE prefix%.%: one part longer, and *)
(* LIKE ignores the case of what it compares.                              *)
Folded(number) == [i \in DOMAIN number |-> FoldCase[number[i]]]
GetDescendantsByPrefix(rows, number) ==
  {i \in DOMAIN rows : /\ Len(rows[i].number) = Len(number) + 1
                       /\ Folded(Front(rows[i].number)) = Folded(number)}

(* Outgoing references: of one section, or of the parent_number chain of   *)
(* the table as it is now.                                                 *)
GetReferences(rows, number, include) ==
  {r \in refs : r[1] \in (IF include THEN Descendants(rows, number) ELSE {number})}

-----------------------------------------------------------------------------
(* Answers.                                                                *)

Text(rows, found) == [kind |-> "text", sections |-> Picked(rows, found)]
GetDocument(rows) == Text(rows, DOMAIN rows)
TOC(rows) == [kind |-> "toc", sections |-> Content(rows)]
EmptyParent(rows, children) == [kind |-> "emptyParent", children |-> Picked(rows, children)]
MissingSection(rows, children, viaParentLink) ==
  [kind |-> "missing", children |-> Picked(rows, children), include |-> viaParentLink]
SectionNotFound == [kind |-> "sectionNotFound"]
NotFound(kind) == [kind |-> kind]
(* cited is history: the document whose references were stored.            *)
References(found) == [kind |-> "references", found |-> found, cited |-> last.cited]

(* rfcNotFoundResult: the kinds of an RFC without sections.                *)
NoContent ==
  NotFound(CASE row = "absent" -> "unknown"
             [] row = "notIssued" -> "neverIssued"
             [] row = "issued" -> "noSections")

(* A mutant: deeper descendants are listed too.                            *)
DraftDescendants(doc, number) ==
  {i \in DOMAIN doc : Len(doc[i].number) > Len(number) /\ IsPrefix(number, doc[i].number)}

(* get_draft_section on a draft parsed to doc: no other step comes between.*)
DraftDescendantsByPrefix(doc, number) ==
  {i \in DOMAIN doc : Len(doc[i].number) = Len(number) + 1 /\ IsPrefix(number, doc[i].number)}

(* One round over the parsed sections, in their order: a section whose     *)
(* parent is wanted by then is wanted from there on.                       *)
Round(doc, W) ==
  LET wanted[i \in 0 .. Len(doc)] ==
        IF i = 0 THEN W
        ELSE wanted[i - 1] \union
               (IF doc[i].parent \in wanted[i - 1] THEN {doc[i].number} ELSE {})
  IN  wanted[Len(doc)]

(* A mutant: one round, which misses a section that stands before its      *)
(* parent.                                                                 *)
DraftWantedOnce(doc, number) == Round(doc, {number})

(* The code stops after a round without a change; a round with one adds a  *)
(* section, so that Len(doc) rounds are enough and the others change       *)
(* nothing.                                                                *)
DraftWanted(doc, number) ==
  LET wanted[k \in 0 .. Len(doc)] ==
        IF k = 0 THEN {number} ELSE Round(doc, wanted[k - 1])
  IN  wanted[Len(doc)]

DraftTree(doc, number) == {i \in DOMAIN doc : doc[i].number \in DraftWanted(doc, number)}

DraftSection(doc, number, include) ==
  IF ~Exists(doc, number) THEN {}
  ELSE IF include THEN DraftTree(doc, number) ELSE SelectOne(doc, number)

(* A number is that of one section: what is found without subsections is   *)
(* blank or is not.                                                        *)
AllBlank(rows, found) == \A i \in found : Blank(rows[i])

DraftAnswer(doc, number, include) ==
  LET found    == DraftSection(doc, number, include)
      children == GetChildren(doc, number)
      prefixed == DraftDescendantsByPrefix(doc, number)
  IN  CASE found = {} /\ children # {} -> MissingSection(doc, children, TRUE)
        [] found = {} /\ children = {} /\ prefixed # {} -> MissingSection(doc, prefixed, FALSE)
        [] found = {} /\ children = {} /\ prefixed = {} -> SectionNotFound
        [] found # {} /\ ~include /\ AllBlank(doc, found) /\ children # {} ->
             EmptyParent(doc, children)
        [] OTHER -> Text(doc, found)

-----------------------------------------------------------------------------
(* The writer: importRaw's InsertRFCWithSections, then replaceReferences.  *)

(* importRaw reads the row, or makes one up, and begins the transaction.   *)
BeginImport(doc) ==
  /\ tx.pc = "none" /\ imports < MaxImports
  /\ imports' = imports + 1
  /\ tx' = [pc |-> "delete", doc |-> doc, done |-> 0, table |-> table, fts |-> fts,
            row |-> IF row = "absent" THEN "issued" ELSE row]
  /\ UNCHANGED <<row, table, fts, refs, call, last, seen>>

(* A mutant: rows replaced by INSERT OR REPLACE, which fires no trigger.   *)
DeletedQuietly(t) == [t EXCEPT !.table = <<>>]

(* DELETE FROM sections WHERE rfc = ?: the trigger drops the index entries.*)
Deleted(t) ==
  [t EXCEPT !.table = <<>>,
            !.fts = @ \ {<<r.id, Section(r)>> : r \in Range(t.table)}]

(* A mutant: the delete is outside the transaction.                        *)
DeleteSectionsAtOnce ==
  /\ tx.pc = "delete"
  /\ tx' = [Deleted(tx) EXCEPT !.pc = "insert"]
  /\ table' = <<>> /\ fts' = {}
  /\ UNCHANGED <<row, refs, imports, call, last, seen>>

DeleteSections ==
  /\ tx.pc = "delete"
  /\ tx' = [Deleted(tx) EXCEPT !.pc = "insert"]
  /\ UNCHANGED <<row, table, fts, refs, imports, call, last, seen>>

(* INSERT INTO sections, under an id never used before.                    *)
Inserted(t, s, id) ==
  [t EXCEPT !.table = Append(@, [number |-> s.number, parent |-> s.parent,
                                 text |-> s.text, id |-> id]),
            !.fts = @ \union {<<id, s>>},
            !.done = @ + 1]

InsertSection ==
  /\ tx.pc = "insert" /\ tx.done < Len(tx.doc)
  /\ tx' = Inserted(tx, tx.doc[tx.done + 1], <<imports, tx.done>>)
  /\ UNCHANGED <<row, table, fts, refs, imports, call, last, seen>>

Commit ==
  /\ tx.pc = "insert" /\ tx.done = Len(tx.doc)
  /\ row' = tx.row /\ table' = tx.table /\ fts' = tx.fts
  /\ tx' = [tx EXCEPT !.pc = "references"]
  /\ last' = [last EXCEPT !.row = tx.row, !.doc = tx.doc]
  /\ seen' = IF call.pc \in {"none", "done"} THEN seen ELSE seen \union {Version(last')}
  /\ UNCHANGED <<refs, imports, call>>

(* A statement fails or the process dies: a transaction is rolled back, the*)
(* sections once committed stay.                                           *)
Rollback ==
  /\ tx.pc # "none"
  /\ tx' = NoImport
  /\ UNCHANGED <<row, table, fts, refs, imports, call, last, seen>>

(* InsertReferences deletes by the source RFCs of the rows it is given, so *)
(* replaceReferences deletes by itself when there are none to give.        *)
InsertReferences(found) == IF found = {} THEN refs ELSE found
DeleteReferencesForRFC == {}

(* A mutant: an empty set of references is given to InsertReferences too.  *)
InsertOnly(found) == InsertReferences(found)

ReplaceReferences(found) ==
  IF found = {} THEN DeleteReferencesForRFC ELSE InsertReferences(found)

StoreReferences ==
  /\ tx.pc = "references"
  /\ refs' = ReplaceReferences(Citing(tx.doc))
  /\ last' = [last EXCEPT !.cited = tx.doc]
  /\ tx' = NoImport
  /\ UNCHANGED <<row, table, fts, imports, call, seen>>

Import ==
  \/ \E doc \in Documents : BeginImport(doc)
  \/ DeleteSections
  \/ InsertSection
  \/ Commit
  \/ Rollback
  \/ StoreReferences

-----------------------------------------------------------------------------
(* A tool call, query by query.                                            *)

Ask(tool, number, include) ==
  /\ call.pc = "none"
  /\ call' = [pc |-> IF tool = "section" /\ include THEN "exists" ELSE "select",
              tool |-> tool, number |-> number, include |-> include]
  /\ seen' = {Version(last)}
  /\ UNCHANGED store

Goto(pc) == call' = [call EXCEPT !.pc = pc]
Answer(a) == call' = [pc |-> "done", tool |-> call.tool, number |-> call.number,
                      include |-> call.include, answer |-> a]

(* GetSection looks for the section itself before it walks the chain.      *)
CheckExists ==
  /\ call.pc = "exists"
  /\ Goto(IF Exists(table, call.number) THEN "select" ELSE "toc")

(* What the handler makes of GetSection's rows.                            *)
Select ==
  LET found == IF call.include THEN SelectTree(table, call.number)
                               ELSE SelectOne(table, call.number)
  IN  /\ call.pc = "select" /\ call.tool = "section"
      /\ \/ found = {} /\ Goto("toc")
         \/ /\ found # {} /\ ~call.include /\ AllBlank(table, found)
            /\ call' = [pc |-> "kids", tool |-> call.tool, number |-> call.number,
                        include |-> call.include, text |-> Text(table, found)]
         \/ /\ found # {} /\ (call.include \/ ~AllBlank(table, found))
            /\ Answer(Text(table, found))

(* A blank section with children is answered with a pointer to them.       *)
AskKids ==
  LET children == GetChildren(table, call.number)
  IN  /\ call.pc = "kids"
      /\ Answer(IF children # {} THEN EmptyParent(table, children) ELSE call.text)

AskTOC ==
  /\ call.pc = "toc"
  /\ Goto(IF table # <<>> THEN "children" ELSE "row")

AskChildren ==
  LET children == GetChildren(table, call.number)
  IN  /\ call.pc = "children"
      /\ IF children = {} THEN Goto("prefix")
                         ELSE Answer(MissingSection(table, children, TRUE))

(* A mutant: include_subsections offered for sections found by prefix.     *)
AskPrefixOffering ==
  LET children == GetDescendantsByPrefix(table, call.number)
  IN  /\ call.pc = "prefix"
      /\ Answer(IF children = {} THEN SectionNotFound ELSE MissingSection(table, children, TRUE))

AskPrefix ==
  LET children == GetDescendantsByPrefix(table, call.number)
  IN  /\ call.pc = "prefix"
      /\ Answer(IF children = {} THEN SectionNotFound ELSE MissingSection(table, children, FALSE))

AskRow == call.pc = "row" /\ Answer(NoContent)

(* get_toc and get_document: one query, and rfcNotFoundResult if it is     *)
(* empty.  get_references: one query.                                      *)
HandleGetTOC ==
  /\ call.pc = "select" /\ call.tool = "toc"
  /\ IF table = <<>> THEN Goto("row") ELSE Answer(TOC(table))

HandleGetDocument ==
  /\ call.pc = "select" /\ call.tool = "document"
  /\ IF table = <<>> THEN Goto("row") ELSE Answer(GetDocument(table))

AskReferences ==
  /\ call.pc = "select" /\ call.tool = "references"
  /\ Answer(References(GetReferences(table, call.number, call.include)))

Forget == call.pc = "done" /\ call' = NoCall

Handle ==
  \/ \E tool \in {"section", "references"}, number \in Questions, include \in BOOLEAN :
       Ask(tool, number, include)
  \/ \E tool \in {"toc", "document"} : Ask(tool, <<>>, FALSE)
  \/ /\ CheckExists \/ Select \/ AskKids \/ AskTOC \/ AskChildren \/ AskPrefix
        \/ AskRow \/ HandleGetTOC \/ HandleGetDocument \/ AskReferences
     /\ UNCHANGED <<store, seen>>
  \/ /\ Forget
     /\ seen' = {}
     /\ UNCHANGED store

Next == Import \/ Handle
Spec == Init /\ [][Next]_vars
-----------------------------------------------------------------------------
(* Properties.                                                             *)

Done(tool) == call.pc = "done" /\ call.tool = tool
Says(kind) == call.pc = "done" /\ call.answer.kind = kind

(* The sections of a document under a number: it is their own, or that of  *)
(* one of their ancestors.                                                 *)
Under(doc, number) ==
  LET WithParents(X) == \A i \in X, j \in DOMAIN doc : doc[j].number = doc[i].parent => j \in X
  IN  {i \in DOMAIN doc :
         \A X \in SUBSET DOMAIN doc :
           i \in X /\ WithParents(X) => \E j \in X : doc[j].number = number}

HasNumber(doc, number) == \E i \in DOMAIN doc : doc[i].number = number

(* The part of a document a call asks for.                                 *)
Asked(doc) ==
  LET whole == call.tool \in {"toc", "document"}
  IN  [i \in IF whole THEN DOMAIN doc
            ELSE IF call.include THEN Under(doc, call.number)
            ELSE {k \in DOMAIN doc : doc[k].number = call.number} |-> doc[i]]

(* What a tool returns as text, or as the table of contents, is that of    *)
(* one document that was stored at some moment of the call: the asked      *)
(* section, alone or with everything below it, or all of the document      *)
(* (get_section.go:42-117, sections.go:155-250).                           *)
TextIsOneVersion ==
  Says("text") \/ Says("toc") => \E v \in seen : call.answer.sections = Asked(v.doc)

(* A tool that finds nothing says why, and each part of the reason was true*)
(* at some moment of the call: no such section, no such RFC, a number never*)
(* issued, an RFC without sections (rfc_lookup.go:62-82).                  *)
NotFoundIsTrue ==
  LET Once(P(_)) == \E v \in seen : P(v)
  IN  /\ Says("sectionNotFound") => Once(LAMBDA v : ~HasNumber(v.doc, call.number))
      /\ Says("unknown") => Once(LAMBDA v : v.row = "absent" /\ v.doc = <<>>)
      /\ Says("neverIssued") => Once(LAMBDA v : v.row = "notIssued" /\ v.doc = <<>>)
      /\ Says("noSections") => /\ Once(LAMBDA v : v.doc = <<>>)
                               /\ Once(LAMBDA v : v.row = "issued")

(* Whatever a tool says was true of the RFC while it was asked.            *)
AnswersAreTrue == TextIsOneVersion /\ NotFoundIsTrue

(* Guidance names sections of one stored document, and can be followed on  *)
(* it: every section named is there to be asked for, and where             *)
(* include_subsections is offered the asked number has a row of its own, so*)
(* that the walk from it starts, and passes every section named            *)
(* (get_section.go:60-84, 98-106).                                         *)
AdviceCanBeFollowed ==
  Says("emptyParent") \/ Says("missing") =>
    /\ Range(call.answer.children) # {}
    /\ \E v \in seen : Range(call.answer.children) \subseteq Range(v.doc)
    /\ \A v \in seen :
         seen = {v} /\ (Says("emptyParent") \/ call.answer.include) =>
           /\ HasNumber(v.doc, call.number)
           /\ DOMAIN call.answer.children \subseteq Under(v.doc, call.number)

(* get_draft_section answers a question about a document as get_section    *)
(* does, except that LIKE finds descendants whose number differs from the  *)
(* asked one in case only (draft_helpers.go:139-160, sections.go:305-308). *)
DraftsAgree ==
  \A v \in seen :
    LET draft == DraftAnswer(v.doc, call.number, call.include)
        OfOtherCase == {s \in Range(v.doc) : ~IsPrefix(call.number, s.number)}
    IN  Done("section") /\ seen = {v} /\ v.doc # <<>> =>
          \/ call.answer = draft
          \/ /\ call.answer.kind = "missing" /\ ~call.answer.include
             /\ draft.kind \in {"missing", "sectionNotFound"}
             /\ Range(call.answer.children) \intersect OfOtherCase # {}
             /\ Range(call.answer.children) \ OfOtherCase =
                  IF draft.kind = "missing" THEN Range(draft.children) ELSE {}

(* The full-text index has an entry for every section row and for no row   *)
(* that is gone (sections.go:45-55, db.go:171-192).                        *)
FtsInStep == fts = {<<r.id, Section(r)>> : r \in Range(table)}

(* Once an import has stored its references too, those reported for a      *)
(* section, alone or with its subsections, are the ones found in the text  *)
(* get_section returns for it, and none of a text it replaced              *)
(* (references.go:165-214, pipeline.go:709-722).                           *)
ReferencesFollowText ==
  \A v \in seen :
    Done("references") /\ seen = {v} /\ call.answer.cited = v.doc =>
      call.answer.found = Citing(Asked(v.doc))
=============================================================================
