-------------------------- MODULE MCSectionLookup --------------------------
(* Instances of SectionLookup: five parses of one RFC.                     *)
EXTENDS SectionLookup, TLC

Row(number, parent, text) == [number |-> number, parent |-> parent, text |-> text]

(* A parse that lost the heading 7.0 (as RFC 892 writes none): 7.0.1 hangs *)
(* under 7, which is blank; the appendix A has no heading either.          *)
Lost == << Row(<<"7">>, <<>>, ""), Row(<<"7", "0", "1">>, <<"7">>, "t"),
           Row(<<"A", "1">>, <<>>, "t") >>

(* The same text with 7.0 found, blank, and another text in A.1.           *)
Found == << Row(<<"7">>, <<>>, "u"), Row(<<"7", "0">>, <<"7">>, ""),
            Row(<<"7", "0", "1">>, <<"7", "0">>, "u"), Row(<<"A", "1">>, <<>>, "u") >>

(* Slugs below a number, and deeper parts below a number without heading.  *)
Slugs == << Row(<<"7">>, <<>>, "s"), Row(<<"links">>, <<"7">>, "s"),
            Row(<<"A", "1">>, <<>>, ""), Row(<<"A", "1", "1">>, <<"A", "1">>, ""),
            Row(<<"a", "2">>, <<>>, "") >>

(* A section that stands before its parent, as a line that looks like a    *)
(* heading may.                                                            *)
Late == << Row(<<"7">>, <<>>, "l"), Row(<<"7", "0", "1">>, <<"7", "0">>, "l"),
           Row(<<"7", "0">>, <<"7">>, "l") >>

(* Nothing but one blank section.                                          *)
Bare == << Row(<<"7">>, <<>>, "") >>

MCDocuments == {Lost, Found, Slugs, Late, Bare}
MCQuestions == {<<"7">>, <<"7", "0">>, <<"a">>, <<"A">>, <<"links">>, <<"8">>}
MCFoldCase == [p \in {"0", "1", "2", "7", "8", "A", "a", "links"} |->
                 IF p = "A" THEN "a" ELSE p]
=============================================================================
