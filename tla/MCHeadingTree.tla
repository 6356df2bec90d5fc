-------------------------- MODULE MCHeadingTree ---------------------------
(***************************************************************************)
(* Small documents for HeadingTree: bodies without a table of contents     *)
(* whose numbers nest and end in 0, and bodies below a table whose entries *)
(* and headings differ in their numbers, titles or both.                   *)
(***************************************************************************)
EXTENDS HeadingTree

OnLine(n, t, b) == [num |-> n, title |-> t, blank |-> b]
Entry(n, t, w) == [num |-> n, title |-> t, indent |-> w]

MCTitles == {"Foo", "Bar", "Abstract", "Contents", "tail", "text"}
MCKnown == {"Abstract", "Contents"}
MCUpper == {"Foo", "Bar", "Abstract", "Contents"}

Text == OnLine(Root, "text", FALSE)
MCTokens == {<<"1">>, <<"1", "0">>, <<"1", "1">>, <<"1", "1", "0">>,
           <<"1", "1", "1">>, <<"1", "1", "1", "1">>}
MCPlain == {Text} \union {OnLine(n, "Foo", b) : n \in MCTokens, b \in BOOLEAN}

Contents == OnLine(Root, "Contents", TRUE)
MCFronts == {<<Contents>>, <<OnLine(Root, "Abstract", TRUE), Contents>>}
MCBody == {Text, OnLine(<<"1">>, "Foo", TRUE), OnLine(<<"2">>, "Bar", FALSE),
           OnLine(<<"2", "1">>, "tail", TRUE), OnLine(Root, "Foo", TRUE),
           OnLine(Root, "Bar", FALSE)}
MCListed == {Entry(<<"1">>, "Foo", 0), Entry(<<"2">>, "Foo", 0),
             Entry(<<"2", "1">>, "tail", 0), Entry(Root, "Foo", 0),
             Entry(Root, "Bar", 2)}
=============================================================================
