----------------------------- MODULE MCFetchIPR -----------------------------
(***************************************************************************)
(* An RFC, the draft it was, and two drafts that one replaces, the older   *)
(* of which replaces another, with disclosures against each.  Pages of one *)
(* row make every list longer than a page.                                 *)
(***************************************************************************)
EXTENDS FetchIPR

MCDocs == {"rfc1", "draft", "old", "older"}
MCRfcs == {"rfc1"}
MCDraftOf == [r \in MCRfcs |-> "draft"]
MCReplaced == [d \in MCDocs \ MCRfcs |->
    CASE d = "draft" -> <<"old">> [] d = "old" -> <<"older">> [] OTHER -> <<>>]
MCAbout == [i \in {"i1", "i2"} |->
    IF i = "i1" THEN {"rfc1", "draft"} ELSE {"draft", "old"}]
MCKindOf == [i \in {"i1", "i2"} |-> "holder"]
=============================================================================
