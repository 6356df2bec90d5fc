SPECIFICATION Spec
CONSTANTS
  Callers = {c1}
  Docs <- MCDocs
  Rfcs <- MCRfcs
  Primaries = {"rfc1", "draft", "none"}
  DraftOf <- MCDraftOf
  Replaced <- MCReplaced
  Kinds = {"holder"}
  Ids = {"i1", "i2"}
  About <- MCAbout
  KindOf <- MCKindOf
  PageLimit = 1
  MaxPages = 3
  NoDoc = NoDoc
INVARIANTS CompleteForSearched AnswersAreRight
PROPERTY CallsEnd
