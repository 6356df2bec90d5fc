SPECIFICATION Spec
CONSTANTS
  Documents <- MCDocuments
  Questions <- MCQuestions
  FoldCase <- MCFoldCase
  MaxImports = 2
INVARIANTS AnswersAreTrue AdviceCanBeFollowed DraftsAgree FtsInStep ReferencesFollowText
