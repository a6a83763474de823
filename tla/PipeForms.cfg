SPECIFICATION FairSpec
CONSTANTS
  Letters = {"a", "b"}
  OddSpaces = {"wide"}
  Lines <- MCLines
  Jobs <- MCJobs
  Word = 16
  MaxTokens = 40
INVARIANT
  CommentFormsParse
CHECK_DEADLOCK FALSE
