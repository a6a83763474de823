SPECIFICATION FairSpec
CONSTANTS
  Letters = {"a", "b"}
  OddSpaces = {"wide"}
  Lines <- MCLines
  Jobs <- MCJobs
  Word = 16
  MaxTokens = 40
INVARIANTS
  TypeOK
  BuildsWhatIsMeant
  WordsInOrder
  ChainFits
PROPERTY
  EveryLineEnds
CHECK_DEADLOCK FALSE
