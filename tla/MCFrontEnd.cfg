SPECIFICATION Spec
CONSTANTS
    HEREDOC_MAX = 16
    posix_mode = FALSE
    Width = 4
    MAX_ARITH_NESTING = 3
    IntMax = 12
    SequenceMax = 8
    needs_line <- MCNeedsLine
    try_parse <- MCTryParse
PROPERTIES
  ScriptTakenWhole
  ParserExact
  PrintedReadsBack
  EvaluatesTrees
  
  PatternsExact
  PathsExact
  WordsAsMeant
  OperatorsAgree
CHECK_DEADLOCK FALSE
