\* Up to six prompts in two or three blocks, two actors, calls of at most two
\* prompts, two losses.
SPECIFICATION FairSpec
CONSTANTS
  Actor = {a1, a2}
  MaxPrompts = 6
  BlockSize = 2
  CallSize = 2
  MaxLosses = 2
INVARIANTS
  PipelineTypeOK
  EachPromptOnce
  AnswersAreTheirOwn
  RowsKeepBlockOrder
PROPERTIES
  PipelineEnds
  StagesAsTheJob
CHECK_DEADLOCK FALSE
