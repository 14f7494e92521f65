SPECIFICATION FairSpec
CONSTANTS
  Texts = 7
  Omitted = {4, 7}
  BatchSize = 2
  EmbedSlots = 3
  Figures = 3
  CaptionSlots = 2
  PollMax = 3
INVARIANTS
  TypeOK
  VectorsMatchTexts
  PercentIsEarned
  ScreenIsTrue
PROPERTIES
  PercentNeverGoesBack
  PollingEnds
CHECK_DEADLOCK FALSE
