SPECIFICATION RecordFairSpec
CONSTANTS
  Calls = {c1, c2}
  Threshold = 2
  Wait = 1
  MaxTries = 1
  Strategies <- MCStrategies
  MaxFailures = 4
  Recorders = {w1, w2}
  MaxAnswers = 2
INVARIANTS
  RecordTypeOK
  AttemptsBounded
  WritesAdvance
  AnswersAccountedFor
PROPERTIES
  TriesAgain
  CallsEnd
  AnswersAreRecorded
