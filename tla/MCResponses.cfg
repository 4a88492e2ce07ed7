SPECIFICATION FairSpec
CONSTANTS
  Turns = {1, 2, 3}
  Streams = {1}
  Settings <- MCSettings
  Free = Free
  NoTurn = NoTurn
  MaxTime = 3
INVARIANTS ConversationUnbroken AnswerMeansKept RemovedStaysRemoved
PROPERTIES NoneEvictedForTheDead LockComesBack
CHECK_DEADLOCK FALSE
