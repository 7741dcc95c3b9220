SPECIFICATION FairSpec
CONSTANTS
  x = x  y = y
  FrameQueueSize = 2
  OfflineQueueSize = 2
  Contacts = {x, y}
  NoContact = NoContact
  MaxTime = 2
  Budgets <- Scenarios
INVARIANTS TypeOK MessagesInOrder PrivateMessagesStay WaitingMessagesAreKnown OneAnswerEach ListingsAreComplete
PROPERTIES MessagesGetThrough
\* everything may have happened
CHECK_DEADLOCK FALSE
