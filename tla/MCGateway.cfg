SPECIFICATION Spec
CONSTANTS
  w = w  v = v
  x = x
  NoId = NoId
  Sockets = {w, v}
  Ids = {x}
  Actions <- SomeActions
  MaxRequests = 3
INVARIANTS TypeOK TimersOwnPending AnsweredOnce AnswersBelong NoneIsForgotten
SYMMETRY Symmetry
\* the clients run out of requests
CHECK_DEADLOCK FALSE
