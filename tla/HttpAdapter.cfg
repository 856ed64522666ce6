SPECIFICATION Spec
CONSTANTS
  Requests = {r1, r2, r3, r4}
  EmptyBody = {r4}
  Lines = {l1, l2}
  QueueLimit = 2
  RequestTimeout = 1
INVARIANTS
  AnsweredOnce
  NoRequestLost
  QueueLimited
  OwnAnswer
  SentInOrder
PROPERTIES
  NoSendAfterAnswer
  EveryoneIsAnswered
