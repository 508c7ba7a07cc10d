\* A blocking or an asynchronous context, however it is connected.
SPECIFICATION Spec
CONSTANTS
  Limit <- SmallLimits
  MaxPrealloc = 4
  Fragments <- Cut
  MaxCommands = 2
  MaxReconnects = 1
  MaxAddrs = 2
  ConnectRetries = 2
  Fds = {1, 2}
  Options <- Ways
  Hash <- Collide
  InitialSize = 1
  Programs <- Mixture
  MaxPublished = 1
INVARIANTS TypeOK AnswersInOrder FailureReported DescriptorOwned
  OwnAnswers AnsweredOnce SubscriptionHeard AssertionsHold
PROPERTIES CallEnds CommandAnswered DisconnectCompletes
CHECK_DEADLOCK FALSE
