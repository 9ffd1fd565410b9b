SPECIFICATION MCSpec
CONSTANTS
  Plans <- MCPlans
  Mails <- MCMails
  Stepwise <- MCStepwise
  MaxPolls = 1
  Page = 2
  MaxPages = 2
  MaxItems = 5
  MaxLimit = 4
  MaxFaults = 2
INVARIANTS
  FailureIsRetrySafe
  LeftoversAreBounded
  NothingSkipped
  CutIsTold
PROPERTIES
  HiddenMailStaysHidden
  EveryCallEnds
  SyncCatchesUp
CHECK_DEADLOCK FALSE
