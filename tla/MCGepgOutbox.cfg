SPECIFICATION FairSpec
CONSTANTS
  NoRequest = NoRequest
  Requests = {r1, r2}
  MaxCrashes = 2
INVARIANTS TypeOK AcceptedIsBackedUp
PROPERTIES ImplementsDispatch EverySubmissionCloses
CHECK_DEADLOCK FALSE
