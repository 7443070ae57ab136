SPECIFICATION FairSpec
CONSTANTS
  Provider = {authority}
  authority = authority
  pension = pension
  Portals <- OnePortal
  Edited = {}
  MaxSessions = 1
  Slot = {k1}
  MaxLive = 1
  MaxOtpAttempts = 2
  MaxWaits = 1
  MaxMails = 2
  MaxCodes = 2
  MaxCrashes = 1
CHECK_DEADLOCK FALSE
INVARIANTS TypeOK OneLoginPerSession AwaitingIsWatched
PROPERTIES NoFetchHangs
