SPECIFICATION Spec
CONSTANTS
  Provider = {authority, pension}
  authority = authority
  pension = pension
  Portals <- TwoPortals
  Edited = {authority}
  MaxSessions = 2
  Slot = {k1}
  MaxLive = 1
  MaxOtpAttempts = 1
  MaxWaits = 0
  MaxMails = 2
  MaxCodes = 1
  MaxCrashes = 0
CHECK_DEADLOCK FALSE
PROPERTIES LivesOneLife NoNeedlessLogin
