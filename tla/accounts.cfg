SPECIFICATION FairAccountSpec
CONSTANTS
  r1 = r1
  r2 = r2
  p1 = p1
  p2 = p2
  Requests <- TwoRequests
  Passwords <- TwoPasswords
  MailHost = TRUE
  Secure = FALSE
  StartTls = TRUE
  Credentials = TRUE
  MaxTokens = 2
  MaxLogins = 1
INVARIANTS
  SentMeansAccepted
  UsedTokenTookEffect
  OldPasswordIsOut
PROPERTIES
  AccountRequestsEnd
CHECK_DEADLOCK FALSE
