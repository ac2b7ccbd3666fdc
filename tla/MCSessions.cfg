SPECIFICATION FairSpec
CONSTANTS
  Tokens = {t1, t2}
  Requests = {r1, r2}
  Passwords = {p1, p2}
  TooShort = TooShort
  NoRequest = NoRequest
  FaultSets = {{"statement"}, {"lostReply", "restart"}}
CHECK_DEADLOCK FALSE
INVARIANTS
  ChangeRevokes
  AnswersTrue
PROPERTY
  RequestsReturn
