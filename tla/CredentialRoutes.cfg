SPECIFICATION FairSpec
CONSTANTS
  Requests = {1, 2, 3}
  Hosts = {h1}
  Emails = {e1, e2}
  Passwords = {p1, p2}
  Forms <- SmallForms
  Limits <- SmallLimits
  Windows <- SmallWindows
  Second = 2
  MaxTime = 4
  MaxRestarts = 1
  First = e1
  Usual = p1
  NoEmail = NoEmail
  NoForm = NoForm
  NoWait = NoWait
INVARIANTS AttemptsLimited HonestRetryAfter AnswersMatchAccounts
PROPERTIES EveryRequestAnswered
CHECK_DEADLOCK FALSE
