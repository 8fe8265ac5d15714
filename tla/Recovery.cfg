SPECIFICATION AccountsSpec
CONSTANTS
  Threads = {t1, t2}
  Limit = 2
  MaxCode = 2
  MaxTries = 3
  Passwords = {w1, w2}
  Names <- MCNames
  Own <- MCOwn
  NoName = noname
  MaxReauth = 1
SYMMETRY Symmetry
INVARIANTS TriesLimited ResetHolds FoundByName ReauthOnce
PROPERTY TokenForCurrentCode
CHECK_DEADLOCK FALSE
