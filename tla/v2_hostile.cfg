CONSTANTS
  Workloads = {w1}
  Keys = {1, 2}
  ZeroKey = 0
  Version <- MCVersion
  Accounts = {acct}
  Publisher = acct
  Nil = Nil
  Follows <- Forward
  MaxSeq = 3
  Limit <- Hostile
SPECIFICATION Spec
INVARIANT TypeOK
INVARIANT ConfirmedWasPublished
INVARIANT NothingLost
INVARIANT PublishedOnce
