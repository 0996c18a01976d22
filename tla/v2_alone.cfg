CONSTANTS
  Workloads = {w1}
  Keys = {1, 2}
  ZeroKey = 0
  Version <- MCVersion
  Accounts = {acct}
  Publisher = acct
  Nil = Nil
  Follows <- Forward
  MaxSeq = 3
  Limit <- Alone
SPECIFICATION FairSpec
INVARIANT PublishedInOrder
INVARIANT ConfirmedIsCurrent
INVARIANT SettledOnChain
PROPERTY KeepsPromise
PROPERTY EventuallyPublished
