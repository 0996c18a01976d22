CONSTANTS
  Workloads = {w1, w2}
  Keys = {1, 2}
  ZeroKey = 0
  Version <- MCVersion
  Accounts = {acct}
  Publisher = acct
  Nil = Nil
  Follows <- Forward
  MaxSeq = 2
  Limit <- OneLoss
  MaxReorgs = 2
SPECIFICATION ReorgSpec
INVARIANT PublishedInOrder
INVARIANT SettledThroughReorg
PROPERTY ReorgRecovers
