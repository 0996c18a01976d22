CONSTANTS
  Workloads = {w1, w2}
  Keys = {1}
  ZeroKey = 0
  Version <- MCVersion
  Accounts = {acct}
  Publisher = acct
  Nil = Nil
  Follows <- Forward
  MaxSeq = 2
  Limit <- OneLoss
SPECIFICATION Spec
INVARIANT SendIsRecognised
