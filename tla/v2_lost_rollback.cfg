CONSTANTS
  Workloads = {w1}
  Keys = {1, 2}
  ZeroKey = 0
  Version <- MCVersion
  Accounts = {acct}
  Publisher = acct
  Nil = Nil
  Follows <- Anywhere
  MaxSeq = 3
  Limit <- NoFailures
SPECIFICATION Spec
INVARIANT RequestSupersedes
