CONSTANTS
  Deployments = {d1}
  Hashes = {1, 2}
  Nil = Nil
  Alias = Alias
  KmsKeys = {0, 1}
  KeyInfo <- MCKeyInfo
  Limit <- Failing
  Follows <- Forward
  Deletable = {d1}
  MaxChanges = 3
SPECIFICATION FairSpec
INVARIANT TypeOK
INVARIANT OnlyConverged
INVARIANT RecordsVerify
INVARIANT DuplicatesAccounted
PROPERTY RetriedUntilSent
CHECK_DEADLOCK FALSE
