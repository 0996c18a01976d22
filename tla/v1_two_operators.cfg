CONSTANTS
  Deployments = {d1}
  Hashes = {1, 2}
  Nil = Nil
  Alias = Alias
  KmsKeys = {1}
  KeyInfo <- MCKeyInfo
  Limit <- Losing
  Follows <- Forward
  Deletable = {d1}
  MaxChanges = 2
SPECIFICATION TwoSpec
INVARIANT DuplicatesDouble
 
CHECK_DEADLOCK FALSE
