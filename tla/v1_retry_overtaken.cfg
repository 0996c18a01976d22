CONSTANTS
  Deployments = {d1}
  Hashes = {1, 2}
  Nil = Nil
  Alias = Alias
  KmsKeys = {1}
  KeyInfo <- MCKeyInfo
  Limit <- OneRpcError
  Follows <- Forward
  Deletable = {}
  MaxChanges = 2
SPECIFICATION Spec
INVARIANT RestIsLive
