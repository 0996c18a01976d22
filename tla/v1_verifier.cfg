CONSTANTS
  Deployments = {d1}
  Hashes = {1, 2, 3}
  Nil = Nil
  Alias = Alias
  KmsKeys = {0, 1, 2}
  KeyInfo <- MCKeyInfo
  PublicKeys = {1, Nil}
  Limit <- Rotation
  Follows <- Forward
  Deletable = {}
  MaxChanges = 3
SPECIFICATION VerifierSpec
INVARIANT RestIsLive
INVARIANT PassHasEvidence
INVARIANT SteadyPasses
