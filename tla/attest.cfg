SPECIFICATION Spec
CONSTANTS
  Nil = Nil
  identityDomain <- MCidentityDomain
  incarnationDomain <- MCincarnationDomain
  envelopeDomain <- MCenvelopeDomain
  signingDomain <- MCsigningDomain
  maxFieldLen = 2
  maxUIDLen = 2
  HashLen = 2
  generatedLabelKeys <- MCgenerated
  Bases <- MCBases
  Variants <- MCVariants
  MaxDrift = 2
  MaxScale = 3
INVARIANTS
  V1HashIsConfig
  V2HashIsConfig
  SignatureBindsEnvelope
  SlotIsWorkload
