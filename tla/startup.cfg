SPECIFICATION Spec
CONSTANTS
  Nil = Nil
  k1 = k1
  k2 = k2
  Byte = {0, 1, 2}
  AddressLength = 1
  Template <- MCTemplate
  Immutables <- MCImmutables
  Getter = 1
  Guard = 2
  PrivateKeys = {k1, k2}
  account <- MCaccount
  Configs <- MCConfigs
  Codes <- MCCodes
  ChainIDs = {1, 2}
  MaxOutages = 1
  MaxContracts = 1
  Workloads = {w1, w2}
  Keys = {1, 2, 3}
  ZeroKey = 0
  Version <- MCVersion
  Accounts <- Address
  Publisher <- MCPublisher
  MaxEvents = 2
INVARIANT ValidatedMeansIt
INVARIANT UnsetIsVersionZero
INVARIANT LogReconstructsLatest
PROPERTY RightConfigStarts
CHECK_DEADLOCK FALSE
