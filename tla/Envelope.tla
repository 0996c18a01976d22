------------------------------ MODULE Envelope ------------------------------
(***************************************************************************)
(* The bytes that name a workload and the bytes that are signed:           *)
(* src/internal/attest/identity.go, envelope.go and the digests of v1 in   *)
(* version.go and hash.go.  A string is a sequence of bytes.               *)
(***************************************************************************)
EXTENDS Integers, Sequences

CONSTANTS identityDomain, envelopeDomain, incarnationDomain, signingDomain,
          maxFieldLen,  \* 1 << 16 in the code
          maxUIDLen,    \* what the API server lets through; the code has no limit
          HashLen,      \* 32
          Nil           \* no value, an error

Byte == 0..255
Bytes == Seq(Byte)
maxUint16 == 65535
Uint16 == 0..maxUint16

\* The length of an identity's encoding, at most.
maxEncodedLen == Len(identityDomain) + 5 * (4 + maxFieldLen)

\* Lengths fit the 31 bits of TLC's integers, which are fewer than the 32 of
\* the prefix.
ASSUME EncodingAssumption ==
  /\ identityDomain \in Bytes /\ envelopeDomain \in Bytes
  /\ incarnationDomain \in Bytes /\ signingDomain \in Bytes
  /\ maxFieldLen \in Nat /\ maxUIDLen \in Nat /\ HashLen \in Nat \ {0}
  /\ maxEncodedLen <= 2147483647 /\ maxUIDLen <= 2147483647

\* v1 and v2 signatures are told apart by their domains: neither domain is a
\* prefix of the other.
ASSUME DomainAssumption ==
  \E i \in 1..Len(envelopeDomain) :
    i <= Len(signingDomain) /\ envelopeDomain[i] # signingDomain[i]

\* Nil is neither a string nor a digest.
ASSUME NilAssumption == Nil \notin Bytes /\ Nil \notin [digestOf: Bytes]

Hash == [1..HashLen -> Byte]

\* The fields are those of the struct.
WorkloadIdentityV2 ==
  [ClusterID: Bytes, APIVersion: Bytes, Kind: Bytes, Namespace: Bytes, Name: Bytes]

EnvelopeV2 == [Version: Uint16, Identity: WorkloadIdentityV2, UID: Bytes, ConfigHash: Hash]

\* SHA-256: a digest stands for the bytes it was taken of.
sha256(bytes) == [digestOf |-> bytes]
zeroDigest == [digestOf |-> Nil]

-----------------------------------------------------------------------------

Validate(w) == \A f \in DOMAIN w : w[f] # << >> /\ Len(w[f]) <= maxFieldLen

BigEndian16(n) == <<(n \div 256) % 256, n % 256>>

BigEndian32(n) ==
  <<(n \div 16777216) % 256, (n \div 65536) % 256, (n \div 256) % 256, n % 256>>

\* A bug: fields are told apart by nothing.
appendPlain(dst, s) == dst \o s

appendLengthPrefixed(dst, s) == dst \o BigEndian32(Len(s)) \o s

\* A bug: the cluster is left out, as in v1.
encodeFieldsNoCluster(w) ==
  LET buf1 == appendLengthPrefixed(identityDomain, w.APIVersion)
      buf2 == appendLengthPrefixed(buf1, w.Kind)
      buf3 == appendLengthPrefixed(buf2, w.Namespace)
  IN  appendLengthPrefixed(buf3, w.Name)

encodeFields(w) ==
  LET buf0 == appendLengthPrefixed(identityDomain, w.ClusterID)
      buf1 == appendLengthPrefixed(buf0, w.APIVersion)
      buf2 == appendLengthPrefixed(buf1, w.Kind)
      buf3 == appendLengthPrefixed(buf2, w.Namespace)
  IN  appendLengthPrefixed(buf3, w.Name)

Encode(w) == IF Validate(w) THEN encodeFields(w) ELSE Nil

\* The key of a workload in the v2 registry.
WorkloadID(w) == IF Validate(w) THEN sha256(Encode(w)) ELSE Nil

\* The byte of "/".
Slash == 47

\* Its key in the v1 registry: "namespace/name".
DeploymentID(namespace, name) == sha256(namespace \o <<Slash>> \o name)

Incarnation(e) == IF e.UID = << >> THEN zeroDigest ELSE sha256(incarnationDomain \o e.UID)

SigningPreimage(e) ==
  LET idEnc == Encode(e.Identity)
      versioned == envelopeDomain \o BigEndian16(e.Version)
      named == appendLengthPrefixed(versioned, idEnc)
  IN  IF Validate(e.Identity) THEN appendLengthPrefixed(named, e.UID) \o e.ConfigHash ELSE Nil

SigningDigestV2(e) == IF Validate(e.Identity) THEN sha256(SigningPreimage(e)) ELSE Nil

signingPreimageV1(version, configHash) == signingDomain \o BigEndian16(version) \o configHash

SigningDigestV1(version, configHash) == sha256(signingPreimageV1(version, configHash))
=============================================================================
