----------------------------- MODULE KmsSigner ------------------------------
(***************************************************************************)
(* internal/signer/kms.go: the signer of one process, and the AWS KMS it   *)
(* talks to.                                                               *)
(*                                                                         *)
(* A KMS key is its canonical identifier, and so are its public key and    *)
(* their fingerprint.  The operator and the verifier are both configured   *)
(* with the same alias, which can be pointed at another key.  A signature  *)
(* is the pair of the key and the digest it was made with.  The digest is  *)
(* determined by the config hash, as the version is fixed in a build.      *)
(* GetPublicKey always names the key it describes, as AWS does.            *)
(***************************************************************************)
CONSTANTS
  KmsKeys,     \* external: the keys, by canonical identifier
  KeyInfo,     \* external: what GetPublicKey reports of every key
  Alias,       \* the configured identifier
  Hashes,      \* the config hashes
  Nil          \* no signer, no job, no hash, an empty answer

Info == [usage: {"SIGN_VERIFY", "KEY_AGREEMENT"},
         spec: {"ECC_NIST_P256", "ECC_NIST_P384"},
         algorithms: SUBSET {"ECDSA_SHA_256", "ECDSA_SHA_384"},
         curve: {"P-256", "P-384", "none"}]

ASSUME KmsAssumption ==
  /\ KeyInfo \in [KmsKeys -> Info]
  /\ Alias \notin KmsKeys
  /\ Nil \notin KmsKeys \cup Hashes \cup (KmsKeys \X Hashes)

VARIABLES
  alias,       \* external: the key the alias names
  signer       \* the process's KMSSigner, or Nil before it is constructed

Signatures == KmsKeys \X Hashes

Signer == [keyID: KmsKeys \cup {Alias}, pub: KmsKeys]

SignerTypeOK ==
  /\ alias \in KmsKeys
  /\ signer \in Signer \cup {Nil}

signingAlgorithm == "ECDSA_SHA_256"

\* The key KMS takes identifier id for.
resolve(id) == IF id = Alias THEN alias ELSE id

\* The checks of newWithClient.  A curve of "none" is a public key that is
\* empty, does not parse or is not ECDSA.
suitable(info) ==
  /\ info.usage = "SIGN_VERIFY"
  /\ info.spec = "ECC_NIST_P256"
  /\ signingAlgorithm \in info.algorithms
  /\ info.curve = "P-256"

\* NewKMSSigner: the signer, or Nil for an error.
newWithClient(id) ==
  LET key == resolve(id)
  IN  IF suitable(KeyInfo[key]) THEN [keyID |-> key, pub |-> key] ELSE Nil

\* An answer of KMS to Sign, and the one it should give.
SignOutput ==
  [signature: Signatures \cup {Nil}, algorithm: {"ECDSA_SHA_256", "ECDSA_SHA_384"},
   keyId: KmsKeys \cup {Nil}]

kmsSign(id, hash) ==
  [signature |-> <<resolve(id), hash>>, algorithm |-> signingAlgorithm,
   keyId |-> resolve(id)]

VerifyConfigHashSignature(pub, hash, sig) == sig = <<pub, hash>>

\* Mutant: an answer is trusted when it names no other key.
acceptsNamed(hash, out) ==
  /\ out.signature # Nil
  /\ out.algorithm = signingAlgorithm
  /\ out.keyId \in {Nil, signer.keyID}

\* SignDigest returns out's signature for hash, and an error otherwise.
acceptsOutput(hash, out) ==
  /\ out.signature # Nil
  /\ out.algorithm = signingAlgorithm
  /\ out.keyId \in {Nil, signer.keyID}
  /\ VerifyConfigHashSignature(signer.pub, hash, out.signature)
=============================================================================
