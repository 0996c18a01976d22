--------------------------- MODULE EnvelopeProofs ---------------------------
(***************************************************************************)
(* The encodings of Envelope are injective, for every input: reading them  *)
(* from the front, each length prefix says where its field ends.  So a     *)
(* slot of the registry is one workload's, and a signature one envelope's. *)
(***************************************************************************)
EXTENDS Attest, SequenceTheorems, TLAPS

-----------------------------------------------------------------------------
(***************************************************************************)
(* Byte strings.                                                           *)
(***************************************************************************)

LEMMA ConcatType ==
  ASSUME NEW a \in Bytes, NEW b \in Bytes
  PROVE  a \o b \in Bytes /\ Len(a \o b) = Len(a) + Len(b)
  BY ConcatProperties, ZenonT(60) DEF Bytes

LEMMA ConcatAssoc ==
  ASSUME NEW a \in Bytes, NEW b \in Bytes, NEW c \in Bytes
  PROVE  (a \o b) \o c = a \o (b \o c)
  BY ConcatAssociative DEF Bytes

LEMMA LenType == ASSUME NEW a \in Bytes PROVE Len(a) \in Nat
  BY LenProperties DEF Bytes

\* Where two prefixes of the same length end is the same place.
LEMMA SplitConcat ==
  ASSUME NEW a \in Bytes, NEW b \in Bytes, NEW u \in Bytes, NEW v \in Bytes,
         Len(a) = Len(b), a \o u = b \o v
  PROVE  a = b /\ u = v
<1>1. /\ Len(a \o u) = Len(a) + Len(u)
      /\ \A i \in 1..(Len(a) + Len(u)) : (a \o u)[i] = IF i <= Len(a) THEN a[i] ELSE u[i - Len(a)]
  BY ConcatProperties, ZenonT(60) DEF Bytes
<1>2. /\ Len(b \o v) = Len(b) + Len(v)
      /\ \A i \in 1..(Len(b) + Len(v)) : (b \o v)[i] = IF i <= Len(b) THEN b[i] ELSE v[i - Len(b)]
  BY ConcatProperties DEF Bytes
<1>3. Len(a) \in Nat /\ Len(u) \in Nat /\ Len(b) \in Nat /\ Len(v) \in Nat
  BY LenType, ZenonT(60)
<1>4. Len(u) = Len(v)
  BY <1>1, <1>2, <1>3
<1>5. \A i \in 1..Len(a) : a[i] = b[i]
  BY <1>1, <1>2, <1>3, <1>4
<1>6. ASSUME NEW i \in 1..Len(u) PROVE u[i] = v[i]
  <2>1. i + Len(a) \in 1..(Len(a) + Len(u)) /\ ~ (i + Len(a) <= Len(a)) /\ (i + Len(a)) - Len(a) = i
    BY <1>3
  <2>2. (a \o u)[i + Len(a)] = u[i]
    BY <1>1, <2>1, ZenonT(60)
  <2>3. (b \o v)[i + Len(a)] = v[i]
    BY <1>2, <1>4, <2>1, ZenonT(60)
  <2> QED
    BY <2>2, <2>3, ZenonT(60)
<1> QED
  BY <1>4, <1>5, <1>6, SeqEqual, ZenonT(60) DEF Bytes

-----------------------------------------------------------------------------
(***************************************************************************)
(* Numbers: of a fixed length, and nothing is lost.                        *)
(***************************************************************************)

LEMMA Uint16Type == ASSUME NEW n \in Uint16 PROVE n \in Nat /\ n <= maxUint16
<1>1. maxUint16 \in Nat
  BY SMT DEF maxUint16
<1> QED
  BY <1>1, SMT DEF Uint16

LEMMA BigEndian16Type ==
  ASSUME NEW n \in Nat PROVE BigEndian16(n) \in Bytes /\ Len(BigEndian16(n)) = 2
  BY SMT DEF BigEndian16, Byte, Bytes

LEMMA BigEndian32Type ==
  ASSUME NEW n \in Nat PROVE BigEndian32(n) \in Bytes /\ Len(BigEndian32(n)) = 4
  BY SMT DEF BigEndian32, Byte, Bytes

\* The longest field: EncodingAssumption.
Length31 == 2147483647

\* A number is its last byte and the rest.
LEMMA LastByte ==
  ASSUME NEW m \in Nat, NEW n \in Nat, m \div 256 = n \div 256, m % 256 = n % 256
  PROVE  m = n
  BY SMT

LEMMA Quotients ==
  ASSUME NEW n \in Nat
  PROVE  /\ n \div 256 \in Nat /\ n \div 65536 \in Nat /\ n \div 16777216 \in Nat
         /\ (n \div 256) \div 256 = n \div 65536
         /\ (n \div 65536) \div 256 = n \div 16777216
         /\ n <= 65535 => (n \div 256) % 256 = n \div 256
         /\ n <= Length31 => (n \div 16777216) % 256 = n \div 16777216
<1>1. n \div 256 \in Nat /\ n \div 65536 \in Nat /\ n \div 16777216 \in Nat
  BY SMT
<1>2. (n \div 256) \div 256 = n \div 65536
  BY SMT
<1>3. (n \div 65536) \div 256 = n \div 16777216
  BY SMT
<1>4. n <= 65535 => (n \div 256) % 256 = n \div 256
  BY SMT
<1>5. n <= Length31 => (n \div 16777216) % 256 = n \div 16777216
  BY SMT DEF Length31
<1> QED
  BY <1>1, <1>2, <1>3, <1>4, <1>5, SMT

LEMMA BigEndian16Injective ==
  ASSUME NEW m \in Nat, NEW n \in Nat, m <= 65535, n <= 65535, BigEndian16(m) = BigEndian16(n)
  PROVE  m = n
<1>1. (m \div 256) % 256 = (n \div 256) % 256 /\ m % 256 = n % 256
  BY SMT DEF BigEndian16
<1>2. m \div 256 = n \div 256
  BY <1>1, Quotients, SMT
<1> QED
  BY <1>1, <1>2, LastByte, SMT

LEMMA BigEndian32Injective ==
  ASSUME NEW m \in Nat, NEW n \in Nat, m <= Length31, n <= Length31,
         BigEndian32(m) = BigEndian32(n)
  PROVE  m = n
<1>1. /\ (m \div 16777216) % 256 = (n \div 16777216) % 256
      /\ (m \div 65536) % 256 = (n \div 65536) % 256
      /\ (m \div 256) % 256 = (n \div 256) % 256
      /\ m % 256 = n % 256
  BY SMT DEF BigEndian32
<1>2. m \div 16777216 = n \div 16777216
  BY <1>1, Quotients, SMT
<1>3. m \div 65536 = n \div 65536
  BY <1>1, <1>2, Quotients, LastByte, SMTT(30)
<1>4. m \div 256 = n \div 256
  BY <1>1, <1>3, Quotients, LastByte, SMTT(30)
<1> QED
  BY <1>1, <1>4, LastByte, SMT

-----------------------------------------------------------------------------
(***************************************************************************)
(* Fields.                                                                 *)
(***************************************************************************)

\* A field with its length before it.
Prefixed(s) == BigEndian32(Len(s)) \o s

LEMMA PrefixedType ==
  ASSUME NEW s \in Bytes
  PROVE  Prefixed(s) \in Bytes /\ Len(Prefixed(s)) = 4 + Len(s)
<1>1. BigEndian32(Len(s)) \in Bytes /\ Len(BigEndian32(Len(s))) = 4
  BY LenType, BigEndian32Type, ZenonT(60)
<1> QED
  BY <1>1, ConcatType, ZenonT(60) DEF Prefixed

LEMMA AppendIsPrefixed ==
  ASSUME NEW dst \in Bytes, NEW s \in Bytes
  PROVE  appendLengthPrefixed(dst, s) = dst \o Prefixed(s)
<1>1. BigEndian32(Len(s)) \in Bytes
  BY LenType, BigEndian32Type
<1> QED
  BY <1>1, ConcatAssoc, ZenonT(60) DEF appendLengthPrefixed, Prefixed

LEMMA PrefixedThen ==
  ASSUME NEW s \in Bytes, NEW u \in Bytes
  PROVE  Prefixed(s) \o u = BigEndian32(Len(s)) \o (s \o u)
<1>1. PICK p \in Bytes : p = BigEndian32(Len(s))
  BY LenType, BigEndian32Type, ZenonT(60)
<1>2. (p \o s) \o u = p \o (s \o u)
  BY ConcatAssoc, ZenonT(60)
<1> QED
  BY <1>1, <1>2, ZenonT(60) DEF Prefixed

\* What the first field is, and where the rest starts, can be read off.
LEMMA ReadField ==
  ASSUME NEW s \in Bytes, NEW t \in Bytes, NEW u \in Bytes, NEW v \in Bytes,
         Len(s) <= Length31, Len(t) <= Length31,
         Prefixed(s) \o u = Prefixed(t) \o v
  PROVE  s = t /\ u = v
<1>1. Len(s) \in Nat /\ Len(t) \in Nat
  BY LenType
<1>2. PICK p \in Bytes, q \in Bytes :
        /\ p = BigEndian32(Len(s)) /\ q = BigEndian32(Len(t))
        /\ Len(p) = 4 /\ Len(q) = 4
  BY <1>1, BigEndian32Type, ZenonT(60)
<1>3. PICK x \in Bytes, y \in Bytes : x = s \o u /\ y = t \o v
  BY ConcatType, ZenonT(60)
<1>4. p \o x = q \o y
  BY <1>2, <1>3, PrefixedThen, ZenonT(60)
<1>5. Len(p) = Len(q)
  BY <1>2, ZenonT(60)
<1>6. p = q /\ x = y
  BY <1>4, <1>5, SplitConcat, ZenonT(60)
<1>7. BigEndian32(Len(s)) = BigEndian32(Len(t)) /\ s \o u = t \o v
  BY <1>2, <1>3, <1>6, ZenonT(60)
<1>8. Len(s) = Len(t)
  BY <1>1, <1>7, BigEndian32Injective, ZenonT(60)
<1> QED
  BY <1>7, <1>8, SplitConcat, ZenonT(60)

\* A field that is appended is the first one of what follows.
LEMMA AppendThen ==
  ASSUME NEW dst \in Bytes, NEW s \in Bytes, NEW u \in Bytes
  PROVE  appendLengthPrefixed(dst, s) \o u = dst \o (Prefixed(s) \o u)
<1>1. PICK p \in Bytes : p = Prefixed(s)
  BY PrefixedType, ZenonT(60)
<1>2. (dst \o p) \o u = dst \o (p \o u)
  BY ConcatAssoc, SMTT(30)
<1> QED
  BY <1>1, <1>2, AppendIsPrefixed, ZenonT(60)

LEMMA AppendType ==
  ASSUME NEW dst \in Bytes, NEW s \in Bytes
  PROVE  /\ appendLengthPrefixed(dst, s) \in Bytes
         /\ Len(appendLengthPrefixed(dst, s)) = Len(dst) + 4 + Len(s)
<1>1. PICK p \in Bytes : p = Prefixed(s) /\ Len(p) = 4 + Len(s)
  BY PrefixedType, ZenonT(60)
<1>2. dst \o p \in Bytes /\ Len(dst \o p) = Len(dst) + Len(p)
  BY ConcatType, ZenonT(60)
<1>3. appendLengthPrefixed(dst, s) = dst \o p
  BY <1>1, AppendIsPrefixed, ZenonT(60)
<1>4. Len(dst) \in Nat /\ Len(s) \in Nat
  BY LenType, ZenonT(60)
<1> QED
  BY <1>1, <1>2, <1>3, <1>4

\* The fields of an identity in their order.
Fields4(w) == Prefixed(w.Name)
Fields3(w) == Prefixed(w.Namespace) \o Fields4(w)
Fields2(w) == Prefixed(w.Kind) \o Fields3(w)
Fields1(w) == Prefixed(w.APIVersion) \o Fields2(w)
Fields(w) == Prefixed(w.ClusterID) \o Fields1(w)

LEMMA FieldsType ==
  ASSUME NEW w \in WorkloadIdentityV2
  PROVE  /\ w.ClusterID \in Bytes /\ w.APIVersion \in Bytes /\ w.Kind \in Bytes
         /\ w.Namespace \in Bytes /\ w.Name \in Bytes
         /\ Fields4(w) \in Bytes /\ Fields3(w) \in Bytes /\ Fields2(w) \in Bytes
         /\ Fields1(w) \in Bytes /\ Fields(w) \in Bytes
<1>1. /\ w.ClusterID \in Bytes /\ w.APIVersion \in Bytes /\ w.Kind \in Bytes
      /\ w.Namespace \in Bytes /\ w.Name \in Bytes
  BY ZenonT(60) DEF WorkloadIdentityV2
<1>2. /\ Prefixed(w.ClusterID) \in Bytes /\ Prefixed(w.APIVersion) \in Bytes
      /\ Prefixed(w.Kind) \in Bytes /\ Prefixed(w.Namespace) \in Bytes
  BY <1>1, PrefixedType, ZenonT(60)
<1>3. Fields4(w) \in Bytes
  BY <1>1, PrefixedType, ZenonT(60) DEF Fields4
<1>4. Fields3(w) \in Bytes
  BY <1>2, <1>3, ConcatType, ZenonT(60) DEF Fields3
<1>5. Fields2(w) \in Bytes
  BY <1>2, <1>4, ConcatType, ZenonT(60) DEF Fields2
<1>6. Fields1(w) \in Bytes
  BY <1>2, <1>5, ConcatType, ZenonT(60) DEF Fields1
<1>7. Fields(w) \in Bytes
  BY <1>2, <1>6, ConcatType, ZenonT(60) DEF Fields
<1> QED
  BY <1>1, <1>3, <1>4, <1>5, <1>6, <1>7, SMTT(30)

LEMMA EncodeIsFields ==
  ASSUME NEW w \in WorkloadIdentityV2
  PROVE  encodeFields(w) = identityDomain \o Fields(w)
<1>0. /\ w.ClusterID \in Bytes /\ w.APIVersion \in Bytes /\ w.Kind \in Bytes
      /\ w.Namespace \in Bytes /\ w.Name \in Bytes
      /\ Fields4(w) \in Bytes /\ Fields3(w) \in Bytes /\ Fields2(w) \in Bytes
      /\ Fields1(w) \in Bytes
  BY FieldsType
<1>1. identityDomain \in Bytes
  BY EncodingAssumption
<1>2. PICK buf0 \in Bytes : buf0 = appendLengthPrefixed(identityDomain, w.ClusterID)
  BY <1>0, <1>1, AppendType, ZenonT(60)
<1>3. PICK buf1 \in Bytes : buf1 = appendLengthPrefixed(buf0, w.APIVersion)
  BY <1>0, AppendType, ZenonT(60)
<1>4. PICK buf2 \in Bytes : buf2 = appendLengthPrefixed(buf1, w.Kind)
  BY <1>0, AppendType, ZenonT(60)
<1>5. PICK buf3 \in Bytes : buf3 = appendLengthPrefixed(buf2, w.Namespace)
  BY <1>0, AppendType, ZenonT(60)
<1>6. encodeFields(w) = appendLengthPrefixed(buf3, w.Name)
  BY <1>2, <1>3, <1>4, <1>5, ZenonT(60) DEF encodeFields
<1>7. encodeFields(w) = buf3 \o Fields4(w)
  BY <1>0, <1>6, AppendIsPrefixed, ZenonT(60) DEF Fields4
<1>8. buf3 \o Fields4(w) = buf2 \o Fields3(w)
  <2>1. w.Namespace \in Bytes /\ Fields4(w) \in Bytes
    BY <1>0, ZenonT(60)
  <2>2. appendLengthPrefixed(buf2, w.Namespace) \o Fields4(w) = buf2 \o (Prefixed(w.Namespace) \o Fields4(w))
    BY <2>1, AppendThen, ZenonT(60)
  <2> QED
    BY <2>2, <1>5, ZenonT(60) DEF Fields3
<1>9. buf2 \o Fields3(w) = buf1 \o Fields2(w)
  <2>1. w.Kind \in Bytes /\ Fields3(w) \in Bytes
    BY <1>0, ZenonT(60)
  <2>2. appendLengthPrefixed(buf1, w.Kind) \o Fields3(w) = buf1 \o (Prefixed(w.Kind) \o Fields3(w))
    BY <2>1, AppendThen, ZenonT(60)
  <2> QED
    BY <2>2, <1>4, ZenonT(60) DEF Fields2
<1>10. buf1 \o Fields2(w) = buf0 \o Fields1(w)
  <2>1. w.APIVersion \in Bytes /\ Fields2(w) \in Bytes
    BY <1>0
  <2>2. appendLengthPrefixed(buf0, w.APIVersion) \o Fields2(w) = buf0 \o (Prefixed(w.APIVersion) \o Fields2(w))
    BY <2>1, AppendThen, ZenonT(60)
  <2> QED
    BY <2>2, <1>3, ZenonT(60) DEF Fields1
<1>11. buf0 \o Fields1(w) = identityDomain \o Fields(w)
  <2>1. w.ClusterID \in Bytes /\ Fields1(w) \in Bytes
    BY <1>0
  <2>2. appendLengthPrefixed(identityDomain, w.ClusterID) \o Fields1(w)
          = identityDomain \o (Prefixed(w.ClusterID) \o Fields1(w))
    BY <1>1, <2>1, AppendThen, ZenonT(60)
  <2> QED
    BY <2>2, <1>2, ZenonT(60) DEF Fields
<1> QED
  BY <1>7, <1>8, <1>9, <1>10, <1>11, ZenonT(60)

-----------------------------------------------------------------------------
(***************************************************************************)
(* What the encodings tell apart.                                          *)
(***************************************************************************)

LEMMA LastField ==
  ASSUME NEW s \in Bytes, NEW t \in Bytes, Prefixed(s) = Prefixed(t)
  PROVE  s = t
<1>1. Len(s) \in Nat /\ Len(t) \in Nat
  BY LenType
<1>2. PICK p \in Bytes : p = BigEndian32(Len(s)) /\ Len(p) = 4
  BY <1>1, BigEndian32Type, ZenonT(60)
<1>3. PICK q \in Bytes : q = BigEndian32(Len(t)) /\ Len(q) = 4
  BY <1>1, BigEndian32Type, ZenonT(60)
<1>4. p \o s = q \o t
  BY <1>2, <1>3, ZenonT(60) DEF Prefixed
<1>5. Len(p) = Len(q)
  BY <1>2, <1>3, ZenonT(60)
<1> QED
  BY <1>4, <1>5, SplitConcat, ZenonT(60)

\* A field of a valid identity is short enough for its prefix.
LEMMA FieldLen ==
  ASSUME NEW w \in WorkloadIdentityV2, Validate(w)
  PROVE  /\ Len(w.ClusterID) <= maxFieldLen /\ Len(w.APIVersion) <= maxFieldLen
         /\ Len(w.Kind) <= maxFieldLen /\ Len(w.Namespace) <= maxFieldLen
         /\ Len(w.Name) <= maxFieldLen
  BY ZenonT(60) DEF WorkloadIdentityV2, Validate

LEMMA MaxLen == maxFieldLen \in Nat /\ maxFieldLen <= Length31 /\ maxEncodedLen <= Length31
<1>1. /\ identityDomain \in Bytes /\ maxFieldLen \in Nat
      /\ Len(identityDomain) + 5 * (4 + maxFieldLen) <= Length31
  BY EncodingAssumption, SMT DEF maxEncodedLen, Length31
<1>2. Len(identityDomain) \in Nat
  BY <1>1, LenType, ZenonT(60)
<1>3. Length31 \in Nat
  BY SMT DEF Length31
<1> QED
  BY <1>1, <1>2, <1>3, SMTT(30) DEF maxEncodedLen

LEMMA MaxEncodedType == maxEncodedLen \in Nat /\ Length31 \in Nat
<1>1. Len(identityDomain) \in Nat
  BY EncodingAssumption, LenType
<1> QED
  BY <1>1, MaxLen, SMT DEF maxEncodedLen, Length31

\* A field and what follows it are read back.
LEMMA ReadShort ==
  ASSUME NEW s \in Bytes, NEW t \in Bytes, NEW u \in Bytes, NEW v \in Bytes,
         Len(s) <= maxFieldLen, Len(t) <= maxFieldLen,
         Prefixed(s) \o u = Prefixed(t) \o v
  PROVE  s = t /\ u = v
<1>1. Len(s) \in Nat /\ Len(t) \in Nat /\ Length31 \in Nat
  BY LenType, SMT DEF Length31
<1>2. Len(s) <= Length31 /\ Len(t) <= Length31
  BY <1>1, MaxLen, SMT
<1> QED
  BY <1>2, ReadField, ZenonT(60)

LEMMA FieldsInjective ==
  ASSUME NEW v \in WorkloadIdentityV2, NEW w \in WorkloadIdentityV2,
         Validate(v), Validate(w), Fields(v) = Fields(w)
  PROVE  v = w
<1>1. v.ClusterID = w.ClusterID /\ Fields1(v) = Fields1(w)
  <2>1. /\ v.ClusterID \in Bytes /\ w.ClusterID \in Bytes
        /\ Fields1(v) \in Bytes /\ Fields1(w) \in Bytes
    BY FieldsType, ZenonT(60)
  <2>2. Len(v.ClusterID) <= maxFieldLen /\ Len(w.ClusterID) <= maxFieldLen
    BY FieldLen, ZenonT(60)
  <2>3. Prefixed(v.ClusterID) \o Fields1(v) = Prefixed(w.ClusterID) \o Fields1(w)
    BY ZenonT(60) DEF Fields
  <2> QED
    BY <2>1, <2>2, <2>3, ReadShort, ZenonT(60)
<1>2. v.APIVersion = w.APIVersion /\ Fields2(v) = Fields2(w)
  <2>1. /\ v.APIVersion \in Bytes /\ w.APIVersion \in Bytes
        /\ Fields2(v) \in Bytes /\ Fields2(w) \in Bytes
    BY FieldsType, ZenonT(60)
  <2>2. Len(v.APIVersion) <= maxFieldLen /\ Len(w.APIVersion) <= maxFieldLen
    BY FieldLen, ZenonT(60)
  <2>3. Prefixed(v.APIVersion) \o Fields2(v) = Prefixed(w.APIVersion) \o Fields2(w)
    BY <1>1, ZenonT(60) DEF Fields1
  <2> QED
    BY <2>1, <2>2, <2>3, ReadShort, ZenonT(60)
<1>3. v.Kind = w.Kind /\ Fields3(v) = Fields3(w)
  <2>1. /\ v.Kind \in Bytes /\ w.Kind \in Bytes
        /\ Fields3(v) \in Bytes /\ Fields3(w) \in Bytes
    BY FieldsType, ZenonT(60)
  <2>2. Len(v.Kind) <= maxFieldLen /\ Len(w.Kind) <= maxFieldLen
    BY FieldLen, ZenonT(60)
  <2>3. Prefixed(v.Kind) \o Fields3(v) = Prefixed(w.Kind) \o Fields3(w)
    BY <1>2, ZenonT(60) DEF Fields2
  <2> QED
    BY <2>1, <2>2, <2>3, ReadShort, ZenonT(60)
<1>4. v.Namespace = w.Namespace /\ Fields4(v) = Fields4(w)
  <2>1. /\ v.Namespace \in Bytes /\ w.Namespace \in Bytes
        /\ Fields4(v) \in Bytes /\ Fields4(w) \in Bytes
    BY FieldsType, ZenonT(60)
  <2>2. Len(v.Namespace) <= maxFieldLen /\ Len(w.Namespace) <= maxFieldLen
    BY FieldLen, ZenonT(60)
  <2>3. Prefixed(v.Namespace) \o Fields4(v) = Prefixed(w.Namespace) \o Fields4(w)
    BY <1>3, ZenonT(60) DEF Fields3
  <2> QED
    BY <2>1, <2>2, <2>3, ReadShort, ZenonT(60)
<1>5. v.Name = w.Name
  <2>1. v.Name \in Bytes /\ w.Name \in Bytes
    BY FieldsType, ZenonT(60)
  <2> QED
    BY <1>4, <2>1, LastField, ZenonT(60) DEF Fields4
<1> QED
  BY <1>1, <1>2, <1>3, <1>4, <1>5, SMTT(30) DEF WorkloadIdentityV2

\* The key of a workload in the v2 registry is that of no other: two valid
\* identities with the same encoding (identity.go: Encode) are the same.
THEOREM EncodeInjective ==
  ASSUME NEW v \in WorkloadIdentityV2, NEW w \in WorkloadIdentityV2,
         Validate(v), Validate(w), Encode(v) = Encode(w)
  PROVE  v = w
<1>1. identityDomain \in Bytes /\ Fields(v) \in Bytes /\ Fields(w) \in Bytes
  BY EncodingAssumption, FieldsType
<1>2. identityDomain \o Fields(v) = identityDomain \o Fields(w)
  BY EncodeIsFields, ZenonT(60) DEF Encode
<1>3. Fields(v) = Fields(w)
  BY <1>1, <1>2, SplitConcat, ZenonT(60)
<1> QED
  BY <1>3, FieldsInjective, ZenonT(60)

LEMMA AppendLen ==
  ASSUME NEW dst \in Bytes, NEW s \in Bytes, NEW n \in Nat,
         Len(dst) <= n, Len(s) <= maxFieldLen
  PROVE  /\ appendLengthPrefixed(dst, s) \in Bytes
         /\ Len(appendLengthPrefixed(dst, s)) <= n + (4 + maxFieldLen)
         /\ n + (4 + maxFieldLen) \in Nat
<1>1. PICK buf \in Bytes : buf = appendLengthPrefixed(dst, s) /\ Len(buf) = Len(dst) + 4 + Len(s)
  BY AppendType
<1>2. Len(dst) \in Nat /\ Len(s) \in Nat /\ maxFieldLen \in Nat
  BY LenType, MaxLen
<1>3. Len(buf) <= n + (4 + maxFieldLen)
  BY <1>1, <1>2, SMT
<1>4. n + (4 + maxFieldLen) \in Nat
  BY <1>2, SMT
<1> QED
  BY <1>1, <1>3, <1>4, ZenonT(60)

\* An encoded identity is short enough for its own prefix in the envelope.
LEMMA EncodeLen ==
  ASSUME NEW w \in WorkloadIdentityV2, Validate(w)
  PROVE  Encode(w) \in Bytes /\ Len(Encode(w)) <= maxEncodedLen
<1>1. /\ w.ClusterID \in Bytes /\ w.APIVersion \in Bytes /\ w.Kind \in Bytes
      /\ w.Namespace \in Bytes /\ w.Name \in Bytes
      /\ Len(w.ClusterID) <= maxFieldLen /\ Len(w.APIVersion) <= maxFieldLen
      /\ Len(w.Kind) <= maxFieldLen /\ Len(w.Namespace) <= maxFieldLen
      /\ Len(w.Name) <= maxFieldLen
  BY FieldsType, FieldLen
<1>2. identityDomain \in Bytes
  BY EncodingAssumption
<1>3. PICK d \in Nat : d = Len(identityDomain) /\ Len(identityDomain) <= d
  <2>1. Len(identityDomain) \in Nat
    BY <1>2, LenType
  <2> QED
    BY <2>1
<1>4. PICK m : m = 4 + maxFieldLen /\ m \in Nat
  BY MaxLen, SMT
<1>5. PICK buf0 \in Bytes : /\ buf0 = appendLengthPrefixed(identityDomain, w.ClusterID)
                            /\ Len(buf0) <= d + m /\ d + m \in Nat
  BY <1>1, <1>2, <1>3, <1>4, AppendLen, ZenonT(60)
<1>6. PICK buf1 \in Bytes : /\ buf1 = appendLengthPrefixed(buf0, w.APIVersion)
                            /\ Len(buf1) <= (d + m) + m /\ (d + m) + m \in Nat
  BY <1>1, <1>4, <1>5, AppendLen, ZenonT(60)
<1>7. PICK buf2 \in Bytes : /\ buf2 = appendLengthPrefixed(buf1, w.Kind)
                            /\ Len(buf2) <= ((d + m) + m) + m /\ ((d + m) + m) + m \in Nat
  BY <1>1, <1>4, <1>6, AppendLen, ZenonT(60)
<1>8. PICK buf3 \in Bytes : /\ buf3 = appendLengthPrefixed(buf2, w.Namespace)
                            /\ Len(buf3) <= (((d + m) + m) + m) + m
                            /\ (((d + m) + m) + m) + m \in Nat
  BY <1>1, <1>4, <1>7, AppendLen, ZenonT(60)
<1>9. PICK buf4 \in Bytes : /\ buf4 = appendLengthPrefixed(buf3, w.Name)
                            /\ Len(buf4) <= ((((d + m) + m) + m) + m) + m
  BY <1>1, <1>4, <1>8, AppendLen, ZenonT(60)
<1>10. Encode(w) = buf4
  BY <1>5, <1>6, <1>7, <1>8, <1>9, ZenonT(60) DEF Encode, encodeFields
<1>11. maxEncodedLen = d + 5 * m
  BY <1>3, <1>4, ZenonT(60) DEF maxEncodedLen
<1>12. d + 5 * m = ((((d + m) + m) + m) + m) + m
  BY <1>4, SMT
<1> QED
  BY <1>9, <1>10, <1>11, <1>12, ZenonT(60)

\* What follows the version in a signed envelope.
Signed2(e) == Prefixed(e.UID) \o e.ConfigHash
Signed1(e) == Prefixed(Encode(e.Identity)) \o Signed2(e)
Signed(e) == BigEndian16(e.Version) \o Signed1(e)

LEMMA SignedType ==
  ASSUME NEW e \in EnvelopeV2, Validate(e.Identity)
  PROVE  /\ e.Identity \in WorkloadIdentityV2 /\ e.UID \in Bytes
         /\ e.ConfigHash \in Bytes /\ Encode(e.Identity) \in Bytes
         /\ BigEndian16(e.Version) \in Bytes /\ Len(BigEndian16(e.Version)) = 2
         /\ Signed2(e) \in Bytes /\ Signed1(e) \in Bytes /\ Signed(e) \in Bytes
<1>1. e.Identity \in WorkloadIdentityV2 /\ e.UID \in Bytes
  BY ZenonT(60) DEF EnvelopeV2
<1>2. e.ConfigHash \in Bytes
  <2>1. e.ConfigHash \in [1..HashLen -> Byte] /\ HashLen \in Nat
    BY EncodingAssumption DEF EnvelopeV2, Hash
  <2> QED
    BY <2>1 DEF Bytes
<1>3. Encode(e.Identity) \in Bytes
  BY <1>1, EncodeLen
<1>4. BigEndian16(e.Version) \in Bytes /\ Len(BigEndian16(e.Version)) = 2
  <2>1. e.Version \in Uint16
    BY DEF EnvelopeV2
  <2>2. e.Version \in Nat
    BY <2>1, Uint16Type
  <2> QED
    BY <2>2, BigEndian16Type
<1>5. Prefixed(e.UID) \in Bytes /\ Prefixed(Encode(e.Identity)) \in Bytes
  BY <1>1, <1>3, PrefixedType, SMTT(30)
<1>6. Signed2(e) \in Bytes
  BY <1>2, <1>5, ConcatType, ZenonT(60) DEF Signed2
<1>7. Signed1(e) \in Bytes
  BY <1>5, <1>6, ConcatType, ZenonT(60) DEF Signed1
<1>8. Signed(e) \in Bytes
  BY <1>4, <1>7, ConcatType, ZenonT(60) DEF Signed
<1> QED
  BY <1>1, <1>2, <1>3, <1>4, <1>6, <1>7, <1>8, SMTT(30)

LEMMA PreimageIsSigned ==
  ASSUME NEW e \in EnvelopeV2, Validate(e.Identity)
  PROVE  SigningPreimage(e) = envelopeDomain \o Signed(e)
<1>1. PICK number \in Bytes : number = BigEndian16(e.Version)
  BY SignedType
<1>2. PICK idEnc \in Bytes : idEnc = Encode(e.Identity)
  BY SignedType
<1>3. e.UID \in Bytes /\ e.ConfigHash \in Bytes /\ Signed2(e) \in Bytes /\ Signed1(e) \in Bytes
  BY SignedType
<1>4. envelopeDomain \in Bytes
  BY EncodingAssumption
<1>5. PICK versioned \in Bytes : versioned = envelopeDomain \o number
  BY <1>4, ConcatType, ZenonT(60)
<1>6. PICK named \in Bytes : named = appendLengthPrefixed(versioned, idEnc)
  BY AppendType, ZenonT(60)
<1>7. SigningPreimage(e) = appendLengthPrefixed(named, e.UID) \o e.ConfigHash
  BY <1>1, <1>2, <1>5, <1>6, ZenonT(60) DEF SigningPreimage
<1>8. appendLengthPrefixed(named, e.UID) \o e.ConfigHash = named \o Signed2(e)
  BY <1>3, AppendThen, ZenonT(60) DEF Signed2
<1>9. appendLengthPrefixed(versioned, idEnc) \o Signed2(e) = versioned \o (Prefixed(idEnc) \o Signed2(e))
  BY <1>3, AppendThen, ZenonT(60)
<1>10. named \o Signed2(e) = versioned \o Signed1(e)
  BY <1>2, <1>6, <1>9, ZenonT(60) DEF Signed1
<1>11. (envelopeDomain \o number) \o Signed1(e) = envelopeDomain \o (number \o Signed1(e))
  <2>1. Signed1(e) \in Bytes
    BY <1>3
  <2> QED
    BY <1>4, <2>1, ConcatAssoc, ZenonT(60)
<1> QED
  BY <1>1, <1>5, <1>7, <1>8, <1>10, <1>11, ZenonT(60) DEF Signed

\* What is signed is bound to all of it (envelope.go: SigningPreimage): two
\* envelopes of valid identities with the same signed bytes have the same
\* version, identity, UID and config hash.
THEOREM SigningPreimageInjective ==
  ASSUME NEW e \in EnvelopeV2, NEW f \in EnvelopeV2,
         Validate(e.Identity), Validate(f.Identity),
         Len(e.UID) <= maxUIDLen, Len(f.UID) <= maxUIDLen,
         SigningPreimage(e) = SigningPreimage(f)
  PROVE  e = f
<1>1. Signed(e) = Signed(f)
  <2>1. envelopeDomain \in Bytes /\ Signed(e) \in Bytes /\ Signed(f) \in Bytes
    BY EncodingAssumption, SignedType
  <2>2. envelopeDomain \o Signed(e) = envelopeDomain \o Signed(f)
    BY PreimageIsSigned, ZenonT(60)
  <2> QED
    BY <2>1, <2>2, SplitConcat, ZenonT(60)
<1>2. BigEndian16(e.Version) = BigEndian16(f.Version) /\ Signed1(e) = Signed1(f)
  <2>1. /\ BigEndian16(e.Version) \in Bytes /\ BigEndian16(f.Version) \in Bytes
        /\ Signed1(e) \in Bytes /\ Signed1(f) \in Bytes
    BY SignedType, ZenonT(60)
  <2>2. Len(BigEndian16(e.Version)) = Len(BigEndian16(f.Version))
    BY SignedType, ZenonT(60)
  <2>3. BigEndian16(e.Version) \o Signed1(e) = BigEndian16(f.Version) \o Signed1(f)
    BY <1>1, ZenonT(60) DEF Signed
  <2> QED
    BY <2>1, <2>2, <2>3, SplitConcat, ZenonT(60)
<1>3. e.Version = f.Version
  <2>1. e.Version \in Uint16 /\ f.Version \in Uint16
    BY ZenonT(60) DEF EnvelopeV2
  <2> QED
    BY <1>2, <2>1, Uint16Type, BigEndian16Injective, SMTT(30) DEF maxUint16
<1>4. Encode(e.Identity) = Encode(f.Identity) /\ Signed2(e) = Signed2(f)
  <2>1. /\ Encode(e.Identity) \in Bytes /\ Encode(f.Identity) \in Bytes
        /\ Signed2(e) \in Bytes /\ Signed2(f) \in Bytes
    BY SignedType, ZenonT(60)
  <2>2. Len(Encode(e.Identity)) <= Length31 /\ Len(Encode(f.Identity)) <= Length31
    <3>1. Len(Encode(e.Identity)) <= maxEncodedLen /\ Len(Encode(f.Identity)) <= maxEncodedLen
      BY SignedType, EncodeLen, ZenonT(60)
    <3>2. /\ Len(Encode(e.Identity)) \in Nat /\ Len(Encode(f.Identity)) \in Nat
          /\ maxEncodedLen \in Nat /\ Length31 \in Nat
      BY <2>1, LenType, MaxEncodedType, ZenonT(60)
    <3> QED
      BY <3>1, <3>2, MaxLen, SMTT(30)
  <2>3. Prefixed(Encode(e.Identity)) \o Signed2(e) = Prefixed(Encode(f.Identity)) \o Signed2(f)
    BY <1>2, ZenonT(60) DEF Signed1
  <2> QED
    BY <2>1, <2>2, <2>3, ReadField, ZenonT(60)
<1>5. e.Identity = f.Identity
  <2>1. e.Identity \in WorkloadIdentityV2 /\ f.Identity \in WorkloadIdentityV2
    BY SignedType, ZenonT(60)
  <2> QED
    BY <1>4, <2>1, EncodeInjective, ZenonT(60)
<1>6. e.UID = f.UID /\ e.ConfigHash = f.ConfigHash
  <2>1. /\ e.UID \in Bytes /\ f.UID \in Bytes
        /\ e.ConfigHash \in Bytes /\ f.ConfigHash \in Bytes
    BY SignedType, ZenonT(60)
  <2>2. Len(e.UID) <= Length31 /\ Len(f.UID) <= Length31
    <3>1. Len(e.UID) \in Nat /\ Len(f.UID) \in Nat
      BY <2>1, LenType, ZenonT(60)
    <3>2. maxUIDLen \in Nat /\ maxUIDLen <= Length31 /\ Length31 \in Nat
      BY EncodingAssumption, SMT DEF Length31
    <3> QED
      BY <3>1, <3>2, SMTT(30)
  <2>3. Prefixed(e.UID) \o e.ConfigHash = Prefixed(f.UID) \o f.ConfigHash
    BY <1>4, ZenonT(60) DEF Signed2
  <2> QED
    BY <2>1, <2>2, <2>3, ReadField, ZenonT(60)
<1> QED
  BY <1>3, <1>5, <1>6 DEF EnvelopeV2

\* A v1 signature is never one of a v2 envelope, nor the reverse: the signed
\* bytes of the two generations differ whatever they are about (version.go:
\* signingDomain and envelope.go: envelopeDomain).
THEOREM VersionsApart ==
  ASSUME NEW e \in EnvelopeV2, Validate(e.Identity),
         NEW version \in Uint16, NEW configHash \in Hash
  PROVE  SigningPreimage(e) # signingPreimageV1(version, configHash)
<1>1. PICK rest \in Bytes : SigningPreimage(e) = envelopeDomain \o rest
  BY SignedType, PreimageIsSigned, ZenonT(60)
<1>2. PICK tail \in Bytes : signingPreimageV1(version, configHash) = signingDomain \o tail
  <2>1. version \in Nat
    BY Uint16Type, ZenonT(60)
  <2>2. PICK number \in Bytes : number = BigEndian16(version)
    BY <2>1, BigEndian16Type
  <2>3. configHash \in Bytes
    BY EncodingAssumption DEF Hash, Bytes
  <2>4. signingDomain \in Bytes
    BY EncodingAssumption
  <2>5. number \o configHash \in Bytes
    BY <2>3, ConcatType
  <2>6. (signingDomain \o number) \o configHash = signingDomain \o (number \o configHash)
    BY <2>3, <2>4, ConcatAssoc, ZenonT(60)
  <2> QED
    BY <2>2, <2>5, <2>6, ZenonT(60) DEF signingPreimageV1
<1>3. PICK i \in 1..Len(envelopeDomain) :
        i <= Len(signingDomain) /\ envelopeDomain[i] # signingDomain[i]
  BY DomainAssumption
<1>4. envelopeDomain \in Bytes /\ signingDomain \in Bytes
  BY EncodingAssumption
<1>5. (envelopeDomain \o rest)[i] = envelopeDomain[i]
  BY <1>3, <1>4, ConcatProperties, LenType, SMTT(30) DEF Bytes
<1>6. (signingDomain \o tail)[i] = signingDomain[i]
  BY <1>3, <1>4, ConcatProperties, LenType, SMTT(30) DEF Bytes
<1> QED
  BY <1>1, <1>2, <1>3, <1>5, <1>6, ZenonT(60)

-----------------------------------------------------------------------------
(***************************************************************************)
(* What was attested and what is observed, in Attest.                      *)
(***************************************************************************)

AdmittedInv == Admitted(attested) /\ Admitted(now)

LEMMA AdmittedInit == Init => AdmittedInv
  BY AttestAssumption DEF Init, AdmittedInv

LEMMA AdmittedNext == AdmittedInv /\ [Next]_attestVars => AdmittedInv'
<1> SUFFICES ASSUME AdmittedInv, [Next]_attestVars PROVE AdmittedInv'
  BY ZenonT(60)
<1>1. CASE UNCHANGED attestVars
  BY <1>1, ZenonT(60) DEF attestVars, AdmittedInv
<1>2. ASSUME NEW f \in DOMAIN Variants, Edit(f) PROVE AdmittedInv'
  <2>1. PICK v \in Variants[f] : now' = [now EXCEPT ![f] = v] /\ UNCHANGED attested
    BY <1>2, ZenonT(60) DEF Edit
  <2>2. Allowed(f, v)
    BY AttestAssumption, ZenonT(60)
  <2>3. DOMAIN now' = DOMAIN now
    BY <2>1, ZenonT(60)
  <2>4. \A g \in DOMAIN now : now'[g] = IF g = f THEN v ELSE now[g]
    BY <2>1, ZenonT(60)
  <2>5. \A g \in DOMAIN now : Allowed(g, now'[g])
    BY <2>2, <2>4, ZenonT(60) DEF AdmittedInv, Admitted
  <2> QED
    BY <2>1, <2>3, <2>5, ZenonT(60) DEF AdmittedInv, Admitted
<1> QED
  BY <1>1, <1>2, ZenonT(60) DEF Next

LEMMA AdmittedFields ==
  ASSUME NEW d, Admitted(d)
  PROVE  /\ d.ClusterID \in Bytes /\ d.APIVersion \in Bytes /\ d.Kind \in Bytes
         /\ d.Namespace \in Bytes /\ d.Name \in Bytes /\ d.UID \in Bytes
         /\ Len(d.UID) <= maxUIDLen
         /\ \A i \in 1..Len(d.Namespace) : d.Namespace[i] # Slash
  BY DEF Admitted, Allowed, identityFields

LEMMA VersionType == V1 \in Uint16 /\ V2 \in Uint16
<1>1. maxUint16 \in Nat /\ 2 <= maxUint16
  BY DEF maxUint16
<1> QED
  BY <1>1 DEF V1, V2, Uint16

LEMMA EnvelopeType ==
  ASSUME NEW d, Admitted(d)
  PROVE  /\ Identity(d) \in WorkloadIdentityV2
         /\ envelope(d) \in EnvelopeV2
         /\ envelope(d).Identity = Identity(d) /\ envelope(d).UID = d.UID
         /\ envelope(d).ConfigHash = hashBytes(d) /\ hashBytes(d) \in Hash
<1>1. Identity(d) \in WorkloadIdentityV2
  BY AdmittedFields, ZenonT(60) DEF Identity, WorkloadIdentityV2
<1>2. hashBytes(d) \in Hash
  BY DEF hashBytes, Hash, Byte
<1>3. V2 \in Uint16
  BY VersionType, ZenonT(60)
<1>4. d.UID \in Bytes
  BY AdmittedFields, ZenonT(60)
<1> QED
  BY <1>1, <1>2, <1>3, <1>4, SMTT(30) DEF envelope, EnvelopeV2

\* Validate refuses an identity with an empty or an oversized field.
LEMMA ValidateIs ==
  ASSUME NEW d, Admitted(d)
  PROVE  Validate(Identity(d)) <=> \A f \in identityFields : Len(d[f]) \in 1..maxFieldLen
<1>1. ASSUME NEW f \in identityFields
      PROVE  /\ f \in DOMAIN Identity(d) /\ Identity(d)[f] = d[f]
             /\ Len(d[f]) \in 1..maxFieldLen <=> d[f] # << >> /\ Len(d[f]) <= maxFieldLen
  <2>1. f \in DOMAIN Identity(d) /\ Identity(d)[f] = d[f]
    BY DEF Identity, identityFields
  <2>2. d[f] \in Bytes
    BY ZenonT(60) DEF Admitted, Allowed
  <2>3. Len(d[f]) \in Nat /\ (d[f] = << >> <=> Len(d[f]) = 0)
    BY <2>2 DEF Bytes
  <2>4. maxFieldLen \in Nat
    BY EncodingAssumption
  <2> QED
    BY <2>1, <2>3, <2>4, SMTT(30)
<1>2. DOMAIN Identity(d) = identityFields
  BY DEF Identity, identityFields
<1> QED
  BY <1>1, <1>2, ZenonT(60) DEF Validate

LEMMA DigestInjective ==
  ASSUME NEW a, NEW b, sha256(a) = sha256(b)
  PROVE  a = b
  BY DEF sha256

\* namespace/name is read back where the namespace has no slash.
LEMMA SlashSplits ==
  ASSUME NEW a \in Bytes, NEW b \in Bytes, NEW m \in Bytes, NEW n \in Bytes,
         \A i \in 1..Len(a) : a[i] # Slash, \A i \in 1..Len(b) : b[i] # Slash,
         (a \o <<Slash>>) \o m = (b \o <<Slash>>) \o n
  PROVE  a = b /\ m = n
<1>1. <<Slash>> \in Bytes /\ Len(<<Slash>>) = 1
  BY DEF Bytes, Byte, Slash
<1>2. PICK x \in Bytes : x = a \o <<Slash>> /\ Len(x) = Len(a) + 1
  BY <1>1, ConcatType, ZenonT(60)
<1>3. PICK y \in Bytes : y = b \o <<Slash>> /\ Len(y) = Len(b) + 1
  BY <1>1, ConcatType, ZenonT(60)
<1>4. Len(a) \in Nat /\ Len(b) \in Nat /\ Len(m) \in Nat /\ Len(n) \in Nat
  BY LenType, ZenonT(60)
<1>5. /\ x[Len(a) + 1] = Slash /\ \A i \in 1..Len(a) : x[i] = a[i]
      /\ y[Len(b) + 1] = Slash /\ \A i \in 1..Len(b) : y[i] = b[i]
  BY <1>2, <1>3, <1>4, SMTT(30) DEF Bytes
<1>6. /\ \A i \in 1..Len(x) : (x \o m)[i] = x[i]
      /\ \A i \in 1..Len(y) : (y \o n)[i] = y[i]
  BY <1>2, <1>3, <1>4, SMTT(30) DEF Bytes
<1>7. x \o m = y \o n
  BY <1>2, <1>3, ZenonT(60)
<1>8. ~ Len(a) < Len(b)
  <2> SUFFICES ASSUME Len(a) < Len(b) PROVE FALSE
    BY ZenonT(60)
  <2>1. PICK k : k = Len(a) + 1
    BY ZenonT(60)
  <2>2. k \in 1..Len(b) /\ k \in 1..Len(x) /\ k \in 1..Len(y)
    BY <1>2, <1>3, <1>4, <2>1, SMTT(30)
  <2>3. x[k] = Slash /\ y[k] = b[k] /\ b[k] # Slash
    BY <1>5, <2>1, <2>2, SMTT(30)
  <2>4. (x \o m)[k] = x[k] /\ (y \o n)[k] = y[k]
    BY <1>6, <2>2, ZenonT(60)
  <2> QED
    BY <1>7, <2>3, <2>4, ZenonT(60)
<1>9. ~ Len(b) < Len(a)
  <2> SUFFICES ASSUME Len(b) < Len(a) PROVE FALSE
    BY ZenonT(60)
  <2>1. PICK k : k = Len(b) + 1
    BY ZenonT(60)
  <2>2. k \in 1..Len(a) /\ k \in 1..Len(y) /\ k \in 1..Len(x)
    BY <1>2, <1>3, <1>4, <2>1
  <2>3. y[k] = Slash /\ x[k] = a[k] /\ a[k] # Slash
    BY <1>5, <2>1, <2>2, ZenonT(60)
  <2>4. (y \o n)[k] = y[k] /\ (x \o m)[k] = x[k]
    BY <1>6, <2>2, ZenonT(60)
  <2> QED
    BY <1>7, <2>3, <2>4, ZenonT(60)
<1>10. Len(a) = Len(b)
  BY <1>4, <1>8, <1>9, SMTT(30)
<1>11. Len(x) = Len(y)
  BY <1>2, <1>3, <1>10, ZenonT(60)
<1>12. x = y /\ m = n
  BY <1>7, <1>11, SplitConcat, ZenonT(60)
<1>13. a \o <<Slash>> = b \o <<Slash>>
  BY <1>2, <1>3, <1>12, ZenonT(60)
<1>14. a = b
  <2>1. PICK slash \in Bytes : slash = <<Slash>>
    BY <1>1, ZenonT(60)
  <2>2. a \o slash = b \o slash
    BY <1>13, <2>1, ZenonT(60)
  <2> QED
    BY <1>10, <2>2, SplitConcat, ZenonT(60)
<1> QED
  BY <1>12, <1>14, ZenonT(60)

\* Two workloads have one slot of the v2 registry only when they are one, and
\* one slot of the v1 registry only when namespace and name agree; incarnations
\* are told apart by the UID (WorkloadID, DeploymentID, Incarnation).  This
\* holds for fields and names of every length, if no namespace has a "/".
THEOREM SlotIsWorkloadThm == Spec => []SlotIsWorkload
<1>1. AdmittedInv => SlotIsWorkload
  <2> SUFFICES ASSUME AdmittedInv PROVE SlotIsWorkload
    BY ZenonT(60)
  <2>1. PICK v \in WorkloadIdentityV2, w \in WorkloadIdentityV2 : v = Identity(now) /\ w = Identity(attested)
    BY EnvelopeType, ZenonT(60) DEF AdmittedInv
  <2>2. ASSUME Validate(v), Validate(w), WorkloadID(v) = WorkloadID(w) PROVE v = w
    <3>1. Encode(v) = Encode(w)
      BY <2>2, DigestInjective, ZenonT(60) DEF WorkloadID
    <3> QED
      BY <2>2, <3>1, EncodeInjective, ZenonT(60)
  <2>3. PICK a \in Bytes, m \in Bytes, b \in Bytes, n \in Bytes :
          /\ a = now.Namespace /\ m = now.Name /\ b = attested.Namespace /\ n = attested.Name
          /\ \A i \in 1..Len(a) : a[i] # Slash
          /\ \A i \in 1..Len(b) : b[i] # Slash
    BY AdmittedFields DEF AdmittedInv
  <2>4. ASSUME DeploymentID(a, m) = DeploymentID(b, n) PROVE a = b /\ m = n
    <3>1. (a \o <<Slash>>) \o m = (b \o <<Slash>>) \o n
      BY <2>4, ZenonT(60) DEF DeploymentID, sha256
    <3>2. (\A i \in 1..Len(a) : a[i] # Slash) /\ (\A i \in 1..Len(b) : b[i] # Slash)
      BY <2>3, ZenonT(60)
    <3> QED
      BY <3>1, <3>2, SlashSplits, ZenonT(60)
  <2>5. PICK s \in Bytes, t \in Bytes : s = now.UID /\ t = attested.UID
    BY AdmittedFields DEF AdmittedInv
  <2>6. /\ Incarnation(envelope(now)) = (IF s = << >> THEN zeroDigest ELSE sha256(incarnationDomain \o s))
        /\ Incarnation(envelope(attested)) = (IF t = << >> THEN zeroDigest ELSE sha256(incarnationDomain \o t))
    BY <2>5, EnvelopeType DEF AdmittedInv, Incarnation
  <2>7. incarnationDomain \in Bytes
    BY EncodingAssumption
  <2>8. sha256(incarnationDomain \o s) = sha256(incarnationDomain \o t) => s = t
    BY <2>7, DigestInjective, SplitConcat, ZenonT(60)
  <2>9. sha256(incarnationDomain \o s) # zeroDigest /\ sha256(incarnationDomain \o t) # zeroDigest
    <3>1. incarnationDomain \o s # Nil /\ incarnationDomain \o t # Nil
      BY <2>7, ConcatType, NilAssumption, ZenonT(60)
    <3> QED
      BY <3>1, ZenonT(60) DEF sha256, zeroDigest
  <2>10. Incarnation(envelope(now)) = Incarnation(envelope(attested)) <=> s = t
    BY <2>6, <2>8, <2>9
  <2> QED
    BY <2>1, <2>2, <2>3, <2>4, <2>5, <2>10, SMTT(30) DEF SlotIsWorkload
<1> QED
  BY <1>1, AdmittedInit, AdmittedNext, PTL DEF Spec

\* A v2 signature is for one workload in one cluster, one incarnation and one
\* v2 hash, and is none of v1's: the envelope's encoding loses nothing, whatever
\* the lengths of its fields (SigningPreimage, Validate).
THEOREM SignatureBindsEnvelopeThm == Spec => []SignatureBindsEnvelope
<1>1. AdmittedInv => SignatureBindsEnvelope
  <2> SUFFICES ASSUME AdmittedInv PROVE SignatureBindsEnvelope
    BY ZenonT(60)
  <2> DEFINE e == envelope(now)
             f == envelope(attested)
  <2>1. /\ e \in EnvelopeV2 /\ e.Identity = Identity(now) /\ e.UID = now.UID
        /\ e.ConfigHash = hashBytes(now) /\ hashBytes(now) \in Hash
    BY EnvelopeType, ZenonT(60) DEF AdmittedInv
  <2>2. /\ f \in EnvelopeV2 /\ f.Identity = Identity(attested) /\ f.UID = attested.UID
        /\ f.ConfigHash = hashBytes(attested)
    BY EnvelopeType, ZenonT(60) DEF AdmittedInv
  <2>3. e.Version = f.Version
    BY ZenonT(60) DEF envelope
  <2>4. Len(e.UID) <= maxUIDLen /\ Len(f.UID) <= maxUIDLen
    BY <2>1, <2>2, AdmittedFields, ZenonT(60) DEF AdmittedInv
  <2>5. hashBytes(now) = hashBytes(attested)
          <=> ConfigHashForVersion(V2, now) = ConfigHashForVersion(V2, attested)
    <3>1. 1 \in 1..HashLen
      BY EncodingAssumption
    <3>2. hashBytes(attested)[1] = 0
      BY <3>1 DEF hashBytes
    <3>3. hashBytes(now)[1] = 0 <=> ConfigHashForVersion(V2, now) = ConfigHashForVersion(V2, attested)
      BY <3>1 DEF hashBytes
    <3>4. ConfigHashForVersion(V2, now) = ConfigHashForVersion(V2, attested)
            => hashBytes(now) = hashBytes(attested)
      BY DEF hashBytes
    <3> QED
      BY <3>2, <3>3, <3>4, SMTT(30)
  <2> HIDE DEF e, f
  <2>6. \A b \in Bytes : sha256(b) # Nil
    BY NilAssumption DEF sha256
  <2>7. ASSUME Validate(e.Identity) PROVE SigningPreimage(e) \in Bytes /\ SigningDigestV2(e) # Nil
    <3>1. Signed(e) \in Bytes /\ envelopeDomain \in Bytes
      BY <2>1, <2>7, SignedType, EncodingAssumption, SMTT(30)
    <3>2. SigningPreimage(e) \in Bytes
      BY <2>1, <2>7, <3>1, PreimageIsSigned, ConcatType, ZenonT(60)
    <3> QED
      BY <2>6, <2>7, <3>2, SMTT(30) DEF SigningDigestV2
  <2>8. SigningDigestV2(e) = Nil <=> \E g \in identityFields : Len(now[g]) \notin 1..maxFieldLen
    BY <2>1, <2>7, ValidateIs DEF SigningDigestV2, AdmittedInv
  <2>9. ASSUME SigningDigestV2(e) # Nil, SigningDigestV2(f) # Nil
        PROVE  SigningDigestV2(e) = SigningDigestV2(f) <=> e = f
    <3>1. Validate(e.Identity) /\ Validate(f.Identity)
      BY <2>9 DEF SigningDigestV2
    <3>2. ASSUME SigningDigestV2(e) = SigningDigestV2(f) PROVE e = f
      <4>1. SigningPreimage(e) = SigningPreimage(f)
        BY <3>1, <3>2, DigestInjective, SMTT(30) DEF SigningDigestV2
      <4>2. e \in EnvelopeV2 /\ f \in EnvelopeV2
        BY <2>1, <2>2, SMTT(30)
      <4> QED
        BY <2>4, <3>1, <4>1, <4>2, SigningPreimageInjective, SMTT(30)
    <3> QED
      BY <3>2
  <2>10. e = f <=> e.Identity = f.Identity /\ e.UID = f.UID /\ e.ConfigHash = f.ConfigHash
    BY <2>1, <2>2, <2>3, SMTT(30) DEF EnvelopeV2
  <2>11. ASSUME NEW v \in {V1, V2} PROVE SigningDigestV2(e) # SigningDigestV1(v, hashBytes(now))
    <3>1. v \in Uint16
      BY VersionType
    <3>2. CASE Validate(e.Identity)
      <4>1. SigningPreimage(e) # signingPreimageV1(v, hashBytes(now))
        BY <2>1, <3>1, <3>2, VersionsApart, SMTT(30)
      <4> QED
        BY <3>2, <4>1, DigestInjective, SMTT(30) DEF SigningDigestV2, SigningDigestV1
    <3>3. CASE ~ Validate(e.Identity)
      <4>1. signingPreimageV1(v, hashBytes(now)) \in Bytes
        <5>1. PICK number \in Bytes : number = BigEndian16(v)
          BY <3>1, BigEndian16Type, Uint16Type, SMTT(30)
        <5>2. hashBytes(now) \in Bytes /\ signingDomain \in Bytes
          <6>1. hashBytes(now) \in [1..HashLen -> Byte] /\ HashLen \in Nat
            BY <2>1, EncodingAssumption DEF Hash
          <6> QED
            BY <6>1, EncodingAssumption, SMTT(30) DEF Bytes
        <5> QED
          BY <5>1, <5>2, ConcatType, SMTT(30) DEF signingPreimageV1
      <4> QED
        BY <2>6, <3>3, <4>1, ZenonT(60) DEF SigningDigestV2, SigningDigestV1
    <3> QED
      BY <3>2, <3>3, ZenonT(60)
  <2> QED
    BY <2>1, <2>2, <2>5, <2>8, <2>9, <2>10, <2>11, SMTT(30) DEF SignatureBindsEnvelope, e, f
<1> QED
  BY <1>1, AdmittedInit, AdmittedNext, PTL DEF Spec
=============================================================================
