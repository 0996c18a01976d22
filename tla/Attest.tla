------------------------------- MODULE Attest -------------------------------
(***************************************************************************)
(* What a hash and a signature say about a workload: a Deployment that was *)
(* attested, and the same Deployment, or another one, observed later.      *)
(* Rewriting by the API server and by tools, and real changes, are both    *)
(* edits; the hash has to tell them apart.                                 *)
(***************************************************************************)
EXTENDS Normalize, FiniteSets

CONSTANTS Bases,     \* the Deployments attested
          Variants,  \* the values each field may take
          MaxDrift,  \* a bound on the fields that differ
          MaxScale   \* a bound on the scale of a quantity

identityFields == {"ClusterID", "APIVersion", "Kind", "Namespace", "Name"}

\* What the API server and the flags let through: names have no "/", and a UID
\* fits its length prefix.
Allowed(f, v) ==
  /\ f \in identityFields \cup {"UID"} => v \in Bytes
  /\ f \in {"Namespace", "Name"} => \A i \in 1..Len(v) : v[i] # Slash
  /\ f = "UID" => Len(v) <= maxUIDLen

Admitted(d) ==
  /\ identityFields \cup {"UID"} \subseteq DOMAIN d
  /\ \A f \in DOMAIN d : Allowed(f, d[f])

ASSUME AttestAssumption ==
  /\ \A d \in Bases : Admitted(d)
  /\ \A f \in DOMAIN Variants : \A v \in Variants[f] : Allowed(f, v)

VARIABLES attested, now
attestVars == <<attested, now>>

Init == attested \in Bases /\ now = attested

\* Somebody or something writes one field.
Edit(f) ==
  \E v \in Variants[f] :
    /\ v # now[f]
    /\ now' = [now EXCEPT ![f] = v]
    /\ Cardinality({g \in DOMAIN now : now'[g] # attested[g]}) <= MaxDrift
    /\ UNCHANGED attested

Next == \E f \in DOMAIN Variants : Edit(f)

Spec == Init /\ [][Next]_attestVars

-----------------------------------------------------------------------------
(***************************************************************************)
(* What a configuration is, without sorting or rendering anything.         *)
(***************************************************************************)

Pairs(m) == {<<k, entries(m)[k]>> : k \in DOMAIN entries(m)}
UserPairs(m) == {p \in Pairs(m) : p[1] \notin generatedLabelKeys}

Amounts(rl) == {<<p[1], p[2].unscaled * 10^(MaxScale - p[2].scale)>> : p \in Pairs(rl)}

\* A selector's requirements and their values as sets that may repeat, and as
\* they were declared.
SelectorMeaning(sel) ==
  LET requirement(r) == <<r.Key, r.Operator, ToBag(entries(r.Values))>> IN
  IF sel = Nil THEN <<{ }, ToBag(<< >>)>>
  ELSE <<Pairs(sel.MatchLabels), ToBag(MapSeq(requirement, entries(sel.MatchExpressions)))>>

SelectorDeclared(sel) ==
  LET requirement(r) == <<r.Key, r.Operator, entries(r.Values)>> IN
  IF sel = Nil THEN <<{ }, << >> >>
  ELSE <<Pairs(sel.MatchLabels), MapSeq(requirement, entries(sel.MatchExpressions))>>

\* Both versions: who, and how labelled.
Common(d) == <<d.Namespace, d.Name, UserPairs(d.Labels), UserPairs(d.TemplateLabels)>>

Resources(c) == <<Amounts(c.Resources.Requests), Amounts(c.Resources.Limits)>>

\* v1: containers, the names of their variables and the selector in no order.
MeaningV1(d) ==
  LET container(c) ==
        <<c.Name, c.Image, ToBag(MapSeq(LAMBDA e : e.Name, entries(c.Env))), Resources(c)>>
  IN  <<Common(d), SelectorMeaning(d.Selector), IF d.Replicas = Nil THEN 1 ELSE d.Replicas,
        {container(d.Containers[i]) : i \in DOMAIN d.Containers}>>

\* v2: every list in its order, a variable's source but not its value, and
\* all that v2 copies; nil and empty are the same.
MeaningV2(d) ==
  LET container(c) ==
        <<c.Name, c.Image, entries(c.lists), MapSeq(LAMBDA e : <<e.Name, e.ValueFrom>>, entries(c.Env)),
          Resources(c), c.verbatim>>
      containers(cs) == MapSeq(container, entries(cs))
  IN  <<Common(d), SelectorDeclared(d.Selector), containers(d.InitContainers), containers(d.Containers),
        entries(d.podLists), Pairs(d.NodeSelector), d.podVerbatim>>

\* The selector is not the attested one in another order.
NotReordered ==
  SelectorMeaning(now.Selector) = SelectorMeaning(attested.Selector)
    => SelectorDeclared(now.Selector) = SelectorDeclared(attested.Selector)

Identity(d) == [ClusterID |-> d.ClusterID, APIVersion |-> d.APIVersion, Kind |-> d.Kind,
                Namespace |-> d.Namespace, Name |-> d.Name]

\* The 32 bytes of a digest.  Only two are ever compared, so one bit tells
\* them apart.
hashBytes(d) ==
  [i \in 1..HashLen |->
     IF ConfigHashForVersion(V2, d) = ConfigHashForVersion(V2, attested) THEN 0 ELSE 1]

envelope(d) == [Version |-> V2, Identity |-> Identity(d), UID |-> d.UID, ConfigHash |-> hashBytes(d)]

-----------------------------------------------------------------------------

\* A v1 hash is equal exactly when the configuration v1 covers is: it does not
\* depend on list order, notation of quantities, generated labels, omitted
\* defaults, or nil against empty (Normalize), and it hides no change.
V1HashIsConfig ==
  ConfigHashForVersion(V1, now) = ConfigHashForVersion(V1, attested)
    <=> MeaningV1(now) = MeaningV1(attested)

\* A v2 hash is equal exactly when the configuration v2 covers is, with every
\* list in its declared order, as NormalizeV2 says of itself; except for a
\* selector that is only reordered, where the code does otherwise: v2 shares
\* v1's normalizeSelector, which sorts requirements and values.
V2HashIsConfig ==
  NotReordered =>
    (ConfigHashForVersion(V2, now) = ConfigHashForVersion(V2, attested)
      <=> MeaningV2(now) = MeaningV2(attested))

\* A v2 signature is for one workload in one cluster, one incarnation and one
\* v2 hash: no other envelope has its digest, nor has anything v1 signs.  An
\* identity with an empty or oversized field is refused (SigningPreimage,
\* Validate).
SignatureBindsEnvelope ==
  /\ (SigningDigestV2(envelope(now)) = Nil)
       <=> \E f \in identityFields : Len(now[f]) \notin 1..maxFieldLen
  /\ SigningDigestV2(envelope(now)) # Nil /\ SigningDigestV2(envelope(attested)) # Nil =>
       (SigningDigestV2(envelope(now)) = SigningDigestV2(envelope(attested))
         <=> /\ Identity(now) = Identity(attested) /\ now.UID = attested.UID
             /\ ConfigHashForVersion(V2, now) = ConfigHashForVersion(V2, attested))
  /\ \A v \in {V1, V2} : SigningDigestV2(envelope(now)) # SigningDigestV1(v, hashBytes(now))

\* Two workloads share a slot of the v2 registry only when they are one, and a
\* slot of the v1 registry only when namespace and name agree, which rests on
\* names without "/"; incarnations are told apart by the UID, and the zero
\* incarnation is the empty UID's alone (WorkloadID, DeploymentID, Incarnation).
SlotIsWorkload ==
  /\ Validate(Identity(now)) /\ Validate(Identity(attested)) =>
       (WorkloadID(Identity(now)) = WorkloadID(Identity(attested)) <=> Identity(now) = Identity(attested))
  /\ DeploymentID(now.Namespace, now.Name) = DeploymentID(attested.Namespace, attested.Name)
       <=> now.Namespace = attested.Namespace /\ now.Name = attested.Name
  /\ Incarnation(envelope(now)) = Incarnation(envelope(attested)) <=> now.UID = attested.UID
=============================================================================
