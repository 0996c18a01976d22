----------------------------- MODULE Normalize ------------------------------
(***************************************************************************)
(* What a config hash is taken of: src/internal/attest/normalize.go,       *)
(* normalize_v2.go, types.go, types_v2.go, hash.go and version.go.         *)
(*                                                                         *)
(* Names, keys and values are numbers, ordered as strings are.  A slice is *)
(* a sequence and a map a function; Nil is the nil slice, map or pointer.  *)
(* The fields a normaliser copies as they are stand as one, verbatim, and  *)
(* so do the nil-able slices and maps it only makes non-nil, lists.        *)
(***************************************************************************)
EXTENDS Envelope, SequencesExt

CONSTANT generatedLabelKeys  \* keys written by controllers and tooling

V1 == 1
V2 == 2
defaultReplicas == 1

\* Ranging over a nil slice or map visits nothing.
entries(in) == IF in = Nil THEN << >> ELSE in

less(a, b) == a < b

MapSeq(Op(_), s) == [i \in DOMAIN s |-> Op(s[i])]

-----------------------------------------------------------------------------

filterLabels(in) ==
  [k \in DOMAIN entries(in) \ generatedLabelKeys |-> entries(in)[k]]

lessStrings(a, b) ==
  \/ \E i \in DOMAIN a \cap DOMAIN b : a[i] < b[i] /\ \A j \in 1..(i - 1) : a[j] = b[j]
  \/ Len(a) < Len(b) /\ \A i \in DOMAIN a : a[i] = b[i]

\* A bug: requirements of one key and operator keep the order of the manifest.
lessKeyAndOperator(a, b) == a.Key < b.Key \/ (a.Key = b.Key /\ a.Operator < b.Operator)

lessRequirement(a, b) ==
  \/ a.Key < b.Key
  \/ a.Key = b.Key /\ a.Operator < b.Operator
  \/ a.Key = b.Key /\ a.Operator = b.Operator /\ lessStrings(a.Values, b.Values)

normalizeSelector(sel) ==
  IF sel = Nil THEN [MatchLabels |-> << >>, MatchExpressions |-> << >>]
  ELSE LET sorted(req) == [req EXCEPT !.Values = SortSeq(entries(@), less)]
       IN  [MatchLabels |-> entries(sel.MatchLabels),
            MatchExpressions |-> SortSeq(MapSeq(sorted, entries(sel.MatchExpressions)), lessRequirement)]

\* The decimal an inf.Dec prints: its digits and the place of the point.
decString(unscaled, scale) ==
  IF scale <= 0 THEN <<unscaled * 10^(-scale), 0>> ELSE <<unscaled, scale>>

\* The loop that drops trailing zeros of the fraction.
stripZeros[q \in Nat \X Int] ==
  IF q[2] > 0 /\ q[1] # 0 /\ q[1] % 10 = 0 THEN stripZeros[<<q[1] \div 10, q[2] - 1>>] ELSE q

canonicalQuantity(q) ==
  LET stripped == stripZeros[<<q.unscaled, q.scale>>]
  IN  IF stripped[1] = 0 THEN <<0, 0>> ELSE decString(stripped[1], stripped[2])

quantityMap(rl) == [name \in DOMAIN entries(rl) |-> canonicalQuantity(rl[name])]

normalizeResources(r) == [Requests |-> quantityMap(r.Requests), Limits |-> quantityMap(r.Limits)]

envNames(env) == SortSeq(MapSeq(LAMBDA e : e.Name, entries(env)), less)

normalizeContainers(cs) ==
  LET normalized(c) == [Name |-> c.Name, Image |-> c.Image, EnvNames |-> envNames(c.Env),
                        Resources |-> normalizeResources(c.Resources)]
  IN  SortSeq(MapSeq(normalized, entries(cs)), LAMBDA a, b : a.Name < b.Name)

Normalize(d) ==
  [Namespace |-> d.Namespace, Name |-> d.Name, Labels |-> filterLabels(d.Labels),
   Replicas |-> IF d.Replicas = Nil THEN defaultReplicas ELSE d.Replicas,
   Selector |-> normalizeSelector(d.Selector),
   PodTemplateLabels |-> filterLabels(d.TemplateLabels),
   Containers |-> normalizeContainers(d.Containers)]

-----------------------------------------------------------------------------

nonNilSlice(in) == IF in = Nil THEN << >> ELSE in
nonNilMap(in) == IF in = Nil THEN << >> ELSE in

normalizeEnvRefs(env) ==
  MapSeq(LAMBDA e : [Name |-> e.Name, Literal |-> e.ValueFrom = Nil, ValueFrom |-> e.ValueFrom],
         entries(env))

normalizeContainerV2(c) ==
  [Name |-> c.Name, Image |-> c.Image, lists |-> nonNilSlice(c.lists), Env |-> normalizeEnvRefs(c.Env),
   Resources |-> normalizeResources(c.Resources), verbatim |-> c.verbatim]

\* A bug: containers are sorted, as in v1.
sortContainersV2(cs) ==
  SortSeq(MapSeq(normalizeContainerV2, entries(cs)), LAMBDA a, b : a.Name < b.Name)

normalizeContainersV2(cs) == MapSeq(normalizeContainerV2, entries(cs))

NormalizeV2(d) ==
  [Namespace |-> d.Namespace, Name |-> d.Name, Labels |-> filterLabels(d.Labels),
   Selector |-> normalizeSelector(d.Selector),
   PodTemplateLabels |-> filterLabels(d.TemplateLabels),
   Pod |-> [InitContainers |-> normalizeContainersV2(d.InitContainers),
            Containers |-> normalizeContainersV2(d.Containers),
            lists |-> nonNilSlice(d.podLists), NodeSelector |-> nonNilMap(d.NodeSelector),
            verbatim |-> d.podVerbatim]]

-----------------------------------------------------------------------------

\* encoding/json: an object lists the entries of a map by increasing key.
jsonObject(m) == MapSeq(LAMBDA k : <<k, m[k]>>, SetToSortSeq(DOMAIN m, less))

jsonContainer(c) ==
  [c EXCEPT !.Resources = [Requests |-> jsonObject(@.Requests), Limits |-> jsonObject(@.Limits)]]

\* The maps both versions have.
jsonLabels(nd) ==
  [nd EXCEPT !.Labels = jsonObject(@), !.PodTemplateLabels = jsonObject(@),
             !.Selector.MatchLabels = jsonObject(@)]

CanonicalJSON(nd) == [jsonLabels(nd) EXCEPT !.Containers = MapSeq(jsonContainer, @)]

CanonicalJSONV2(nd) ==
  [jsonLabels(nd) EXCEPT !.Pod.Containers = MapSeq(jsonContainer, @),
                         !.Pod.InitContainers = MapSeq(jsonContainer, @),
                         !.Pod.NodeSelector = jsonObject(@)]

ConfigHash(nd) == sha256(CanonicalJSON(nd))
ConfigHashV2(nd) == sha256(CanonicalJSONV2(nd))

Supported(v) == v \in {V1, V2}

ConfigHashForVersion(v, d) ==
  CASE v = V1 -> ConfigHash(Normalize(d))
    [] v = V2 -> ConfigHashV2(NormalizeV2(d))
    [] OTHER  -> Nil
=============================================================================
