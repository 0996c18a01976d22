----------------------------- MODULE MCAttest -------------------------------
(***************************************************************************)
(* Bounds for Attest.  Label keys: 1 and 2 are the user's, 9 is generated. *)
(* The strings are short and share prefixes, so that fields can only be    *)
(* told apart by their lengths.                                            *)
(***************************************************************************)
EXTENDS Attest

MCidentityDomain == <<1>>
MCincarnationDomain == <<2>>
MCenvelopeDomain == <<3, 0>>
MCsigningDomain == <<3, 1>>
MCgenerated == {9}

EmptyMap == << >>
map1(k, v) == [x \in {k} |-> v]
map2(k, v, l, w) == [x \in {k, l} |-> IF x = k THEN v ELSE w]

quantity(u, s) == [unscaled |-> u, scale |-> s]
amounts(u, s) == [Requests |-> map1(1, quantity(u, s)), Limits |-> Nil]
both(u, s) == [Requests |-> map1(1, quantity(1, 0)), Limits |-> map2(1, quantity(u, s), 2, quantity(2, 1))]

env(n, from) == [Name |-> n, Value |-> 0, ValueFrom |-> from]
container(n, image, lists, e, r) ==
  [Name |-> n, Image |-> image, lists |-> lists, Env |-> e, Resources |-> r, verbatim |-> 0]

c1 == container(1, 1, <<1>>, <<env(1, Nil), env(2, 5)>>, amounts(250, 3))
c2 == container(2, 1, Nil, Nil, both(10, 0))

req(k, o, vs) == [Key |-> k, Operator |-> o, Values |-> vs]
selector(rs) == [MatchLabels |-> map1(1, 1), MatchExpressions |-> rs]

\* 0.250 = 0.25 = 25e-2, 10 = 1e1, 1000 = 1k; 0 = 0.0; 25 is another value.
Quantities == {amounts(250, 3), amounts(25, 2), amounts(25, 0), amounts(1, -1), amounts(10, 0),
               amounts(100, 1), amounts(0, 0), amounts(0, 2), both(10, 0), both(1, -1)}

MCVariants ==
  [ClusterID |-> {<< >>, <<1>>, <<1, 1>>, <<1, 1, 1>>},
   APIVersion |-> {<<1>>, <<1, 1>>},
   Kind |-> {<<1>>, <<2>>},
   Namespace |-> {<<1>>, <<1, 1>>, <<2>>},
   Name |-> {<<1>>, <<1, 1>>, <<2>>},
   UID |-> {<< >>, <<1>>, <<1, 1>>},
   Labels |-> {Nil, EmptyMap, map1(9, 1), map1(1, 1), map2(1, 1, 9, 1), map2(1, 2, 2, 1)},
   TemplateLabels |-> {Nil, map1(1, 1), map2(1, 1, 9, 2)},
   Replicas |-> {Nil, 1, 2},
   Selector |->
     {Nil, selector(Nil), selector(<<req(1, 1, <<1, 2>>), req(1, 1, <<1>>)>>),
      selector(<<req(1, 1, <<1>>), req(1, 1, <<2, 1>>)>>),
      selector(<<req(1, 1, <<1>>), req(1, 1, <<2>>)>>), selector(<<req(1, 2, Nil)>>),
      selector(<<req(1, 2, << >>)>>),
      [MatchLabels |-> map2(1, 1, 9, 1), MatchExpressions |-> Nil]},
   Containers |->
     {<<c1, c2>>, <<c2, c1>>, <<c1>>, <<[c1 EXCEPT !.Env = <<env(2, 5), env(1, Nil)>>]>>,
      <<[c1 EXCEPT !.Env = <<env(1, Nil), env(2, 6)>>]>>, <<[c1 EXCEPT !.Env = <<env(1, 5), env(2, 5)>>]>>,
      <<[c1 EXCEPT !.Env[1].Value = 7]>>, <<[c1 EXCEPT !.Image = 2]>>, <<[c1 EXCEPT !.lists = <<1, 2>>]>>,
      <<[c2 EXCEPT !.lists = << >>], c1>>, <<[c1 EXCEPT !.verbatim = 1]>>}
     \cup {<<[c1 EXCEPT !.Resources = r]>> : r \in Quantities},
   InitContainers |-> {Nil, << >>, <<c1, c2>>, <<c2, c1>>},
   podLists |-> {Nil, << >>, <<1>>},
   NodeSelector |-> {Nil, EmptyMap, map1(1, 1)},
   podVerbatim |-> {0, 1}]

base1 ==
  [ClusterID |-> <<1>>, APIVersion |-> <<1, 1>>, Kind |-> <<1>>, Namespace |-> <<1>>, Name |-> <<1, 1>>,
   UID |-> <<1>>, Labels |-> map1(1, 1), TemplateLabels |-> map2(1, 1, 9, 2), Replicas |-> Nil,
   Selector |-> selector(<<req(1, 1, <<1, 2>>), req(1, 1, <<1>>)>>), Containers |-> <<c1, c2>>,
   InitContainers |-> Nil, podLists |-> Nil, NodeSelector |-> Nil, podVerbatim |-> 0]

MCBases == {base1,
            [base1 EXCEPT !.Containers = <<c1>>, !.Labels = Nil, !.Selector = Nil, !.UID = << >>],
            [base1 EXCEPT !.Containers = <<[c1 EXCEPT !.Resources = amounts(10, 0)]>>,
                          !.InitContainers = <<c1, c2>>, !.Replicas = 2, !.podLists = <<1>>]}
=============================================================================
