-------------------------- MODULE MCControllerRing --------------------------
EXTENDS ControllerRing

CONSTANTS s1, s2, ns1, ns2

MainAndChild == [m \in {"websites"} |-> {"pods"}]
MainOnly     == [m \in {"websites"} |-> {}]

DefaultSpec == [resources |-> MainAndChild, selector |-> NoSelector]

\* the ring's own selector, and one that the API server refuses
MCSpecs == {DefaultSpec,
            [resources |-> MainOnly, selector |-> {ns2}],
            [resources |-> MainAndChild, selector |-> Invalid]}

Owner(name) == [kind |-> "Website", name |-> name, complete |-> TRUE]

Website(ns, n) ==
  [resource |-> "websites", kind |-> "Website", namespace |-> ns, name |-> n, owner |-> NoOwner]

Pod(ns, n, own) ==
  [resource |-> "pods", kind |-> "Pod", namespace |-> ns, name |-> n, owner |-> own]

MCObjects ==
  { Website(ns, "a") : ns \in {ns1, ns2, ClusterScope} } \cup { Website(ns1, NoName) }
  \cup { Pod(ns, "b", Owner("a")) : ns \in {ns1, ns2} } \cup { Pod(ns1, NoName, Owner("a")) }
  \cup { Pod(ns1, "b", own) : own \in {NoOwner, [Owner("a") EXCEPT !.complete = FALSE]} }
=============================================================================
