--------------------------- MODULE MCSafetyRules ----------------------------
(***************************************************************************)
(* Instances of SafetyRules for TLC.                                       *)
(***************************************************************************)
EXTENDS SafetyRules, Integers, TLC

\* A scale-down every rule but the rate limit lets through.
Harmless(ns, pod) ==
  [namespace |-> ns, pod |-> pod, type |-> "SCALE_DOWN", newCPU |-> 0,
   declaredCPU |-> 0, replicas |-> 9, hasPDB |-> FALSE, pdbMin |-> 0,
   stateful |-> FALSE, cordonned |-> 0, nodes |-> 3]

OnePod == {Harmless("shop", "web-0")}

Disruption(type, replicas, hasPDB, pdbMin) ==
  [Harmless("shop", "web-0") EXCEPT !.type = type, !.replicas = replicas,
                                    !.hasPDB = hasPDB, !.pdbMin = pdbMin]

\* Contexts at the boundary of each rule, on either side of it.
Boundary ==
  {Disruption("RESTART_POD", n, b, 1) : n \in {1, 2}, b \in BOOLEAN}
  \cup {Disruption("SCALE_DOWN", 2, TRUE, m) : m \in {1, 2}}
  \cup {[Disruption("RESTART_POD", 3, FALSE, 0) EXCEPT !.stateful = TRUE],
        [Harmless("shop", "web-0") EXCEPT !.type = "ISOLATE_POD"],
        [Harmless("shop", "web-0") EXCEPT !.cordonned = 1, !.nodes = 0]}
  \cup {[Harmless("shop", "web-0") EXCEPT !.type = "THROTTLE_CPU", !.declaredCPU = 100,
                                         !.newCPU = n] : n \in {9, 10}}
  \cup {[Harmless(ns, "web-0") EXCEPT !.cordonned = 1] : ns \in {"blog", "kube-system"}}

Symmetry == Permutations(Actions)
=============================================================================
