---------------------------- MODULE MCClusterRole ----------------------------
(* Model-checking instance of ClusterRole: two keys, two values, two rule  *)
(* lists; the operator sets label k1 and annotation k2.                     *)
EXTENDS ClusterRole

CONSTANTS k1, k2, v1, v2, r0, r1, Absent

MCKeys == {k1, k2}

MCVals == {v1, v2}

MCRules == {r0, r1}

MCDesiredLabels == [k \in MCKeys |-> IF k = k1 THEN v1 ELSE Absent]

MCDesiredAnnotations == [k \in MCKeys |-> IF k = k2 THEN v1 ELSE Absent]
=============================================================================
