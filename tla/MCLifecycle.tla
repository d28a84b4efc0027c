---------------------------- MODULE MCLifecycle ----------------------------
(* A small instance of Lifecycle: two versions, two good artifacts of the   *)
(* second and a malformed one of the first, and every manifest there can be.*)
EXTENDS Lifecycle, TLC

CONSTANTS v1, v2, d1, d2, d3, d4, t1, t2, old, new, own

MCVersionOf == (d1 :> v1) @@ (d2 :> v2) @@ (d3 :> v2) @@ (d4 :> v1)
MCPayload == (d1 :> [t \in {t1, t2} |-> old])
               @@ (d2 :> [t \in {t1, t2} |-> IF t = t1 THEN old ELSE new])
               @@ (d3 :> [t \in {t1, t2} |-> new]) @@ (d4 :> [t \in {t1, t2} |-> own])

=============================================================================
