--------------------------- MODULE MCLoadBalancer ---------------------------
(* A client with two endpoints, and one that bypasses the balancing.          *)
EXTENDS LoadBalancer

CONSTANTS e1, e2

Lists == {<<e1, e2>>, <<e1>>}
=============================================================================
