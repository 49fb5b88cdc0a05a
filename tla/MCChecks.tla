------------------------------ MODULE MCChecks ------------------------------
(* Chains of up to three hops over two sources, repeated sources included,   *)
(* and declared depths below, at and above their length.                     *)
EXTENDS Checks

CONSTANTS edgar, registry

MCPaths == UNION {[1..n -> Sources] : n \in 0..3}
=============================================================================
