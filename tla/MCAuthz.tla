------------------------------ MODULE MCAuthz ------------------------------
(* Two agents with the two role scopes (and one token with both), three     *)
(* tokens at most, a clock that outlives the short lifetime and a log that  *)
(* holds a mint, an admin act and decisions before and after it.            *)
EXTENDS Authz, TLC

CONSTANTS exposure, entity_resolution, edgar, registry, n1, n2

MCScopes == {{edgar}, {edgar, registry}}
MCSymmetry == Permutations({n1, n2})
=============================================================================
