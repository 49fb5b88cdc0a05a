----------------------------- MODULE MCBaseline -----------------------------
(* Two fixtures, of which any may be a control, a chain that goes on from the *)
(* index, or one that never looks at it; two batches.                         *)
EXTENDS Baseline

Others == Sources \ {Index}
MCBanks == [1..2 -> {<<Index>>} \union {<<Index, s>> : s \in Others}
                      \union {<<s>> : s \in Others}]
=============================================================================
