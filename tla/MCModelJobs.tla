----------------------------- MODULE MCModelJobs -----------------------------
(* A case whose accepted snapshot moves, and whose evidence is withdrawn,    *)
(* while the worker computes and two analysts sign.                         *)
EXTENDS ModelJobs, TLC

MCSymmetry == Permutations(Analysts)
=============================================================================
