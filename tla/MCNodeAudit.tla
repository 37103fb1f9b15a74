------------------------------ MODULE MCNodeAudit -----------------------------
(* NodeAudit with few digests and a short stream for TLC. *)
EXTENDS NodeAudit, TLC

DigestSymmetry == Permutations(Digests)
=============================================================================
