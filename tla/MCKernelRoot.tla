------------------------------ MODULE MCKernelRoot -----------------------------
(* KernelRoot on small trees for TLC. *)
EXTENDS KernelRoot, TLC
=============================================================================
