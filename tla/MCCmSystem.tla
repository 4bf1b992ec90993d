----------------------------- MODULE MCCmSystem -----------------------------
(* CmSystem for TLC. *)
EXTENDS CmSystem, TLC

\* Addresses of flow_state objects are only compared for equality.
PtrSymmetry == Permutations(Ptr)
=============================================================================
