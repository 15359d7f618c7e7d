---------------------------- MODULE MCThreadPool ----------------------------
(***************************************************************************)
(* Instances of ThreadPool for TLC.  Thunks are interchangeable model      *)
(* values; clients are not, because one of them is the owner.              *)
(***************************************************************************)
EXTENDS ThreadPoolProofs, TLC

Symmetry == Permutations(Thunks)
=============================================================================
