----------------------------- MODULE MCEMSocket -----------------------------
(* Three packets of two fragments, a kernel that takes two. *)
EXTENDS EMSocket
=============================================================================
