----------------------------- MODULE MCSoftDelete -----------------------------
(***************************************************************************)
(* SoftDelete for TLC on its own: every child is a child of parent 1.      *)
(***************************************************************************)
EXTENDS SoftDelete

MCParentOf == [c \in Children |-> 1]
=============================================================================
