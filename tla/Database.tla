------------------------------- MODULE Database -------------------------------
(***************************************************************************)
(* What the components that work on one database share: a request or a     *)
(* worker has a session of its own.                                        *)
(***************************************************************************)
CONSTANT Sessions
=============================================================================
