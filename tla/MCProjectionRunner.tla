-------------------------- MODULE MCProjectionRunner --------------------------
(***************************************************************************)
(* Two projections for TLC: the first has a handler for every event type,  *)
(* the second, like OrderSummaryProjection, lacks one.                     *)
(***************************************************************************)
EXTENDS ProjectionRunner, TLC

CONSTANTS e1, e2

SecondLacksOne == (1 :> EventTypes) @@ (2 :> {e1})
=============================================================================
