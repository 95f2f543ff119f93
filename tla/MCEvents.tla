------------------------------- MODULE MCEvents -------------------------------
(***************************************************************************)
(* The event stores for TLC in one run: writers of the PostgreSQL store,   *)
(* and a ProjectionRunner that reads the in-memory one while others append *)
(* to it.  They share no state, so a behaviour is one of one of them:      *)
(* "focus" says which, and the other stays where it starts.                *)
(***************************************************************************)
EXTENDS PostgreSQLEventStore, MCProjectionRunner

VARIABLE focus

EventsInit ==
  /\ focus \in {"store", "runner"}
  /\ Init /\ RunnerInit

EventsNext ==
  \/ focus = "store" /\ Next /\ UNCHANGED <<focus, runnerVars>>
  \/ focus = "runner" /\ RunnerNext /\ UNCHANGED <<focus, vars>>

EventsSpec ==
  /\ EventsInit /\ [][EventsNext]_<<focus, vars, runnerVars>>
  /\ Fairness /\ RunnerFairness

ASSUME RunnerAssumption
=============================================================================
