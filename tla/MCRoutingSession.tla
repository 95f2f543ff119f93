--------------------------- MODULE MCRoutingSession ---------------------------
(* Instances of RoutingSession for TLC: who runs on which thread. *)
EXTENDS RoutingSession, TLC

CONSTANTS s1, s2, t1, t2

\* Two requests served by two worker threads.
OwnThreads == s1 :> t1 @@ s2 :> t2

\* Two coroutines of one event loop.
OneThread == s1 :> t1 @@ s2 :> t1

\* One request.
Alone == s1 :> t1
=============================================================================
