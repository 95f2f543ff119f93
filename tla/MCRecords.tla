------------------------------ MODULE MCRecords ------------------------------
(***************************************************************************)
(* What several clients do to the same rows, each on a copy that others    *)
(* may have overtaken, for TLC in one run: through IRepository ("base"),   *)
(* through the soft-delete mixin with its cascade ("soft"), through the    *)
(* calls of the catalogued repositories ("calls"), and through aggregates  *)
(* of an event store ("orders").  Each is a machine of its own: "focus"    *)
(* says which one a behaviour is of, and the others stay where they start. *)
(***************************************************************************)
EXTENDS Repository, SoftDelete, RepositoryCalls, OrderAggregate, TLC

VARIABLE focus

ASSUME SoftDeleteAssumption /\ CatalogueAssumption /\ OrderAssumption

\* One parent with one child.
OneParent == [c \in Children |-> 1]

RecordsInit ==
    /\ focus \in {"base", "soft", "calls", "orders"}
    /\ Init /\ SoftInit /\ OrderInit
    /\ IF focus = "calls" THEN CallsInit
       ELSE repo = DocumentRepository /\ by = {"id"} /\ NoCallYet
    /\ focus # "base" => ~versioned /\ ~cached

RecordsNext ==
    \/ focus = "base" /\ Next /\ UNCHANGED <<focus, softVars, callVars, orderVars>>
    \/ focus = "soft" /\ SoftNext /\ UNCHANGED <<focus, vars, callVars, orderVars>>
    \/ focus = "calls" /\ CallsNext /\ UNCHANGED <<focus, vars, softVars, orderVars>>
    \/ focus = "orders" /\ OrderNext /\ UNCHANGED <<focus, vars, softVars, callVars>>

RecordsSpec ==
    RecordsInit /\ [][RecordsNext]_<<focus, vars, softVars, callVars, orderVars>>

\* No session, caller or client is different from the others.
Symmetry == Permutations(Sessions) \cup Permutations(Callers) \cup Permutations(Clients)
=============================================================================
