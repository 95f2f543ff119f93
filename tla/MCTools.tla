------------------------------- MODULE MCTools -------------------------------
(***************************************************************************)
(* The stand-alone tools for TLC in one run: bulk operations, pagination   *)
(* and the seeder.  "focus" says which one a behaviour is of; the other    *)
(* two stay where they start.                                              *)
(***************************************************************************)
EXTENDS Bulk, Pagination, Seeder

VARIABLE focus

\* A table that is empty or holds one of the keys and codes.
EmptyOrOne == {[id \in {} |-> 0], 1 :> [code |-> 1, value |-> 5]}

\* Tables of two pages and of one, in another order than that of their ids.
SomeLists == {<<1, 3, 4, 2>>, <<2, 4>>, <<3, 2, 1>>}

ToolsInit ==
    /\ focus \in {"bulk", "pages", "seeder"}
    /\ BulkInit /\ PagesInit /\ SeederInit
    /\ focus # "bulk" => rows = <<>>
    /\ focus # "pages" => table = <<2, 4>>

ToolsNext ==
    \/ focus = "bulk" /\ BulkNext /\ UNCHANGED <<focus, pageVars, seederVars>>
    \/ focus = "pages" /\ PagesNext /\ UNCHANGED <<focus, bulkVars, seederVars>>
    \/ focus = "seeder" /\ SeederNext /\ UNCHANGED <<focus, bulkVars, pageVars>>

ToolsSpec == ToolsInit /\ [][ToolsNext]_<<focus, bulkVars, pageVars, seederVars>>
=============================================================================
