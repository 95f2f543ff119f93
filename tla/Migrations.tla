----------------------------- MODULE Migrations -----------------------------
(* migrations/: discovery fills a registry with one create-table migration     *)
(* per model, the registry orders them by their depends_on, and operators'     *)
(* processes run or roll back the list, one statement at a time, against a     *)
(* PostgreSQL database they share.  A failed migration is reported and the     *)
(* next one is tried.  Every migration creates or drops exactly the table of   *)
(* its model.                                                                  *)
EXTENDS Schema, TopologicalSort, Sequences, SequencesExt

CONSTANTS
    Processes,    \* processes that run migrations
    Models,       \* the tables of the models that can be imported
    Existing,     \* tables the database starts with
    DependsOn,    \* the depends_on attributes tried: functions on Discovered
    Orders,       \* the registration orders tried (glob() promises none)
    MaxRollbacks  \* bound on rollback runs

VARIABLES
    present,    \* tables in the database
    registry,   \* MigrationRegistry._migrations, in registration order
    dependsOn,  \* ModelMigration.depends_on
    job,        \* what each process is doing
    rollbacks   \* rollback runs started

vars == <<present, registry, dependsOn, job, rollbacks>>

\* discover_model_migrations() registers every importable model but skips the
\* lookup models, whose class names end in "Lk".
Discovered == Models \ Lookups

\* There is a model to migrate, and each is registered once.
ASSUME MigrationsAssumption ==
    /\ Discovered # {}
    /\ \A order \in Orders :
          /\ order \in Seq(Discovered) /\ ToSet(order) = Discovered
          /\ \A i, j \in DOMAIN order : order[i] = order[j] => i = j

\* Mutant: the migrations run in the order they were registered in.
RegistrationOrder == registry

\* get_ordered_migrations(): dependencies that are not registered are ignored,
\* and a cycle gives registration order.
OrderedMigrations ==
    LET ordered == Kahn(registry, [m \in ToSet(registry) |-> dependsOn[m] \cap ToSet(registry)])
    IN IF Len(ordered) = Len(registry) THEN ordered ELSE registry

Idle == [pc |-> "idle", up |-> TRUE, todo |-> <<>>, ran |-> {}, failed |-> {},
         undisturbed |-> TRUE]

Init ==
    /\ present = Existing
    /\ registry \in Orders
    /\ dependsOn \in DependsOn
    /\ job = [p \in Processes |-> Idle]
    /\ rollbacks = 0
-----------------------------------------------------------------------------
Current(p) == Head(job[p].todo)

\* Mutant: a migration that raised is reported as applied.
ReportSuccess(p, ok) ==
    [job[p] EXCEPT !.todo = Tail(@), !.ran = @ \cup {Current(p)},
                   !.pc = IF Len(job[p].todo) = 1 THEN "reported"
                          ELSE IF job[p].up THEN "applied?" ELSE "drop"]

\* Mutant: the first migration that raises ends the run.
ReportAndStop(p, ok) ==
    [job[p] EXCEPT !.todo = IF ok THEN Tail(@) ELSE <<>>, !.ran = @ \cup {Current(p)},
                   !.failed = IF ok THEN @ ELSE @ \cup {Current(p)},
                   !.pc = IF ~ok \/ Len(job[p].todo) = 1 THEN "reported"
                          ELSE IF job[p].up THEN "applied?" ELSE "drop"]

\* results[model_name] = ok, then the next migration of the list.
Report(p, ok) ==
    [job[p] EXCEPT !.todo = Tail(@), !.ran = @ \cup {Current(p)},
                   !.failed = IF ok THEN @ ELSE @ \cup {Current(p)},
                   !.pc = IF Len(job[p].todo) = 1 THEN "reported"
                          ELSE IF job[p].up THEN "applied?" ELSE "drop"]

\* The others remember that a run in the other direction changed the database.
Continue(p, ok) ==
    job' = [q \in Processes |->
              IF q = p THEN Report(p, ok)
              ELSE [job[q] EXCEPT !.undisturbed = @ /\ job[q].up = job[p].up]]

Goto(p, pc) == job' = [job EXCEPT ![p].pc = pc]

Begin(p, up, todo) ==
    /\ job[p].pc \in {"idle", "reported"}
    /\ job' = [job EXCEPT ![p] =
                 [Idle EXCEPT !.pc = IF up THEN "applied?" ELSE "drop",
                              !.up = up, !.todo = todo]]
    /\ UNCHANGED <<present, registry, dependsOn>>

Named == {<<m>> : m \in ToSet(registry)}

\* run_migrations() for every model, or for one named on the command line.
MigrateAll(p) == Begin(p, TRUE, OrderedMigrations) /\ UNCHANGED rollbacks
Migrate(p) ==
    \/ MigrateAll(p)
    \/ \E todo \in Named : Begin(p, TRUE, todo) /\ UNCHANGED rollbacks

\* rollback_migrations(): for every model in reverse order, or, from the command
\* line, for the models it names only.
Rollback(p) ==
    /\ rollbacks < MaxRollbacks
    /\ \E todo \in {Reverse(OrderedMigrations)} \cup Named : Begin(p, FALSE, todo)
    /\ rollbacks' = rollbacks + 1

\* is_applied(): the table exists, whoever created it.
IsApplied(p) ==
    /\ job[p].pc = "applied?"
    /\ IF Current(p) \in present THEN Continue(p, TRUE) ELSE Goto(p, "upgrade")
    /\ UNCHANGED <<present, registry, dependsOn, rollbacks>>

\* upgrade(): Table.create(checkfirst=True) looks once more ...
CheckFirst(p) ==
    /\ job[p].pc = "upgrade"
    /\ IF Current(p) \in present THEN Continue(p, TRUE) ELSE Goto(p, "create")
    /\ UNCHANGED <<present, registry, dependsOn, rollbacks>>

\* ... and sends CREATE TABLE, which fails when the table has appeared since or
\* when a foreign key refers to a table that does not exist.
Creatable(t) == t \notin present /\ ParentTables(t) \subseteq present

CreateTable(p) ==
    /\ job[p].pc = "create"
    /\ present' = present \cup (IF Creatable(Current(p)) THEN {Current(p)} ELSE {})
    /\ Continue(p, Creatable(Current(p)))
    /\ UNCHANGED <<registry, dependsOn, rollbacks>>

\* downgrade(): DROP TABLE of a table that is there; it fails while another
\* table refers to it.
Droppable(t) == t \in present /\ \A u \in present \ {t} : t \notin ParentTables(u)

DropTable(p) ==
    /\ job[p].pc = "drop"
    /\ present' = present \ (IF Droppable(Current(p)) THEN {Current(p)} ELSE {})
    /\ Continue(p, Current(p) \notin present \/ Droppable(Current(p)))
    /\ UNCHANGED <<registry, dependsOn, rollbacks>>

Work(p) == IsApplied(p) \/ CheckFirst(p) \/ CreateTable(p) \/ DropTable(p)

Next == \E p \in Processes : Migrate(p) \/ Rollback(p) \/ Work(p)

Spec == Init /\ [][Next]_vars

FairSpec == Spec /\ \A p \in Processes : WF_vars(Work(p)) /\ SF_vars(MigrateAll(p))
-----------------------------------------------------------------------------
Reported(p) == job[p].pc = "reported" /\ job[p].undisturbed

\* A report is true: unless somebody works in the other direction meanwhile, a
\* table reported as migrated is there when the run ends, and a table reported
\* as rolled back is not.
ReportIsTrue ==
    \A p \in Processes : Reported(p) =>
        IF job[p].up THEN job[p].ran \ job[p].failed \subseteq present
        ELSE (job[p].ran \ job[p].failed) \cap present = {}

\* If depends_on names the tables a model refers to, and goes round in no
\* circle (one circle anywhere puts all in registration order), one run creates every
\* table, even the ones it reports as failed because another process was faster.
Ordered ==
    /\ \A m \in Discovered : ParentTables(m) \cap Discovered \subseteq dependsOn[m]
    /\ \E rank \in [Discovered -> 1..Cardinality(Discovered)] :
          \A m \in Discovered : \A d \in dependsOn[m] \cap Discovered : rank[d] < rank[m]

OneRunSuffices ==
    \A p \in Processes :
        Reported(p) /\ job[p].up /\ job[p].ran = Discovered /\ rollbacks = 0 /\ Ordered
            => Discovered \subseteq present

\* Whatever depends_on says, running the migrations again and again ends with
\* every table in place.
Converges == <>[](Discovered \subseteq present)

\* "Get migrations in dependency order": one run over a new database leaves no
\* migration pending.
OneRunCreatesAll ==
    \A p \in Processes :
        Reported(p) /\ job[p].up /\ job[p].ran = Discovered /\ rollbacks = 0
            => Discovered \subseteq present
=============================================================================
