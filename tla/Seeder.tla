------------------------------- MODULE Seeder -------------------------------
(* seeder.py: models are registered with a factory, seed_all() inserts a batch *)
(* per model with parents before children, reset() deletes in the opposite     *)
(* order.  Every batch is flushed at once, nothing is committed, and the first *)
(* statement that fails raises through the loop.  Of the data only the tables  *)
(* that have rows are kept; a required foreign key refers to some parent row,  *)
(* an optional one is NULL.                                                    *)
EXTENDS Schema, TopologicalSort, Sequences, SequencesExt

CONSTANTS
    Registrable,  \* tables of the models that can be registered
    Prepared      \* tables that have rows from the start

\* What has rows from the start depends on nothing that is seeded, and foreign
\* keys go round in no circle.
ASSUME SeederAssumption ==
    /\ IsFiniteSet(Registrable)
    /\ \A t \in Prepared : t \notin Registrable /\ Required(t) = {}
    /\ \E rank \in [Registrable -> 1..Cardinality(Registrable)] :
          \A m \in Registrable : \A d \in ParentTables(m) \cap Registrable :
              rank[d] < rank[m]

VARIABLES
    registered,  \* Seeder._registry, in registration order
    factory,     \* the factory registered for a model, "auto" or "custom"
    filled,      \* tables that have rows, as the session sees them
    kept,        \* ... as committed
    pc,          \* the call under way, "idle" or "raised"
    models       \* the models it has left

seederVars == <<registered, factory, filled, kept, pc, models>>

SeederInit ==
    /\ registered = <<>> /\ factory = [m \in Registrable |-> "auto"]
    /\ filled = Prepared /\ kept = Prepared
    /\ pc = "idle" /\ models = <<>>
-----------------------------------------------------------------------------
\* Mutant: seed_all() follows the order of registration.
AsRegistered == registered

\* _topological_sort(): by the foreign keys between registered models.  They
\* have no circle, so it never raises.
Sorted ==
    Kahn(registered, [m \in ToSet(registered) |-> ParentTables(m) \cap ToSet(registered)])

\* register(), auto_discover(): registering again replaces the factory.
Register(m) ==
    /\ pc = "idle"
    /\ registered' = IF m \in ToSet(registered) THEN registered ELSE Append(registered, m)
    /\ \E kind \in {"auto", "custom"} : factory' = [factory EXCEPT ![m] = kind]
    /\ UNCHANGED <<filled, kept, pc, models>>

\* auto_factory() generates a value for every column that needs one, except for
\* foreign keys: the number it picks is not a generator, so the factory ignores
\* it and the column stays NULL, and a unique one calls the number and raises.
AutoInsertable(m) ==
    \A ref \in Tables[m].refs : ~ ref.required /\ {ref.col} \notin Tables[m].keys

\* A factory written by hand fills them with the ids of rows that exist.
CustomInsertable(m) == \A ref \in Required(m) : ref.to \in filled \cup {m}

Insertable(m) == IF factory[m] = "auto" THEN AutoInsertable(m) ELSE CustomInsertable(m)

\* seed(model) and seed_all(), reset(model) and reset().
SeederCall(one, all, order) ==
    /\ pc = "idle" /\ registered # <<>>
    /\ \/ pc' = one /\ \E m \in ToSet(registered) : models' = <<m>>
       \/ pc' = all /\ models' = order
    /\ UNCHANGED <<registered, factory, filled, kept>>

Seed == SeederCall("seed", "seed_all", Sorted)

\* Mutant: parents are deleted before their children.
ResetForwards == SeederCall("reset", "reset_all", Sorted)

Reset == SeederCall("reset", "reset_all", Reverse(Sorted))

\* One statement for the model at the head of the list; the next one, or the
\* end of the call, follows only if it succeeds.
Execute(calls, succeeds, result) ==
    /\ pc \in calls
    /\ IF succeeds
       THEN /\ filled' = result /\ models' = Tail(models)
            /\ pc' = IF Len(models) = 1 THEN "idle" ELSE pc
       ELSE pc' = "raised" /\ UNCHANGED <<filled, models>>
    /\ UNCHANGED <<registered, factory, kept>>

\* create_batch(): build, add_all, flush.
SeedBatch ==
    Execute({"seed", "seed_all"}, Insertable(Head(models)), filled \cup {Head(models)})

\* The tables that lose their rows with those of m, by ON DELETE CASCADE: the
\* smallest set with m that is closed.
Closed(s) ==
    \A t \in filled :
        (\E ref \in Required(t) : ref.to \in s /\ ref.on = "cascade") => t \in s

Doomed(m) ==
    {t \in filled \cup {m} :
        \A s \in SUBSET (filled \cup {m}) : m \in s /\ Closed(s) => t \in s}

\* DELETE is refused while a row that stays refers to one that goes.
Deletable(m) ==
    \A t \in filled \ Doomed(m) : \A ref \in Required(t) : ref.to \notin Doomed(m)

DeleteAll ==
    Execute({"reset", "reset_all"}, Deletable(Head(models)), filled \ Doomed(Head(models)))

\* The caller ends the transaction; after an error it can only roll back.
CommitSeeds ==
    /\ pc = "idle" /\ kept' = filled
    /\ UNCHANGED <<registered, factory, filled, pc, models>>
RollbackSeeds ==
    /\ pc \in {"idle", "raised"}
    /\ filled' = kept /\ pc' = "idle" /\ models' = <<>>
    /\ UNCHANGED <<registered, factory, kept>>

SeederNext ==
    \/ \E m \in Registrable : Register(m)
    \/ Seed \/ SeedBatch \/ Reset \/ DeleteAll \/ CommitSeeds \/ RollbackSeeds

SeederSpec == SeederInit /\ [][SeederNext]_seederVars
-----------------------------------------------------------------------------
\* seed_all() meets no foreign key it cannot fill: it raises only at a model
\* with a generated factory or with a parent nobody registered or prepared.
SeedsParentsFirst ==
    [][pc = "seed_all" /\ pc' = "raised"
          => \/ factory[Head(models)] = "auto"
             \/ ~ (ParentTables(Head(models)) \subseteq ToSet(registered) \cup Prepared)]_seederVars

\* The loop of reset() is never stopped by rows of its own models only: rows of
\* a model that is not registered refer to what it deletes.
ResetIsUnblocked ==
    [][pc = "reset_all" /\ pc' = "raised"
          => \E t \in filled \ ToSet(registered) : \E ref \in Required(t) :
                ref.to \in Doomed(Head(models))]_seederVars
=============================================================================
