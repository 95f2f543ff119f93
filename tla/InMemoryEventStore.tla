-------------------------- MODULE InMemoryEventStore --------------------------
(***************************************************************************)
(* InMemoryEventStore of fastx_database/events/store.py.  Its methods are  *)
(* coroutines that never await, so on one event loop each runs as a single *)
(* step.  An aggregate that _events has no key for reads as one without    *)
(* events in every method, so every aggregate has a sequence here.         *)
(*                                                                         *)
(* An event is its type and the version its metadata give it; a stored one *)
(* (EventRecord) has its aggregate and sequence number besides.            *)
(***************************************************************************)
EXTENDS Integers, Sequences, FiniteSets

CONSTANTS Aggregates, EventTypes

VARIABLES
  events,     \* aggregate -> its EventRecords (_events)
  allEvents   \* every EventRecord, in the order of the appends (_all_events)

storeVars == <<events, allEvents>>

AnyVersion == -1   \* expected_version=None

Events == [type : EventTypes, version : Nat]
EventRecords ==
  [aggregate : Aggregates, type : EventTypes, version : Nat, seq : Nat]

StoreTypeOK ==
  /\ events \in [Aggregates -> Seq(EventRecords)]
  /\ allEvents \in Seq(EventRecords)

StoreInit ==
  /\ events = [a \in Aggregates |-> <<>>]
  /\ allEvents = <<>>

-----------------------------------------------------------------------------
GetCurrentVersion(a) == Len(events[a])

\* The events from a sequence number on, in the order in which they are stored.
GetEvents(a, from) ==
  LET kept == {i \in DOMAIN events[a] : events[a][i].seq >= from}
      place(k) == CHOOSE i \in kept : Cardinality({j \in kept : j <= i}) = k
  IN  [k \in 1 .. Cardinality(kept) |-> events[a][place(k)]]

\* The records append() makes of a batch.
Records(a, batch) ==
  [i \in DOMAIN batch |->
     [aggregate |-> a, type |-> batch[i].type, version |-> batch[i].version,
      seq |-> GetCurrentVersion(a) + i]]

\* Mutant: only the last record of a batch reaches _all_events.
StoreLastGlobally(a, batch) ==
  /\ events' = [events EXCEPT ![a] = @ \o Records(a, batch)]
  /\ allEvents' = allEvents \o
       SelectSeq(Records(a, batch),
                 LAMBDA e : e.seq = GetCurrentVersion(a) + Len(batch))

Store(a, batch) ==
  /\ events' = [events EXCEPT ![a] = @ \o Records(a, batch)]
  /\ allEvents' = allEvents \o Records(a, batch)

\* What ConflictError is raised on.
Conflicts(a, expected) == expected \notin {AnyVersion, GetCurrentVersion(a)}

\* append() that returns.
AppendEvents(a, batch, expected) ==
  ~Conflicts(a, expected) /\ Store(a, batch)

\* append() whose batch has a malformed event after the first n: the KeyError
\* leaves those n stored.
AppendRaises(a, batch, n) == Store(a, SubSeq(batch, 1, n))

-----------------------------------------------------------------------------
(* Properties *)

\* How many of the first i events of _all_events are a's.
CountOf(a, i) == Cardinality({j \in 1 .. i : allEvents[j].aggregate = a})

\* The two lists agree, also after an append that was left half way: what
\* projections read from _all_events is, aggregate by aggregate and in the same
\* order, what is kept by aggregate, and each aggregate's events are numbered
\* 1, 2, 3, ..., so that its version stays the last sequence number.
ListsAgree ==
  \A a \in Aggregates :
    /\ CountOf(a, Len(allEvents)) = Len(events[a])
    /\ \A i \in DOMAIN allEvents :
         allEvents[i].aggregate = a => allEvents[i] = events[a][CountOf(a, i)]
    /\ \A i \in DOMAIN events[a] : events[a][i].seq = i
=============================================================================
