--------------------------- MODULE ProjectionRunner ---------------------------
(***************************************************************************)
(* ProjectionRunner and Projection (events/projection.py) reading the      *)
(* in-memory event store.  run() is a task of the event loop: it yields to *)
(* other code only where an event handler awaits, in sleep(1), and before  *)
(* it starts; there the store may grow, the task may be cancelled, and     *)
(* stop() and reset_all() may be called.  Every other step of run() is     *)
(* taken without a pause.                                                  *)
(*                                                                         *)
(* A position is a sequence number, and the store numbers every aggregate  *)
(* on its own: the catch-up that holds for one aggregate does not hold for *)
(* two.                                                                    *)
(***************************************************************************)
EXTENDS InMemoryEventStore, FiniteSetsExt, Functions

CONSTANTS
  NumProjections,  \* the runner's projections, in the order of its list
  Handles,         \* projection -> the event types it registered a handler for
  StopEarly,       \* is stop() called before the task of run() has started?
  ResetsInRun,     \* is reset_all() called before run() has returned?
  MaxAppended,     \* bound: events in the store
  MaxRepeats       \* bound: events a projection can get a second time

VARIABLES
  running,    \* _running
  stage,         \* where the task of run() is
  next,       \* where get_all_events() is in the list of all events
  after,      \* its after_position
  target,     \* the projection the event is offered to
  position,   \* projection -> _position
  delivered,  \* projection -> places of the events its read model is made of
  cutShort,   \* projection -> places of events whose handler was interrupted
  stopped     \* has stop() been called since the task was created?

runVars == <<stage, next, after, target>>
readVars == <<position, delivered, cutShort>>
runnerVars == <<storeVars, running, runVars, readVars, stopped>>

Projections == 1 .. NumProjections

RunnerAssumption ==
  /\ NumProjections \in Nat \ {0}
  /\ Handles \in [Projections -> SUBSET EventTypes]
  /\ {StopEarly, ResetsInRun} \subseteq BOOLEAN
  /\ {MaxAppended, MaxRepeats} \subseteq Nat

RunnerTypeOK ==
  /\ StoreTypeOK
  /\ running \in BOOLEAN /\ stopped \in BOOLEAN
  /\ stage \in {"off", "created", "scan", "offer", "handling", "live"}
  /\ next \in 1 .. MaxAppended + 1
  /\ after \in 0 .. MaxAppended
  /\ target \in 1 .. NumProjections + 1
  /\ position \in [Projections -> 0 .. MaxAppended]
  /\ delivered \in [Projections -> Seq(1 .. MaxAppended)]
  /\ cutShort \in [Projections -> SUBSET (1 .. MaxAppended)]

RunnerInit ==
  /\ StoreInit
  /\ running = FALSE /\ stopped = FALSE
  /\ stage = "off" /\ next = 1 /\ after = 0 /\ target = 1
  /\ position = [p \in Projections |-> 0]
  /\ delivered = [p \in Projections |-> <<>>]
  /\ cutShort = [p \in Projections |-> {}]

\* The event in hand.
Event == allEvents[next]

\* Other code runs only here.
Suspended == stage \in {"off", "created", "handling", "live"}

-----------------------------------------------------------------------------
(* run() *)

CreateTask ==
  /\ stage = "off"
  /\ stage' = "created" /\ stopped' = FALSE
  /\ UNCHANGED <<storeVars, running, next, after, target, readVars>>

Start(catchUp) ==
  /\ stage = "created"
  /\ running' = TRUE
  /\ stage' = IF catchUp THEN "scan" ELSE "live"
  /\ next' = 1 /\ after' = Min(Range(position))
  /\ UNCHANGED <<storeVars, target, readVars, stopped>>

\* What get_all_events() passes over; after_position=0 counts as none.
PassedOver(event) == after # 0 /\ event.seq <= after

Skip ==
  /\ stage = "scan" /\ next <= Len(allEvents) /\ PassedOver(Event)
  /\ next' = next + 1
  /\ UNCHANGED <<storeVars, running, stage, after, target, readVars, stopped>>

\* The flag is looked at once for every event that is yielded.
Yield ==
  /\ stage = "scan" /\ next <= Len(allEvents) /\ ~PassedOver(Event)
  /\ stage' = IF running THEN "offer" ELSE "off"
  /\ target' = 1
  /\ UNCHANGED <<storeVars, running, next, after, readVars, stopped>>

\* Mutant: _running is set when the catch-up is over.
ExhaustedRunning ==
  /\ stage = "scan" /\ next > Len(allEvents)
  /\ stage' = "live" /\ running' = TRUE
  /\ UNCHANGED <<storeVars, next, after, target, readVars, stopped>>

Exhausted ==
  /\ stage = "scan" /\ next > Len(allEvents)
  /\ stage' = IF running THEN "live" ELSE "off"
  /\ UNCHANGED <<storeVars, running, next, after, target, readVars, stopped>>

\* Mutant: events the projection has are offered again.
WantedAgain(p) == TRUE

Wanted(p) == Event.seq > position[p]

Offer ==
  /\ stage = "offer" /\ target \in Projections
  /\ IF Wanted(target) /\ Event.type \in Handles[target]
     THEN stage' = "handling" /\ UNCHANGED <<target, position>>
     ELSE /\ target' = target + 1
          /\ position' = IF Wanted(target)
                         THEN [position EXCEPT ![target] = Event.seq]
                         ELSE position
          /\ UNCHANGED stage
  /\ UNCHANGED <<storeVars, running, next, after, delivered, cutShort,
                 stopped>>

OfferedToAll ==
  /\ stage = "offer" /\ target \notin Projections
  /\ stage' = "scan" /\ next' = next + 1
  /\ UNCHANGED <<storeVars, running, after, target, readVars, stopped>>

Deliver(p) ==
  delivered' = [delivered EXCEPT ![p] = Append(@, next)]

Handled ==
  /\ stage = "handling"
  /\ Deliver(target)
  /\ position' = [position EXCEPT ![target] = Event.seq]
  /\ target' = target + 1 /\ stage' = "offer"
  /\ UNCHANGED <<storeVars, running, next, after, cutShort, stopped>>

\* The handler has failed or been cancelled, before or after it has done its
\* work.
CutShort(p, done) ==
  /\ cutShort' = [cutShort EXCEPT ![p] = @ \union {next}]
  /\ IF done THEN Len(delivered[p]) < next - 1 + MaxRepeats /\ Deliver(p)
             ELSE UNCHANGED delivered

\* Mutant: the position is moved before the handler has ended.
InterruptedCounted(done) ==
  /\ stage = "handling"
  /\ CutShort(target, done)
  /\ position' = [position EXCEPT ![target] = Event.seq]
  /\ stage' = "off"
  /\ UNCHANGED <<storeVars, running, next, after, target, stopped>>

\* The exception leaves run() and leaves _running as it is.
Interrupted(done) ==
  /\ stage = "handling"
  /\ CutShort(target, done)
  /\ stage' = "off"
  /\ UNCHANGED <<storeVars, running, next, after, target, position, stopped>>

\* The loop around sleep(1) finds _running reset.  It offers no event.
LiveEnds ==
  /\ stage = "live" /\ ~running
  /\ stage' = "off"
  /\ UNCHANGED <<storeVars, running, next, after, target, readVars, stopped>>

Run ==
  \/ \E catchUp \in BOOLEAN : Start(catchUp)
  \/ Skip \/ Yield \/ Exhausted \/ Offer \/ OfferedToAll \/ Handled \/ LiveEnds

-----------------------------------------------------------------------------
(* The code around it *)

Cancel ==
  /\ stage \in {"created", "live"}
  /\ stage' = "off"
  /\ UNCHANGED <<storeVars, running, next, after, target, readVars, stopped>>

Stop ==
  /\ Suspended /\ (stage = "created" => StopEarly)
  /\ running' = FALSE /\ stopped' = TRUE
  /\ UNCHANGED <<storeVars, runVars, readVars>>

\* Mutant: the positions are kept.
ResetAllKeepingPositions ==
  /\ Suspended /\ (stage # "off" => ResetsInRun)
  /\ delivered' = [p \in Projections |-> <<>>]
  /\ cutShort' = [p \in Projections |-> {}]
  /\ UNCHANGED <<storeVars, running, runVars, position, stopped>>

ResetAll ==
  /\ Suspended /\ (stage # "off" => ResetsInRun)
  /\ position' = [p \in Projections |-> 0]
  /\ delivered' = [p \in Projections |-> <<>>]
  /\ cutShort' = [p \in Projections |-> {}]
  /\ UNCHANGED <<storeVars, running, runVars, stopped>>

\* The last event of a batch of two may be malformed.
Appended(a, types) ==
  LET batch == [i \in DOMAIN types |->
                  [type |-> types[i], version |-> GetCurrentVersion(a) + i]]
  IN  /\ Suspended /\ Len(allEvents) + Len(batch) <= MaxAppended
      /\ \/ AppendEvents(a, batch, AnyVersion)
         \/ AppendRaises(a, batch, Len(batch) - 1)
      /\ UNCHANGED <<running, runVars, readVars, stopped>>

RunnerNext ==
  \/ CreateTask \/ Run \/ Cancel \/ Stop \/ ResetAll
  \/ \E done \in BOOLEAN : Interrupted(done)
  \/ \E a \in Aggregates, n \in {1, 2} :
       \E types \in [1 .. n -> EventTypes] : Appended(a, types)

RunnerSpec == RunnerInit /\ [][RunnerNext]_runnerVars

\* The event loop resumes a task that can go on, and a handler that is left
\* alone returns; no caller has to do anything.
RunnerFairness == WF_runnerVars(Run)

FairRunnerSpec == RunnerSpec /\ RunnerFairness

-----------------------------------------------------------------------------
(* Properties *)

\* The places of the events a projection has a handler for.
Relevant(p) == {i \in DOMAIN allEvents : allEvents[i].type \in Handles[p]}

\* A read model lacks no event that its projection's position claims to be
\* behind it, whatever failed or was cancelled on the way: what a later run()
\* does not offer again has been delivered.
NothingLostBehindPosition ==
  \A p \in Projections : \A i \in Relevant(p) :
    allEvents[i].seq <= position[p] => i \in Range(delivered[p])

\* When run(catch_up=True) turns to new events, every event in the store,
\* those appended during the catch-up included, is in every read model.
CatchUpIsComplete ==
  [][stage = "scan" /\ stage' = "live" =>
       \A p \in Projections : Relevant(p) \subseteq Range(delivered[p])]_runnerVars

\* A projection receives events in the order of the store, each of them once,
\* however often run() is stopped, cancelled and started again; only one whose
\* handler was interrupted may come a second time, before any that follows it.
DeliveredInOrder ==
  \A p \in Projections : \A i, j \in DOMAIN delivered[p] :
    i < j => \/ delivered[p][i] < delivered[p][j]
             \/ /\ delivered[p][i] = delivered[p][j]
                /\ delivered[p][i] \in cutShort[p]

\* After stop() the task ends, unless run() is called anew.
StopEndsRun == stopped ~> (stage = "off" \/ ~stopped)
=============================================================================
