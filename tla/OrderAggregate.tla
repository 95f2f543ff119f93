---------------------------- MODULE OrderAggregate ----------------------------
(***************************************************************************)
(* OrderAggregate and its base class Aggregate (events/aggregate.py), used *)
(* by several clients against one InMemoryEventStore.  A client creates an *)
(* order or rebuilds it from its history, runs commands on its own copy,   *)
(* which buffers their events, and saves the buffer with the version its   *)
(* copy was loaded at.  Between these steps the other clients run, so that *)
(* a command's guard is evaluated on a copy that may be stale.             *)
(***************************************************************************)
EXTENDS InMemoryEventStore

CONSTANTS
  Clients,
  MaxEvents,       \* bound: events of an order
  MaxUncommitted   \* bound: events a copy buffers

VARIABLE orders    \* client -> its copy of an order, or NoOrder

orderVars == <<events, allEvents, orders>>

OrderEvents == {"order_created", "item_added", "payment_submitted",
                "payment_failed", "order_shipped"}
Statuses == {"PENDING", "PAID", "PAYMENT_FAILED", "SHIPPED"}

OrderAssumption ==
  /\ Aggregates # {} /\ OrderEvents \subseteq EventTypes
  /\ {MaxEvents, MaxUncommitted} \subseteq Nat

NewOrder(a) ==
  [id |-> a, status |-> "PENDING", items |-> 0, version |-> 0,
   uncommitted |-> <<>>]

\* A client without a copy: a copy of version 0, on which no command is run.
NoOrder == NewOrder(CHOOSE a \in Aggregates : TRUE)

OrderTypeOK ==
  /\ StoreTypeOK
  /\ orders \in [Clients ->
       [id : Aggregates, status : Statuses, items : Nat, version : Nat,
        uncommitted : Seq(Events)]]

OrderInit ==
  /\ StoreInit
  /\ orders = [c \in Clients |-> NoOrder]

-----------------------------------------------------------------------------
(* The aggregate *)

\* The apply_* method of an event, if the class has one.
Handle(order, type) ==
  CASE type = "item_added" -> [order EXCEPT !.items = @ + 1]
    [] type = "payment_submitted" -> [order EXCEPT !.status = "PAID"]
    [] type = "payment_failed" -> [order EXCEPT !.status = "PAYMENT_FAILED"]
    [] type = "order_shipped" -> [order EXCEPT !.status = "SHIPPED"]
    [] OTHER -> order

\* apply_event() while replaying.
Apply(order, event) == [Handle(order, event.type) EXCEPT !.version = @ + 1]

\* Mutant: the event carries the version before it.
CreateEventEarly(order, type) == [type |-> type, version |-> order.version]

CreateEvent(order, type) == [type |-> type, version |-> order.version + 1]

\* create_event() and apply_event(): the event is buffered as well.
Raise(order, type) ==
  LET event == CreateEvent(order, type)
  IN  [Apply(order, event) EXCEPT !.uncommitted = Append(@, event)]

\* An order after n of the events of a history, one after another.
Replay(order, history) ==
  LET copy[n \in 0 .. Len(history)] ==
        IF n = 0 THEN order ELSE Apply(copy[n - 1], history[n])
  IN  copy[Len(history)]

\* Mutant: replay does not count the events.
LoadUncounted(a, history) ==
  [Replay(NewOrder(a), history) EXCEPT !.version = 0]

LoadFromHistory(a, history) == Replay(NewOrder(a), history)

\* The version the copy was loaded at.
ExpectedVersion(order) == order.version - Len(order.uncommitted)

-----------------------------------------------------------------------------
(* The clients *)

Create(c, a) ==
  /\ orders[c].version = 0
  /\ orders' = [orders EXCEPT ![c] = Raise(NewOrder(a), "order_created")]
  /\ UNCHANGED storeVars

Load(c, a) ==
  /\ orders[c].version = 0 /\ GetEvents(a, 0) # <<>>
  /\ orders' = [orders EXCEPT ![c] = LoadFromHistory(a, GetEvents(a, 0))]
  /\ UNCHANGED storeVars

\* The guards of the commands: add_item() has none, submit_payment() and
\* ship() raise ValueError.
Allowed(type, status) ==
  CASE type = "item_added" -> TRUE
    [] type = "payment_submitted" -> status = "PENDING"
    [] type = "order_shipped" -> status = "PAID"
    [] OTHER -> FALSE

Command(c, type) ==
  /\ orders[c].version \in 1 .. MaxEvents - 1
  /\ Len(orders[c].uncommitted) < MaxUncommitted
  /\ Allowed(type, orders[c].status)
  /\ orders' = [orders EXCEPT ![c] = Raise(@, type)]
  /\ UNCHANGED storeVars

\* The buffer is appended and mark_committed() empties it ...
Save(c) ==
  /\ orders[c].uncommitted # <<>>
  /\ AppendEvents(orders[c].id, orders[c].uncommitted,
                  ExpectedVersion(orders[c]))
  /\ Len(events'[orders[c].id]) <= MaxEvents
  /\ orders' = [orders EXCEPT ![c].uncommitted = <<>>]

\* ... or append() raises ConflictError and the client drops its copy, as it
\* may at any time.
Drop(c) ==
  /\ orders[c].version > 0
  /\ orders' = [orders EXCEPT ![c] = NoOrder]
  /\ UNCHANGED storeVars

\* A payment service reports a failure: no command of the class raises the
\* event, so it is appended from outside and expects no version.
PaymentFails(a) ==
  /\ GetCurrentVersion(a) \in 1 .. MaxEvents - 1
  /\ AppendEvents(a, <<[type |-> "payment_failed",
                        version |-> GetCurrentVersion(a) + 1]>>, AnyVersion)
  /\ UNCHANGED orders

OrderNext ==
  \/ \E c \in Clients :
       \/ \E a \in Aggregates : Create(c, a) \/ Load(c, a)
       \/ \E type \in OrderEvents : Command(c, type)
       \/ Save(c) \/ Drop(c)
  \/ \E a \in Aggregates : PaymentFails(a)

OrderSpec == OrderInit /\ [][OrderNext]_orderVars

-----------------------------------------------------------------------------
(* Properties *)

\* The state of order a after its first n events.
After(a, n) == LoadFromHistory(a, SubSeq(events[a], 1, n))

\* Every stored history is one the commands allow when run one after another:
\* an order is created first and once, paid only while pending and shipped
\* only while paid, whatever stale copies the clients decided on; and the
\* version that create_event() gave an event before the save is its place.
HistoryIsLegal ==
  \A a \in Aggregates : \A i \in DOMAIN events[a] :
    LET type == events[a][i].type
    IN  /\ type = "order_created" <=> i = 1
        /\ type \in {"payment_submitted", "order_shipped"}
             => Allowed(type, After(a, i - 1).status)
        /\ events[a][i].version = i

\* A copy is what replaying the stored history up to the version it was loaded
\* at and then applying its buffered events gives, however far the history has
\* gone on since: live application and replay agree, before and after a save.
CopyAgreesWithHistory ==
  \A c \in Clients :
    LET order == orders[c]
        base == ExpectedVersion(order)
    IN  order.version > 0 =>
          /\ base \in 0 .. GetCurrentVersion(order.id)
          /\ [order EXCEPT !.uncommitted = <<>>] =
               Replay(After(order.id, base), order.uncommitted)
=============================================================================
