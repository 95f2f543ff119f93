-------------------------- MODULE Repository_proofs --------------------------
(***************************************************************************)
(* Theorems about Repository, for any number of sessions, any names and    *)
(* any bounds: the type invariant, that an update which stated a version   *)
(* changes the row of that version or nothing, and that a column changes   *)
(* only to what the committing call assigned.                              *)
(*                                                                         *)
(* And about RepositoryCalls, for any clients, values and rows, and any    *)
(* catalogue in which what the theorems assume of the repositories holds:  *)
(* that a lookup of one record is exact, that marks are never taken back,  *)
(* and that what was soft-deleted stays hidden.                            *)
(***************************************************************************)
EXTENDS Repository, RepositoryCalls, TLAPS

CallRecords ==
    [op : {"update", "delete", "soft_delete"}, id : Ids, data : NewData,
     expected : Stated]

(* TypeOK leaves open what the calls carry and that every session has an   *)
(* entry in each map; the proof of the steps needs both.                   *)
Maps ==
    /\ DOMAIN seen = Sessions
    /\ DOMAIN cache = Sessions
    /\ DOMAIN got = Sessions
    /\ call \in [Sessions -> {Idle} \cup CallRecords]

(* The version that a call in progress has checked is the version of the   *)
(* instance it holds: nothing expires the instances of a session between   *)
(* the check and its commit.                                               *)
Checked ==
    \A s \in Sessions :
        (call[s] # Idle /\ call[s].op = "update" /\ call[s].expected # NULL)
            => seen[s][call[s].id].version = call[s].expected

Inv == TypeOK /\ Maps /\ Checked

-----------------------------------------------------------------------------
(* The operators *)

\* A SELECT returns ids of stored rows.
LEMMA FirstIsStored ==
    ASSUME TypeOK, NEW filters, NEW include_deleted,
           NEW i \in First(filters, include_deleted)
    PROVE  i \in DOMAIN rows /\ i \in Ids
<1>1. PICK r \in Range(rows) : r.id = i
    BY DEF First, Selected, ActiveNonDeleted
<1>2. PICK j \in DOMAIN rows : r = rows[j]
    BY <1>1 DEF Range
<1>3. i \in DOMAIN rows
    BY <1>1, <1>2 DEF TypeOK
<1> QED
    BY <1>3, RepositoryAssumption DEF TypeOK, Ids

\* What a session holds after a SELECT of row i: rows of their own ids.
LEMMA LoadedIsTyped ==
    ASSUME TypeOK, NEW s \in Sessions, NEW i \in DOMAIN rows
    PROVE  /\ DOMAIN Loaded(s, i) = DOMAIN seen[s] \cup {i}
           /\ DOMAIN Loaded(s, i) \subseteq 1..created
           /\ \A j \in DOMAIN Loaded(s, i) :
                Loaded(s, i)[j] \in Row /\ Loaded(s, i)[j].id = j
           /\ Loaded(s, i)[i] = Instance(s, i)
    BY DEF TypeOK, Loaded, Instance

\* Idle is no call record: it has another op.
LEMMA IdleIsNoCall ==
    ASSUME NEW c \in {Idle} \cup CallRecords
    PROVE  /\ c # Idle => c \in CallRecords
           /\ c.op = "idle" <=> c = Idle
    BY DEF Idle, CallRecords

\* What a call carries assigns columns, each a value of its type.
LEMMA NewDataIsTyped ==
    ASSUME NEW d \in NewData
    PROVE  /\ DOMAIN d \subseteq Fields
           /\ "name" \in DOMAIN d => d["name"] \in Names
           /\ "is_deleted" \in DOMAIN d => d["is_deleted"] \in BOOLEAN
<1>1. CASE d \in [{"name"} -> Names]
    BY <1>1 DEF Fields
<1>2. CASE d \in [{"is_deleted"} -> BOOLEAN]
    BY <1>2 DEF Fields
<1>3. CASE d \in {[name |-> n, is_deleted |-> FALSE] : n \in Names}
    <2>1. PICK n \in Names : d = [name |-> n, is_deleted |-> FALSE]
        BY <1>3
    <2>2. DOMAIN d = {"name", "is_deleted"} /\ d["name"] = n /\ d["is_deleted"] = FALSE
        BY <2>1
    <2> QED
        BY <2>2 DEF Fields
<1> QED
    BY <1>1, <1>2, <1>3 DEF NewData

\* An UPDATE writes a row, and of its columns only those the call assigns.
LEMMA WrittenIsTyped ==
    ASSUME NEW row \in Row, NEW c \in CallRecords, NEW instance,
           versioned \in BOOLEAN
    PROVE  /\ Written(row, c, instance) \in Row
           /\ Written(row, c, instance).id = row.id
           /\ \A f \in Fields :
                Written(row, c, instance)[f] # row[f] =>
                    f \in DOMAIN c.data /\ c.data[f] = Written(row, c, instance)[f]
<1> DEFINE w == Written(row, c, instance)
<1>1. /\ c.data \in NewData
      /\ DOMAIN row = {"id", "name", "is_deleted", "version"}
      /\ row.id \in Ids /\ row.name \in Names /\ row.is_deleted \in BOOLEAN
      /\ row.version \in Nat
    BY DEF CallRecords, Row
<1>2. Changed(c, instance) \subseteq DOMAIN c.data
    BY DEF Changed
<1>3. /\ DOMAIN c.data \subseteq Fields
      /\ "name" \in DOMAIN c.data => c.data["name"] \in Names
      /\ "is_deleted" \in DOMAIN c.data => c.data["is_deleted"] \in BOOLEAN
    BY <1>1, NewDataIsTyped
<1>4. w = [f \in {"id", "name", "is_deleted", "version"} |-> w[f]]
    BY <1>1 DEF Written
<1>5. /\ w["id"] = row.id
      /\ w["version"] = row.version \/ w["version"] = row.version + 1
    BY <1>1, <1>2, <1>3 DEF Written, Fields
<1>6. \A f \in Fields : w[f] = row[f] \/ (f \in DOMAIN c.data /\ w[f] = c.data[f])
    BY <1>1, <1>2, <1>3 DEF Written, Fields
<1>7. w["name"] \in Names /\ w["is_deleted"] \in BOOLEAN
    BY <1>1, <1>3, <1>6 DEF Fields
<1>8. w["id"] \in Ids /\ w["version"] \in Nat
    BY <1>1, <1>5
<1> HIDE DEF w
<1>9. w \in Row
    BY <1>4, <1>7, <1>8 DEF Row
<1> QED
    BY <1>5, <1>6, <1>9 DEF w

-----------------------------------------------------------------------------
(* The invariant *)

LEMMA InitInv == Init => Inv
<1> SUFFICES ASSUME Init PROVE Inv
    OBVIOUS
<1>1. TypeOK
    BY RepositoryAssumption DEF Init, TypeOK, Nothing
<1>2. Maps /\ Checked
    BY DEF Init, Maps, Checked
<1> QED
    BY <1>1, <1>2 DEF Inv

LEMMA CreateRecordInv ==
    ASSUME Inv, NEW s \in Sessions, CreateRecord(s)
    PROVE  Inv'
<1> USE DEF Inv
<1>1. PICK n \in Names :
        rows' = [i \in DOMAIN rows \cup {created'} |->
                   IF i = created' THEN [id |-> i, name |-> n, is_deleted |-> FALSE,
                                         version |-> 0]
                   ELSE rows[i]]
    BY DEF CreateRecord
<1>2. created \in 0..MaxId /\ created' = created + 1 /\ created' \in 1..MaxId
    BY RepositoryAssumption DEF CreateRecord, TypeOK
<1>3. /\ DOMAIN rows' \subseteq 1..created'
      /\ \A i \in DOMAIN rows' : rows'[i] \in Row /\ rows'[i].id = i
    <2>1. DOMAIN rows' \subseteq 1..created'
        BY <1>1, <1>2 DEF TypeOK
    <2>2. ASSUME NEW i \in DOMAIN rows'
          PROVE  rows'[i] \in Row /\ rows'[i].id = i
        <3>1. CASE i = created'
            BY <1>1, <1>2, <3>1 DEF Row, Ids
        <3>2. CASE i # created'
            BY <1>1, <3>2 DEF TypeOK
        <3> QED
            BY <3>1, <3>2
    <2> QED
        BY <2>1, <2>2
<1>4. /\ DOMAIN seen' = Sessions /\ seen'[s] = Nothing
      /\ \A t \in Sessions \ {s} : seen'[t] = seen[t]
      /\ DOMAIN Nothing = {}
      /\ call[s] = Idle /\ UNCHANGED <<call, cache, got, versioned, cached>>
    BY DEF CreateRecord, Expire, Maps, Nothing
<1>5. TypeOK'
    <2>1. ASSUME NEW t \in Sessions
          PROVE  /\ DOMAIN seen'[t] \subseteq 1..created'
                 /\ \A i \in DOMAIN seen'[t] : seen'[t][i] \in Row /\ seen'[t][i].id = i
                 /\ call'[t] # Idle => call'[t].id \in DOMAIN seen'[t]
        BY <1>2, <1>4 DEF TypeOK
    <2> QED
        BY <1>2, <1>3, <1>4, <2>1 DEF TypeOK
<1>6. Maps' /\ Checked'
    BY <1>4 DEF Maps, Checked
<1> QED
    BY <1>5, <1>6

\* A session that holds one row more, or has it in a call.
LEMMA LoadedInv ==
    ASSUME Inv, NEW s \in Sessions, NEW i \in DOMAIN rows,
           seen' = [seen EXCEPT ![s] = Loaded(s, i)],
           UNCHANGED <<rows, created, versioned, cached>>,
           DOMAIN cache' = Sessions, DOMAIN got' = Sessions,
           NEW c \in {Idle} \cup CallRecords,
           call[s] = Idle, call' = [call EXCEPT ![s] = c],
           c # Idle => /\ c.id = i
                       /\ c.expected # NULL => Instance(s, i).version = c.expected
    PROVE  Inv'
<1> USE DEF Inv
<1>0. /\ DOMAIN Loaded(s, i) = DOMAIN seen[s] \cup {i}
      /\ DOMAIN Loaded(s, i) \subseteq 1..created
      /\ \A j \in DOMAIN Loaded(s, i) :
            Loaded(s, i)[j] \in Row /\ Loaded(s, i)[j].id = j
      /\ Loaded(s, i)[i] = Instance(s, i)
    BY LoadedIsTyped
<1>1. /\ DOMAIN seen' = Sessions /\ seen'[s] = Loaded(s, i)
      /\ call'[s] = c
      /\ \A t \in Sessions \ {s} : seen'[t] = seen[t] /\ call'[t] = call[t]
    BY DEF Maps
<1>2. TypeOK'
    <2>1. ASSUME NEW t \in Sessions
          PROVE  /\ DOMAIN seen'[t] \subseteq 1..created
                 /\ \A j \in DOMAIN seen'[t] : seen'[t][j] \in Row /\ seen'[t][j].id = j
                 /\ call'[t] # Idle => call'[t].id \in DOMAIN seen'[t]
        <3>1. CASE t = s
            <4>1. call'[t] # Idle => call'[t].id = i /\ i \in DOMAIN seen'[t]
                BY <1>0, <1>1, <3>1
            <4> QED
                BY <1>0, <1>1, <3>1, <4>1
        <3>2. CASE t # s
            BY <1>1, <3>2 DEF TypeOK
        <3> QED
            BY <3>1, <3>2
    <2> QED
        BY <2>1 DEF TypeOK
<1>3. Maps'
    BY <1>1 DEF Maps
<1>4. Checked'
    <2>1. ASSUME NEW t \in Sessions, call'[t] # Idle, call'[t].op = "update",
                 call'[t].expected # NULL
          PROVE  seen'[t][call'[t].id].version = call'[t].expected
        <3>1. CASE t = s
            BY <1>0, <1>1, <2>1, <3>1
        <3>2. CASE t # s
            BY <1>1, <2>1, <3>2 DEF Checked
        <3> QED
            BY <3>1, <3>2
    <2> QED
        BY <2>1 DEF Checked
<1> QED
    BY <1>2, <1>3, <1>4

LEMMA RetrieveInv ==
    ASSUME Inv, NEW s \in Sessions, NEW i \in Ids, NEW include_deleted \in BOOLEAN,
           Retrieve(s, i, include_deleted)
    PROVE  Inv'
<1> USE DEF Inv
<1>1. DOMAIN cache' = Sessions /\ DOMAIN got' = Sessions
    BY DEF Retrieve, Maps
<1>2. CASE seen' = seen
    BY <1>1, <1>2 DEF Retrieve, TypeOK, Maps, Checked
<1>3. CASE seen' # seen
    <2>1. i \in DOMAIN rows
        BY <1>3, FirstIsStored DEF Retrieve
    <2>2. seen' = [seen EXCEPT ![s] = Loaded(s, i)]
        BY <1>3 DEF Retrieve
    <2>3. call[s] = Idle /\ call' = [call EXCEPT ![s] = Idle]
        BY DEF Retrieve, Maps
    <2> QED
        BY <1>1, <2>1, <2>2, <2>3, LoadedInv DEF Retrieve
<1> QED
    BY <1>2, <1>3

LEMMA UpdateSelectInv ==
    ASSUME Inv, NEW s \in Sessions, UpdateSelect(s)
    PROVE  Inv'
<1> USE DEF Inv
<1>1. PICK filters \in FilterSets, data \in NewData, expected \in {NULL} \cup 0..MaxVersion :
        \E i \in First(filters, TRUE) :
            /\ AssertVersionMatches(Instance(s, i), expected)
            /\ seen' = [seen EXCEPT ![s] = Loaded(s, i)]
            /\ call' = [call EXCEPT ![s] = [op |-> "update", id |-> i, data |-> data,
                                            expected |-> expected]]
    BY DEF UpdateSelect
<1>2. PICK i \in First(filters, TRUE) :
        /\ AssertVersionMatches(Instance(s, i), expected)
        /\ seen' = [seen EXCEPT ![s] = Loaded(s, i)]
        /\ call' = [call EXCEPT ![s] = [op |-> "update", id |-> i, data |-> data,
                                        expected |-> expected]]
    BY <1>1
<1>3. call[s] = Idle /\ UNCHANGED <<rows, created, cache, got, versioned, cached>>
    BY DEF UpdateSelect
<1>4. i \in DOMAIN rows /\ i \in Ids /\ expected \in Stated
    <2>1. expected \in Stated
        BY RepositoryAssumption DEF Stated
    <2> QED
        BY <2>1, FirstIsStored
<1> DEFINE c == [op |-> "update", id |-> i, data |-> data, expected |-> expected]
<1>5. c \in {Idle} \cup CallRecords
    BY <1>4 DEF CallRecords
<1>6. c.id = i /\ (c.expected # NULL => Instance(s, i).version = c.expected)
    BY <1>2 DEF AssertVersionMatches
<1>7. DOMAIN cache' = Sessions /\ DOMAIN got' = Sessions
    BY <1>3 DEF Maps
<1>8. call' = [call EXCEPT ![s] = c] /\ seen' = [seen EXCEPT ![s] = Loaded(s, i)]
    BY <1>2
<1> HIDE DEF c
<1> QED
    BY <1>3, <1>4, <1>5, <1>6, <1>7, <1>8, LoadedInv

LEMMA DeleteSelectInv ==
    ASSUME Inv, NEW s \in Sessions, DeleteSelect(s)
    PROVE  Inv'
<1> USE DEF Inv
<1>1. PICK filters \in FilterSets, hard_delete \in BOOLEAN :
        \E i \in First(filters, FALSE) :
            /\ seen' = [seen EXCEPT ![s] = Loaded(s, i)]
            /\ call' = [call EXCEPT ![s] =
                          [op |-> IF hard_delete THEN "delete" ELSE "soft_delete",
                           id |-> i, data |-> [is_deleted |-> TRUE], expected |-> NULL]]
    BY DEF DeleteSelect
<1>2. PICK i \in First(filters, FALSE) :
        /\ seen' = [seen EXCEPT ![s] = Loaded(s, i)]
        /\ call' = [call EXCEPT ![s] =
                      [op |-> IF hard_delete THEN "delete" ELSE "soft_delete",
                       id |-> i, data |-> [is_deleted |-> TRUE], expected |-> NULL]]
    BY <1>1
<1>3. call[s] = Idle /\ UNCHANGED <<rows, created, cache, got, versioned, cached>>
    BY DEF DeleteSelect
<1>4. i \in DOMAIN rows /\ i \in Ids
    BY FirstIsStored
<1> DEFINE c == [op |-> IF hard_delete THEN "delete" ELSE "soft_delete",
                 id |-> i, data |-> [is_deleted |-> TRUE], expected |-> NULL]
<1>5. [is_deleted |-> TRUE] \in NewData
    <2>1. [is_deleted |-> TRUE] \in [is_deleted : BOOLEAN]
        OBVIOUS
    <2>2. [is_deleted : BOOLEAN] = [{"is_deleted"} -> BOOLEAN]
        OBVIOUS
    <2> QED
        BY <2>1, <2>2 DEF NewData
<1>6. c \in {Idle} \cup CallRecords
    BY <1>4, <1>5 DEF CallRecords, Stated
<1>7. c.id = i /\ c.expected = NULL
    OBVIOUS
<1>8. DOMAIN cache' = Sessions /\ DOMAIN got' = Sessions
    BY <1>3 DEF Maps
<1>9. call' = [call EXCEPT ![s] = c] /\ seen' = [seen EXCEPT ![s] = Loaded(s, i)]
    BY <1>2
<1> HIDE DEF c
<1> QED
    BY <1>3, <1>4, <1>6, <1>7, <1>8, <1>9, LoadedInv

LEMMA CommitCallInv ==
    ASSUME Inv, NEW s \in Sessions, CommitCall(s)
    PROVE  Inv'
<1> USE DEF Inv
<1> DEFINE c == call[s]
           instance == Instance(s, c.id)
<1>1. /\ c \in CallRecords
      /\ versioned \in BOOLEAN
    BY IdleIsNoCall DEF CommitCall, Maps, TypeOK
<1>2. /\ DOMAIN rows' \subseteq DOMAIN rows
      /\ \A i \in DOMAIN rows' : rows'[i] \in Row /\ rows'[i].id = i
    <2>1. CASE Update(s)
        <3>1. /\ rows' = [rows EXCEPT ![c.id] = Written(rows[c.id], c, instance)]
              /\ c.id \in DOMAIN rows
            BY <2>1 DEF Update, Addressed
        <3>2. rows[c.id] \in Row /\ rows[c.id].id = c.id
            BY <3>1 DEF TypeOK
        <3>3. /\ Written(rows[c.id], c, instance) \in Row
              /\ Written(rows[c.id], c, instance).id = c.id
            BY <1>1, <3>2, WrittenIsTyped
        <3>4. DOMAIN rows' = DOMAIN rows
            BY <3>1
        <3>5. ASSUME NEW i \in DOMAIN rows
              PROVE  rows'[i] \in Row /\ rows'[i].id = i
            <4>1. CASE i = c.id
                BY <3>1, <3>3, <4>1
            <4>2. CASE i # c.id
                BY <3>1, <4>2 DEF TypeOK
            <4> QED
                BY <4>1, <4>2
        <3> QED
            BY <3>4, <3>5
    <2>2. CASE Delete(s)
        BY <2>2 DEF Delete, Restrict, TypeOK
    <2>3. CASE NoWrite(s)
        BY <2>3 DEF NoWrite, TypeOK
    <2> QED
        BY <2>1, <2>2, <2>3 DEF CommitCall
<1>3. /\ DOMAIN seen' = Sessions /\ seen'[s] = Nothing /\ DOMAIN Nothing = {}
      /\ call'[s] = Idle
      /\ \A t \in Sessions \ {s} : seen'[t] = seen[t] /\ call'[t] = call[t]
      /\ call' \in [Sessions -> {Idle} \cup CallRecords]
      /\ UNCHANGED <<created, cache, got, versioned, cached>>
    BY DEF CommitCall, Expire, Maps, Nothing
<1>4. TypeOK'
    <2>1. ASSUME NEW t \in Sessions
          PROVE  /\ DOMAIN seen'[t] \subseteq 1..created
                 /\ \A i \in DOMAIN seen'[t] : seen'[t][i] \in Row /\ seen'[t][i].id = i
                 /\ call'[t] # Idle => call'[t].id \in DOMAIN seen'[t]
        BY <1>3 DEF TypeOK
    <2> QED
        BY <1>2, <1>3, <2>1 DEF TypeOK
<1>5. Maps' /\ Checked'
    BY <1>3 DEF Maps, Checked
<1> QED
    BY <1>4, <1>5

LEMMA CloseInv ==
    ASSUME Inv, NEW s \in Sessions, Close(s)
    PROVE  Inv'
<1> USE DEF Inv
<1>1. /\ DOMAIN seen' = Sessions /\ seen'[s] = Nothing /\ DOMAIN Nothing = {}
      /\ \A t \in Sessions \ {s} : seen'[t] = seen[t]
      /\ call[s] = Idle
      /\ DOMAIN cache' = Sessions /\ DOMAIN got' = Sessions
      /\ UNCHANGED <<rows, created, call, versioned, cached>>
    BY DEF Close, Expire, Maps, Nothing
<1>2. TypeOK'
    <2>1. ASSUME NEW t \in Sessions
          PROVE  /\ DOMAIN seen'[t] \subseteq 1..created
                 /\ \A i \in DOMAIN seen'[t] : seen'[t][i] \in Row /\ seen'[t][i].id = i
                 /\ call'[t] # Idle => call'[t].id \in DOMAIN seen'[t]
        BY <1>1 DEF TypeOK
    <2> QED
        BY <1>1, <2>1 DEF TypeOK
<1>3. Maps' /\ Checked'
    BY <1>1 DEF Maps, Checked
<1> QED
    BY <1>2, <1>3

LEMMA NextInv ==
    ASSUME Inv, [Next]_vars
    PROVE  Inv'
<1>1. ASSUME NEW s \in Sessions, CreateRecord(s)
      PROVE  Inv'
    BY <1>1, CreateRecordInv
<1>2. ASSUME NEW s \in Sessions, NEW i \in Ids, NEW include_deleted \in BOOLEAN,
             Retrieve(s, i, include_deleted)
      PROVE  Inv'
    BY <1>2, RetrieveInv
<1>3. ASSUME NEW s \in Sessions, UpdateSelect(s)
      PROVE  Inv'
    BY <1>3, UpdateSelectInv
<1>4. ASSUME NEW s \in Sessions, DeleteSelect(s)
      PROVE  Inv'
    BY <1>4, DeleteSelectInv
<1>5. ASSUME NEW s \in Sessions, CommitCall(s)
      PROVE  Inv'
    BY <1>5, CommitCallInv
<1>6. ASSUME NEW s \in Sessions, Close(s)
      PROVE  Inv'
    BY <1>6, CloseInv
<1>7. CASE UNCHANGED vars
    BY <1>7 DEF vars, Inv, TypeOK, Maps, Checked
<1> QED
    BY <1>1, <1>2, <1>3, <1>4, <1>5, <1>6, <1>7 DEF Next

-----------------------------------------------------------------------------
(* The theorems *)

\* The type invariant of the table and of the sessions' identity maps.
THEOREM TypeCorrect == Spec => []TypeOK
<1>1. Init => Inv
    BY InitInv
<1>2. Inv /\ [Next]_vars => Inv'
    BY NextInv
<1>3. Inv => TypeOK
    BY DEF Inv
<1> QED
    BY <1>1, <1>2, <1>3, PTL DEF Spec

(* A step in which a row of the table changes or goes while a call ends is *)
(* the commit of that call: the calls of other sessions go on.             *)
LEMMA EndsByCommit ==
    ASSUME Inv, Next, NEW s \in Sessions, call[s] # Idle, call'[s] = Idle
    PROVE  CommitCall(s)
<1> USE DEF Inv
<1>1. call \in [Sessions -> {Idle} \cup CallRecords]
    BY DEF Maps
<1>2. ASSUME NEW t \in Sessions, CreateRecord(t) \/ Close(t)
      PROVE  FALSE
    BY <1>2 DEF CreateRecord, Close
<1>3. ASSUME NEW t \in Sessions, NEW i \in Ids, NEW include_deleted \in BOOLEAN,
             Retrieve(t, i, include_deleted)
      PROVE  FALSE
    BY <1>3 DEF Retrieve
<1>4. ASSUME NEW t \in Sessions, UpdateSelect(t) \/ DeleteSelect(t)
      PROVE  FALSE
    <2>1. call[t] = Idle /\ \E c : call' = [call EXCEPT ![t] = c]
        BY <1>4 DEF UpdateSelect, DeleteSelect
    <2> QED
        BY <1>1, <2>1
<1>5. ASSUME NEW t \in Sessions, CommitCall(t)
      PROVE  t = s
    BY <1>1, <1>5 DEF CommitCall
<1> QED
    BY <1>2, <1>3, <1>4, <1>5 DEF Next

(* README.md:52, core/optimistic_lock.py: with version_id_col, an update   *)
(* that checked the version its client stated changes the row of that      *)
(* version, whatever other sessions commit between the check and its       *)
(* commit.                                                                 *)
THEOREM StatedVersion == Spec => StatedVersionHolds
<1> DEFINE A == \A s \in Sessions :
                  (/\ call[s].op = "update" /\ call'[s] = Idle /\ rows' # rows
                   /\ versioned /\ call[s].expected # NULL)
                    => rows[call[s].id].version = call[s].expected
<1>1. Init => Inv
    BY InitInv
<1>2. Inv /\ [Next]_vars => Inv'
    BY NextInv
<1>3. Inv /\ [Next]_vars => [A]_vars
    <2> SUFFICES ASSUME Inv, Next, NEW s \in Sessions,
                        call[s].op = "update", call'[s] = Idle, rows' # rows,
                        versioned, call[s].expected # NULL
                 PROVE  rows[call[s].id].version = call[s].expected
        OBVIOUS
    <2>1. call[s] # Idle
        BY DEF Idle
    <2>2. CommitCall(s)
        BY <2>1, EndsByCommit
    <2>3. Addressed(call[s], Instance(s, call[s].id))
        BY <2>2 DEF CommitCall, Update, Delete, NoWrite
    <2>4. rows[call[s].id].version = Instance(s, call[s].id).version
        BY <2>3 DEF Addressed
    <2>5. Instance(s, call[s].id) = seen[s][call[s].id]
        BY <2>1 DEF Inv, TypeOK, Instance
    <2>6. seen[s][call[s].id].version = call[s].expected
        BY <2>1 DEF Inv, Checked
    <2> QED
        BY <2>4, <2>5, <2>6
<1> QED
    BY <1>1, <1>2, <1>3, PTL DEF Spec, StatedVersionHolds

(* Every column of a row changes only to what the committing call assigns  *)
(* to it, whatever the session held of the row's other columns: a commit   *)
(* writes no other column back.                                            *)
THEOREM AssignedColumns == Spec => OnlyAssignedColumnsChange
<1> DEFINE A == \A i \in DOMAIN rows \cap DOMAIN rows', f \in Fields :
                  rows'[i][f] # rows[i][f] =>
                    \E s \in Sessions :
                       /\ call[s] # Idle /\ call'[s] = Idle /\ call[s].id = i
                       /\ f \in DOMAIN call[s].data /\ call[s].data[f] = rows'[i][f]
<1>1. Init => Inv
    BY InitInv
<1>2. Inv /\ [Next]_vars => Inv'
    BY NextInv
<1>3. Inv /\ [Next]_vars => [A]_vars
    <2> SUFFICES ASSUME Inv, Next, NEW i \in DOMAIN rows \cap DOMAIN rows',
                        NEW f \in Fields, rows'[i][f] # rows[i][f]
                 PROVE  \E s \in Sessions :
                           /\ call[s] # Idle /\ call'[s] = Idle /\ call[s].id = i
                           /\ f \in DOMAIN call[s].data
                           /\ call[s].data[f] = rows'[i][f]
        OBVIOUS
    <2>1. ASSUME NEW s \in Sessions, CreateRecord(s)
          PROVE  FALSE
        <3>1. i # created'
            BY <2>1, RepositoryAssumption DEF CreateRecord, Inv, TypeOK
        <3> QED
            BY <2>1, <3>1 DEF CreateRecord
    <2>2. ASSUME NEW s \in Sessions, CommitCall(s)
          PROVE  Update(s) /\ call[s].id = i
        <3>1. CASE Update(s)
            BY <3>1 DEF Update
        <3>2. CASE Delete(s)
            BY <3>2 DEF Delete, Restrict
        <3>3. CASE NoWrite(s)
            BY <3>3 DEF NoWrite
        <3> QED
            BY <2>2, <3>1, <3>2, <3>3 DEF CommitCall
    <2>3. ASSUME NEW s \in Sessions, CommitCall(s)
          PROVE  /\ call[s] # Idle /\ call'[s] = Idle
                 /\ f \in DOMAIN call[s].data /\ call[s].data[f] = rows'[i][f]
        <3>1. /\ call[s] # Idle /\ call'[s] = Idle /\ call[s] \in CallRecords
              /\ versioned \in BOOLEAN /\ rows[i] \in Row
            BY <2>3, IdleIsNoCall DEF CommitCall, Inv, Maps, TypeOK
        <3>2. rows'[i] = Written(rows[i], call[s], Instance(s, call[s].id))
            BY <2>2, <2>3 DEF Update
        <3> QED
            BY <3>1, <3>2, WrittenIsTyped
    <2>4. ASSUME NEW s \in Sessions,
                 \/ UpdateSelect(s) \/ DeleteSelect(s) \/ Close(s)
                 \/ \E j \in Ids, include_deleted \in BOOLEAN :
                       Retrieve(s, j, include_deleted)
          PROVE  FALSE
        BY <2>4 DEF UpdateSelect, DeleteSelect, Close, Retrieve
    <2> QED
        BY <2>1, <2>2, <2>3, <2>4 DEF Next
<1> QED
    BY <1>1, <1>2, <1>3, PTL DEF Spec, OnlyAssignedColumnsChange

-----------------------------------------------------------------------------
(* RepositoryCalls: the inductive invariant *)

RowTypes == [a : Values, ended : BOOLEAN, deleted : BOOLEAN]

CallTypes ==
    {NoCall}
    \cup [op : {"insert"}, as : {"get_or_create", "upsert"}, a : Values]
    \cup [op : CallNames, id : Nat, row : RowTypes, a : Values]

\* Rows are numbered as they are created, and a call in progress carries what
\* its step needs: the row it has read, with all its columns.
CallsTypeOK ==
    /\ repo \in Tested
    /\ by \in {q.by : q \in Lookup(repo)} \cup {{"id"}}
    /\ inserted \in Nat
    /\ DOMAIN matching \subseteq 1 .. inserted
    /\ matching \in [DOMAIN matching -> RowTypes]
    /\ pending \in [Callers -> CallTypes]

LEMMA NoRows ==
    ASSUME NEW x
    PROVE  /\ DOMAIN [i \in {} |-> x] = {}
           /\ \A S, T : [i \in {} |-> x] \in [{} -> T]
OBVIOUS

\* What Restrict leaves of a function.
LEMMA Restricted ==
    ASSUME NEW f, NEW S
    PROVE  /\ DOMAIN Restrict(f, S) = S
           /\ \A i \in S : Restrict(f, S)[i] = f[i]
BY DEF Restrict

LEMMA InitTypeOK == CallsInit => CallsTypeOK
<1> SUFFICES ASSUME CallsInit PROVE CallsTypeOK
    OBVIOUS
<1>1. matching = [i \in {} |-> NoCall] /\ inserted = 0
    BY DEF CallsInit, NoCallYet
<1>2. DOMAIN matching = {} /\ matching \in [DOMAIN matching -> RowTypes]
    BY <1>1, NoRows
<1>3. pending \in [Callers -> CallTypes]
    BY DEF CallsInit, NoCallYet, CallTypes
<1> QED
    BY <1>1, <1>2, <1>3 DEF CallsInit, CallsTypeOK

\* Every column that a call leaves or assigns has a value of its type.
LEMMA MergedIsTyped ==
    ASSUME NEW row \in RowTypes, NEW cl \in CallTypes,
           cl.op \notin {"idle", "insert"}
    PROVE  /\ Merged(row, cl) \in RowTypes
           /\ row.ended => Merged(row, cl).ended
           /\ row.deleted => Merged(row, cl).deleted
<1>1. cl \in [op : CallNames, id : Nat, row : RowTypes, a : Values]
    BY DEF CallTypes, NoCall
<1>2. /\ Assigned(cl) \in RowTypes
      /\ Assigned(cl).ended \in {cl.row.ended, TRUE}
      /\ Assigned(cl).deleted \in {cl.row.deleted, TRUE}
    BY <1>1 DEF Assigned, RowTypes
<1> DEFINE w == Merged(row, cl)
<1>3. w = [f \in {"a", "ended", "deleted"} |->
              IF Assigned(cl)[f] # cl.row[f] THEN Assigned(cl)[f] ELSE row[f]]
    BY DEF Merged, RowTypes
<1>4. /\ w.a \in Values /\ w.ended \in BOOLEAN /\ w.deleted \in BOOLEAN
      /\ row.ended => w.ended
      /\ row.deleted => w.deleted
    BY <1>1, <1>2, <1>3 DEF RowTypes
<1>5. w = [a |-> w.a, ended |-> w.ended, deleted |-> w.deleted]
    BY <1>3
<1> QED
    BY <1>4, <1>5 DEF RowTypes

\* What the steps of the calls do to the rows.
LEMMA InsertStep ==
    ASSUME CallsTypeOK, NEW c \in Callers, NEW a \in Values, Insert(c, a)
    PROVE  /\ CallsTypeOK'
           /\ DOMAIN matching \subseteq DOMAIN matching'
           /\ \A i \in DOMAIN matching : matching'[i] = matching[i]
           /\ UNCHANGED <<repo, by>>
           /\ \/ UNCHANGED matching
              \/ /\ ~Exact \/ matching = <<>>
                 /\ DOMAIN matching' = DOMAIN matching \cup {inserted + 1}
<1>1. /\ UNCHANGED <<repo, by>>
      /\ \E what : pending' = [pending EXCEPT ![c] = NoCall]
    BY DEF Insert, Tell
<1>2. pending' \in [Callers -> CallTypes]
    BY <1>1 DEF CallsTypeOK, CallTypes
<1>3. CASE UNCHANGED <<matching, inserted>>
    BY <1>1, <1>2, <1>3 DEF CallsTypeOK
<1>4. CASE ~(Exact /\ matching # <<>>)
    <2>1. /\ inserted' = inserted + 1
          /\ matching' = [i \in DOMAIN matching \cup {inserted + 1} |->
                        IF i = inserted + 1
                        THEN [a |-> a, ended |-> FALSE, deleted |-> FALSE]
                        ELSE matching[i]]
        BY <1>4 DEF Insert
    <2>2. inserted + 1 \notin DOMAIN matching /\ inserted' \in Nat
          /\ DOMAIN matching' \subseteq 1 .. inserted'
        BY <2>1 DEF CallsTypeOK
    <2>3. [a |-> a, ended |-> FALSE, deleted |-> FALSE] \in RowTypes
        BY DEF RowTypes
    <2>4. matching' \in [DOMAIN matching' -> RowTypes]
        BY <2>1, <2>3 DEF CallsTypeOK
    <2>5. \A i \in DOMAIN matching : matching'[i] = matching[i]
        BY <2>1, <2>2
    <2> QED
        BY <1>1, <1>2, <1>4, <2>1, <2>2, <2>4, <2>5 DEF CallsTypeOK
<1> QED
    BY <1>3, <1>4 DEF Insert

LEMMA EndAllStep ==
    ASSUME CallsTypeOK, NEW c \in Callers, EndAll(c)
    PROVE  /\ CallsTypeOK'
           /\ DOMAIN matching' = DOMAIN matching
           /\ \A i \in DOMAIN matching : matching'[i] = [matching[i] EXCEPT !.ended = TRUE]
           /\ UNCHANGED <<repo, by>>
<1>1. /\ UNCHANGED <<repo, by, inserted>>
      /\ pending' = [pending EXCEPT ![c] = NoCall]
      /\ matching' = [i \in DOMAIN matching |-> [matching[i] EXCEPT !.ended = TRUE]]
    BY DEF EndAll, Tell
<1>2. pending' \in [Callers -> CallTypes]
    BY <1>1 DEF CallsTypeOK, CallTypes
<1>3. \A i \in DOMAIN matching : [matching[i] EXCEPT !.ended = TRUE] \in RowTypes
    BY DEF CallsTypeOK, RowTypes
<1> QED
    BY <1>1, <1>2, <1>3 DEF CallsTypeOK

LEMMA SelectStep ==
    ASSUME CatalogueAssumption, CallsTypeOK, NEW c \in Callers,
           NEW op \in repo.calls, NEW a \in Values, Select(c, op, a)
    PROVE  CallsTypeOK' /\ UNCHANGED <<repo, by, matching>>
<1>1. UNCHANGED <<repo, by, matching, inserted>>
    BY DEF Select
<1>2. op \in CallNames
    BY DEF CatalogueAssumption, CallsTypeOK
<1>3. Readable \subseteq DOMAIN matching
    BY DEF Readable, Shown
<1>4. pending' \in [Callers -> CallTypes]
    <2>1. CASE \E i \in Readable :
                 pending' = [pending EXCEPT ![c] =
                            [op |-> op, id |-> i, row |-> matching[i], a |-> a]]
        <3>1. PICK i \in DOMAIN matching :
                pending' = [pending EXCEPT ![c] =
                           [op |-> op, id |-> i, row |-> matching[i], a |-> a]]
            BY <1>3, <2>1
        <3>2. i \in Nat /\ matching[i] \in RowTypes
            BY DEF CallsTypeOK
        <3>3. [op |-> op, id |-> i, row |-> matching[i], a |-> a] \in CallTypes
            BY <1>2, <3>2 DEF CallTypes
        <3> QED
            BY <3>1, <3>3 DEF CallsTypeOK
    <2>2. CASE /\ op \in {"get_or_create", "upsert"}
               /\ pending' = [pending EXCEPT ![c] = [op |-> "insert", as |-> op, a |-> a]]
        BY <2>2 DEF CallsTypeOK, CallTypes
    <2> QED
        BY <2>1, <2>2 DEF Select
<1> QED
    BY <1>1, <1>4 DEF CallsTypeOK

LEMMA CommitDeleteStep ==
    ASSUME CallsTypeOK, NEW c \in Callers, CommitDelete(c)
    PROVE  /\ CallsTypeOK'
           /\ DOMAIN matching' \subseteq DOMAIN matching
           /\ \A i \in DOMAIN matching' : matching'[i] = matching[i]
           /\ UNCHANGED <<repo, by>>
<1>1. /\ UNCHANGED <<repo, by, inserted>>
      /\ pending' = [pending EXCEPT ![c] = NoCall]
      /\ matching' = Restrict(matching, DOMAIN matching \ {pending[c].id})
    BY DEF CommitDelete, Tell
<1>2. pending' \in [Callers -> CallTypes]
    BY <1>1 DEF CallsTypeOK, CallTypes
<1>3. /\ DOMAIN matching' = DOMAIN matching \ {pending[c].id}
      /\ \A i \in DOMAIN matching' : matching'[i] = matching[i]
    BY <1>1, Restricted
<1>4. matching' \in [DOMAIN matching' -> RowTypes]
    BY <1>1, <1>3 DEF CallsTypeOK, Restrict
<1> QED
    BY <1>1, <1>2, <1>3, <1>4 DEF CallsTypeOK

LEMMA CommitUpdateStep ==
    ASSUME CallsTypeOK, NEW c \in Callers, CommitUpdate(c)
    PROVE  /\ CallsTypeOK'
           /\ DOMAIN matching' = DOMAIN matching
           /\ \A i \in DOMAIN matching :
                /\ matching[i].ended => matching'[i].ended
                /\ matching[i].deleted => matching'[i].deleted
           /\ UNCHANGED <<repo, by>>
<1>1. /\ UNCHANGED <<repo, by, inserted>>
      /\ pending' = [pending EXCEPT ![c] = NoCall]
    BY DEF CommitUpdate, Tell
<1>2. pending' \in [Callers -> CallTypes]
    BY <1>1 DEF CallsTypeOK, CallTypes
<1>3. CASE UNCHANGED matching
    BY <1>1, <1>2, <1>3 DEF CallsTypeOK
<1>4. CASE /\ pending[c].id \in DOMAIN matching
           /\ matching' = [matching EXCEPT ![pending[c].id] = Merged(@, pending[c])]
    <2> DEFINE n == pending[c].id
               w == Merged(matching[n], pending[c])
    <2>1. /\ w \in RowTypes
          /\ matching[n].ended => w.ended
          /\ matching[n].deleted => w.deleted
        BY <1>4, MergedIsTyped DEF CommitUpdate, CallsTypeOK
    <2>2. /\ DOMAIN matching' = DOMAIN matching /\ matching'[n] = w
          /\ \A i \in DOMAIN matching \ {n} : matching'[i] = matching[i]
          /\ matching' \in [DOMAIN matching' -> RowTypes]
        BY <1>4, <2>1 DEF CallsTypeOK
    <2> QED
        BY <1>1, <1>2, <2>1, <2>2 DEF CallsTypeOK
<1> QED
    BY <1>3, <1>4 DEF CommitUpdate

LEMMA NextTypeOK ==
    ASSUME CatalogueAssumption, CallsTypeOK, [CallsNext]_callVars
    PROVE  CallsTypeOK'
<1>1. ASSUME NEW c \in Callers, NEW a \in Values, CreateRow(c, a)
      PROVE  CallsTypeOK'
    BY <1>1, InsertStep DEF CreateRow
<1>2. ASSUME NEW c \in Callers, NEW op \in repo.calls, NEW a \in Values,
             Select(c, op, a)
      PROVE  CallsTypeOK'
    BY <1>2, SelectStep
<1>3. ASSUME NEW c \in Callers, CommitInsert(c) PROVE CallsTypeOK'
    <2>1. pending[c].a \in Values /\ Insert(c, pending[c].a)
        BY <1>3 DEF CommitInsert, CallsTypeOK, CallTypes, CallNames, NoCall
    <2> QED
        BY <2>1, InsertStep
<1>4. ASSUME NEW c \in Callers, EndAll(c) PROVE CallsTypeOK'
    BY <1>4, EndAllStep
<1>5. ASSUME NEW c \in Callers, CommitDelete(c) PROVE CallsTypeOK'
    BY <1>5, CommitDeleteStep
<1>6. ASSUME NEW c \in Callers, CommitUpdate(c) PROVE CallsTypeOK'
    BY <1>6, CommitUpdateStep
<1>7. CASE UNCHANGED callVars
    BY <1>7 DEF callVars, CallsTypeOK
<1> QED
    BY <1>1, <1>2, <1>3, <1>4, <1>5, <1>6, <1>7 DEF CallsNext

LEMMA CallsInvariance ==
    ASSUME CatalogueAssumption
    PROVE  CallsSpec => []CallsTypeOK
BY InitTypeOK, NextTypeOK, PTL DEF CallsSpec

-----------------------------------------------------------------------------
(* Lookups of one record *)

OneRowAtMost == Exact => \A i, j \in DOMAIN matching : i = j

LEMMA StepOneRow ==
    ASSUME CatalogueAssumption, CallsTypeOK, OneRowAtMost,
           [CallsNext]_callVars
    PROVE  OneRowAtMost'
<1>1. ASSUME NEW c \in Callers, NEW a \in Values, Insert(c, a)
      PROVE  OneRowAtMost'
    <2>1. Exact' = Exact
        BY <1>1, InsertStep DEF Exact
    <2>2. CASE UNCHANGED matching
        BY <2>1, <2>2 DEF OneRowAtMost
    <2>3. CASE ~Exact
        BY <2>1, <2>3 DEF OneRowAtMost
    <2>4. CASE matching = <<>> /\ DOMAIN matching' = DOMAIN matching \cup {inserted + 1}
        BY <2>4 DEF OneRowAtMost
    <2> QED
        BY <1>1, <2>2, <2>3, <2>4, InsertStep
<1>2. ASSUME UNCHANGED <<repo, by>>, DOMAIN matching' \subseteq DOMAIN matching
      PROVE  OneRowAtMost'
    BY <1>2 DEF OneRowAtMost, Exact
<1>3. ASSUME NEW c \in Callers, NEW a \in Values, CreateRow(c, a)
      PROVE  OneRowAtMost'
    BY <1>1, <1>3 DEF CreateRow
<1>4. ASSUME NEW c \in Callers, NEW op \in repo.calls, NEW a \in Values,
             Select(c, op, a)
      PROVE  OneRowAtMost'
    BY <1>2, <1>4, SelectStep
<1>5. ASSUME NEW c \in Callers, CommitInsert(c) PROVE OneRowAtMost'
    <2>1. pending[c].a \in Values /\ Insert(c, pending[c].a)
        BY <1>5 DEF CommitInsert, CallsTypeOK, CallTypes, CallNames, NoCall
    <2> QED
        BY <1>1, <2>1
<1>6. ASSUME NEW c \in Callers, EndAll(c) \/ CommitDelete(c) \/ CommitUpdate(c)
      PROVE  OneRowAtMost'
    BY <1>2, <1>6, EndAllStep, CommitDeleteStep, CommitUpdateStep
<1>7. CASE UNCHANGED callVars
    BY <1>2, <1>7 DEF callVars
<1> QED
    BY <1>3, <1>4, <1>5, <1>6, <1>7 DEF CallsNext

(* However many clients look up, insert and commit in whatever order, one  *)
(* row at most carries the value that a lookup of one record compares: the *)
(* unique index refuses the second row that a get_or_create() or upsert()  *)
(* would add.  The catalogue must give each such lookup an index or name   *)
(* it among the Keyless.                                                   *)
THEOREM LookupsAreExact ==
    ASSUME CatalogueAssumption
    PROVE  CallsSpec => []LookupIsExact
<1>1. CallsInit => OneRowAtMost
    BY NoRows DEF CallsInit, NoCallYet, OneRowAtMost
<1>2. CallsTypeOK /\ OneRowAtMost /\ [CallsNext]_callVars => OneRowAtMost'
    BY StepOneRow
<1>3. CallsTypeOK /\ OneRowAtMost => LookupIsExact
    BY DEF CallsTypeOK, OneRowAtMost, LookupIsExact, Exact, CatalogueAssumption
<1> QED
    BY <1>1, <1>2, <1>3, CallsInvariance, PTL DEF CallsSpec

-----------------------------------------------------------------------------
(* Marks *)

\* A row stays ended and stays deleted from one state to the next.
MarksKept ==
    \A i \in DOMAIN matching \cap DOMAIN matching' :
        /\ matching[i].ended => matching'[i].ended
        /\ matching[i].deleted => matching'[i].deleted

LEMMA StepMarksKept ==
    ASSUME CatalogueAssumption, CallsTypeOK, CallsNext
    PROVE  MarksKept
<1>1. ASSUME NEW c \in Callers, NEW a \in Values, CreateRow(c, a)
      PROVE  MarksKept
    BY <1>1, InsertStep DEF CreateRow, MarksKept
<1>2. ASSUME NEW c \in Callers, NEW op \in repo.calls, NEW a \in Values,
             Select(c, op, a)
      PROVE  MarksKept
    BY <1>2, SelectStep DEF MarksKept
<1>3. ASSUME NEW c \in Callers, CommitInsert(c) PROVE MarksKept
    <2>1. pending[c].a \in Values /\ Insert(c, pending[c].a)
        BY <1>3 DEF CommitInsert, CallsTypeOK, CallTypes, CallNames, NoCall
    <2> QED
        BY <2>1, InsertStep DEF MarksKept
<1>4. ASSUME NEW c \in Callers, EndAll(c) PROVE MarksKept
    BY <1>4, EndAllStep DEF MarksKept, CallsTypeOK, RowTypes
<1>5. ASSUME NEW c \in Callers, CommitDelete(c) PROVE MarksKept
    BY <1>5, CommitDeleteStep DEF MarksKept
<1>6. ASSUME NEW c \in Callers, CommitUpdate(c) PROVE MarksKept
    BY <1>6, CommitUpdateStep DEF MarksKept
<1> QED
    BY <1>1, <1>2, <1>3, <1>4, <1>5, <1>6 DEF CallsNext

(* A revoked key or token, an accepted invite and a soft-deleted row stay  *)
(* what they are although calls that read the row before commit afterwards: *)
(* an UPDATE names only the columns that the call has changed              *)
(* (MergedIsTyped).                                                       *)
THEOREM MarksStay ==
    ASSUME CatalogueAssumption
    PROVE  CallsSpec => MarksLast
<1>1. CallsTypeOK /\ [CallsNext]_callVars => [MarksKept]_callVars
    BY StepMarksKept
<1>2. CallsSpec => [][MarksKept]_callVars
    BY <1>1, CallsInvariance, PTL DEF CallsSpec
<1> QED
    BY <1>2 DEF MarksLast, MarksKept

-----------------------------------------------------------------------------
(* Soft-deleted rows *)

LEMMA SoftDeleters ==
    ASSUME NEW r \in Repositories, "soft_delete" \in r.calls
    PROVE  r = SubscriptionRepository
BY DEF Repositories, Repository,
    HealthcareFacilityRepository, HealthcarePatientRepository,
    HealthcarePractitionerRepository, ClinicalEncounterRepository,
    ClinicalEncounterParticipantRepository, IndustrialFacilityRepository,
    IndustrialAssetRepository, IndustrialIoTDeviceRepository,
    IndustrialTelemetryChannelRepository, IndustrialTelemetrySampleRepository,
    CrowdfundingCampaignRepository, CrowdfundingRewardRepository,
    CrowdfundingPledgeRepository, OrganizationRepository,
    OrganizationMemberRepository, OrganizationInviteRepository,
    ProductRepository, InvoiceRepository, PaymentTransactionRepository,
    PlanRepository, CouponRepository, DocumentRepository,
    InterviewReminderRepository, NotificationHistoryRepository,
    AuditRepository, ProfileRepository, SessionRepository, UserRepository,
    ConversationRepository, ApiKeyRepository, RefreshTokenRepository,
    UserLlmProviderKeyRepository, UserNotificationPreferenceRepository,
    UserUsageAlertPreferenceRepository, WebhookRepository,
    WebhookDeliveryRepository

LEMMA SubscriptionQueries ==
    ASSUME NEW q \in SubscriptionRepository.queries
    PROVE  q.of = "active"
BY DEF SubscriptionRepository, Repository, Active, ById, ByUrn, One, Some, Many,
       Query

(* Of the catalogued repositories, whichever of them clients use, the one  *)
(* that soft-deletes never returns a row it has soft-deleted: each of its  *)
(* queries leaves them out, for whatever rows the calls of other clients   *)
(* have left.                                                              *)
THEOREM DeletedStayHidden ==
    ASSUME Tested \subseteq Repositories
    PROVE  CallsSpec => []DeletedStaysHidden
<1>1. CallsInit => repo \in Tested
    BY DEF CallsInit
<1>2. repo \in Tested /\ [CallsNext]_callVars => (repo \in Tested)'
    BY DEF CallsNext, callVars, CreateRow, Select, EndAll, CommitInsert,
           CommitDelete, CommitUpdate, Insert, Tell
<1>3. repo \in Tested => DeletedStaysHidden
    <2> SUFFICES ASSUME repo \in Repositories, "soft_delete" \in repo.calls,
                        NEW q \in repo.queries, NEW i \in Shown(q)
                 PROVE  ~matching[i].deleted
        BY DEF DeletedStaysHidden
    <2>1. repo = SubscriptionRepository
        BY SoftDeleters
    <2>2. q.of = "active"
        BY <2>1, SubscriptionQueries
    <2> QED
        BY <2>2 DEF Shown
<1> QED
    BY <1>1, <1>2, <1>3, PTL DEF CallsSpec
=============================================================================
