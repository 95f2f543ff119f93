------------------------ MODULE TopologicalSort_proofs ------------------------
(***************************************************************************)
(* Proofs about Kahn's algorithm and about the two machines that use it,   *)
(* Migrations and Seeder: for any nodes and dependencies the sort lists    *)
(* every node once and after what it depends on, if there is no circle;    *)
(* for any processes, models, orders of registration and rollbacks the     *)
(* report of a run is true, and one run in order is enough; seeding and    *)
(* resetting all models follow the foreign keys.                           *)
(***************************************************************************)
EXTENDS Migrations, Seeder, FiniteSetTheorems, SequenceTheorems,
        WellFoundedInduction, TLAPS

-----------------------------------------------------------------------------
(* Numbers *)

\* A set of numbers that is not empty has a smallest one.
LEMMA SmallestOf ==
    ASSUME NEW S \in SUBSET Nat, NEW k \in S
    PROVE  \E m \in S : \A n \in S : m <= n
<1> DEFINE T == {1 .. n : n \in {n \in S : n <= k}}
<1>1. IsWellFoundedOn(StrictSubsetOrdering(1 .. k), FiniteSubsetsOf(1 .. k))
    BY FS_StrictSubsetOrderingWellFounded, FS_Interval
<1>2. T \subseteq FiniteSubsetsOf(1 .. k)
    <2> SUFFICES ASSUME NEW n \in S, n <= k
                  PROVE  1 .. n \in SUBSET (1 .. k) /\ IsFiniteSet(1 .. n)
        BY DEF FiniteSubsetsOf
    <2> QED
        BY FS_Interval
<1>3. T # {}
    OBVIOUS
<1>4. PICK x \in T : \A y \in T : <<y, x>> \notin StrictSubsetOrdering(1 .. k)
    BY <1>1, <1>2, <1>3, WFMin
<1>5. PICK m \in S : m <= k /\ x = 1 .. m
    OBVIOUS
<1>6. ASSUME NEW n \in S, n < m PROVE FALSE
    <2>1. 1 .. n \in T /\ 1 .. n \subseteq 1 .. k /\ x \subseteq 1 .. k
        BY <1>5, <1>6
    <2>2. 1 .. n \subseteq x /\ m \in x /\ m \notin 1 .. n
        BY <1>5, <1>6
    <2> QED
        BY <1>4, <2>1, <2>2 DEF StrictSubsetOrdering
<1> QED
    BY <1>6

-----------------------------------------------------------------------------
(* Lists *)

Distinct(s) == \A i, j \in 1 .. Len(s) : s[i] = s[j] => i = j

\* Every node comes after what it depends on, except for what is ready.
Waiting(s, deps, ready) ==
    \A i \in 1 .. Len(s) : \A d \in deps[s[i]] :
        d \in ready \/ \E k \in 1 .. i - 1 : s[k] = d

InDependencyOrder(s, deps) == Waiting(s, deps, {})

LEMMA ToSetIs ==
    ASSUME NEW S, NEW s \in Seq(S)
    PROVE  /\ ToSet(s) = {s[i] : i \in 1 .. Len(s)}
           /\ ToSet(s) \subseteq S
           /\ Len(s) \in Nat
<1>1. DOMAIN s = 1 .. Len(s) /\ Len(s) \in Nat /\ \A i \in 1 .. Len(s) : s[i] \in S
    BY LenProperties, ElementOfSeq
<1> QED
    BY <1>1 DEF ToSet

LEMMA AppendDistinct ==
    ASSUME NEW S, NEW s \in Seq(S), NEW e \in S
    PROVE  /\ Append(s, e) \in Seq(S)
           /\ ToSet(Append(s, e)) = ToSet(s) \cup {e}
           /\ Distinct(s) /\ e \notin ToSet(s) => Distinct(Append(s, e))
<1> DEFINE t == Append(s, e)
<1>1. /\ t \in Seq(S) /\ Len(t) = Len(s) + 1 /\ Len(s) \in Nat
      /\ \A i \in 1 .. Len(s) : t[i] = s[i]
      /\ t[Len(s) + 1] = e
    BY AppendProperties, LenProperties
<1> HIDE DEF t
<1>2. ToSet(t) = {t[i] : i \in 1 .. Len(t)} /\ ToSet(s) = {s[i] : i \in 1 .. Len(s)}
    BY <1>1, ToSetIs
<1>3. ToSet(t) = ToSet(s) \cup {e}
    BY <1>1, <1>2
<1>4. ASSUME Distinct(s), e \notin ToSet(s) PROVE Distinct(t)
    BY <1>1, <1>2, <1>4 DEF Distinct
<1> QED
    BY <1>1, <1>3, <1>4 DEF t

LEMMA ConcatDistinct ==
    ASSUME NEW S, NEW s \in Seq(S), NEW t \in Seq(S)
    PROVE  /\ s \o t \in Seq(S)
           /\ ToSet(s \o t) = ToSet(s) \cup ToSet(t)
           /\ Distinct(s) /\ Distinct(t) /\ ToSet(s) \cap ToSet(t) = {} => Distinct(s \o t)
<1> DEFINE u == s \o t
<1>1. /\ u \in Seq(S) /\ Len(u) = Len(s) + Len(t) /\ Len(s) \in Nat /\ Len(t) \in Nat
      /\ \A i \in 1 .. Len(u) : u[i] = IF i <= Len(s) THEN s[i] ELSE t[i - Len(s)]
    BY ConcatProperties, LenProperties
<1> HIDE DEF u
<1>2. /\ ToSet(u) = {u[i] : i \in 1 .. Len(u)}
      /\ ToSet(s) = {s[i] : i \in 1 .. Len(s)}
      /\ ToSet(t) = {t[i] : i \in 1 .. Len(t)}
    BY <1>1, ToSetIs
<1>3. ToSet(u) = ToSet(s) \cup ToSet(t)
    <2>1. \A i \in 1 .. Len(s) : i \in 1 .. Len(u) /\ u[i] = s[i]
        BY <1>1
    <2>2. \A i \in 1 .. Len(t) : Len(s) + i \in 1 .. Len(u) /\ u[Len(s) + i] = t[i]
        <3> TAKE i \in 1 .. Len(t)
        <3>1. /\ Len(s) + i \in 1 .. Len(u) /\ ~ (Len(s) + i <= Len(s))
              /\ (Len(s) + i) - Len(s) = i
            BY <1>1
        <3> QED
            BY <1>1, <3>1
    <2>3. \A i \in 1 .. Len(u) : u[i] \in ToSet(s) \cup ToSet(t)
        BY <1>1, <1>2
    <2> QED
        BY <1>2, <2>1, <2>2, <2>3
<1>4. ASSUME Distinct(s), Distinct(t), ToSet(s) \cap ToSet(t) = {},
             NEW i \in 1 .. Len(u), NEW j \in 1 .. Len(u), u[i] = u[j]
      PROVE  i = j
    <2>1. CASE i <= Len(s) /\ j <= Len(s)
        BY <1>1, <1>4, <2>1 DEF Distinct
    <2>2. CASE ~ (i <= Len(s)) /\ ~ (j <= Len(s))
        <3>1. i - Len(s) \in 1 .. Len(t) /\ j - Len(s) \in 1 .. Len(t)
            BY <1>1, <2>2
        <3>2. t[i - Len(s)] = t[j - Len(s)]
            BY <1>1, <1>4, <2>2
        <3>3. i - Len(s) = j - Len(s)
            BY <1>4, <3>1, <3>2 DEF Distinct
        <3> QED
            BY <1>1, <3>3
    <2>3. \A k \in 1 .. Len(u) : IF k <= Len(s) THEN u[k] \in ToSet(s) ELSE u[k] \in ToSet(t)
        <3> TAKE k \in 1 .. Len(u)
        <3>1. CASE k <= Len(s)
            BY <1>1, <1>2, <3>1
        <3>2. CASE ~ (k <= Len(s))
            <4>1. k - Len(s) \in 1 .. Len(t) /\ u[k] = t[k - Len(s)]
                BY <1>1, <3>2
            <4> QED
                BY <1>2, <3>2, <4>1
        <3> QED
            BY <3>1, <3>2
    <2>4. (i <= Len(s) /\ j <= Len(s)) \/ (~ (i <= Len(s)) /\ ~ (j <= Len(s)))
        BY <1>4, <2>3
    <2> QED
        BY <2>1, <2>2, <2>4
<1> QED
    BY <1>1, <1>3, <1>4 DEF u, Distinct

LEMMA TailDistinct ==
    ASSUME NEW S, NEW s \in Seq(S), s # <<>>
    PROVE  /\ Head(s) \in S /\ Tail(s) \in Seq(S)
           /\ ToSet(s) = {Head(s)} \cup ToSet(Tail(s))
           /\ Distinct(s) => Distinct(Tail(s)) /\ Head(s) \notin ToSet(Tail(s))
           /\ Len(Tail(s)) = Len(s) - 1 /\ Len(s) \in Nat \ {0}
           /\ Head(s) = s[1]
           /\ \A i \in 1 .. Len(Tail(s)) : Tail(s)[i] = s[i + 1]
<1> DEFINE t == Tail(s)
<1>1. /\ Head(s) \in S /\ t \in Seq(S) /\ Len(t) = Len(s) - 1
      /\ Len(s) \in Nat \ {0} /\ Head(s) = s[1]
      /\ \A i \in 1 .. Len(t) : t[i] = s[i + 1]
    <2>1. Len(s) \in Nat /\ Len(s) # 0
        BY LenProperties, EmptySeq
    <2> QED
        BY <2>1, HeadTailProperties
<1> HIDE DEF t
<1>2. ToSet(t) = {t[i] : i \in 1 .. Len(t)} /\ ToSet(s) = {s[i] : i \in 1 .. Len(s)}
    BY <1>1, ToSetIs
<1>3. ToSet(s) = {Head(s)} \cup ToSet(t)
    <2>1. \A i \in 1 .. Len(s) : s[i] \in {Head(s)} \cup ToSet(t)
        <3> TAKE i \in 1 .. Len(s)
        <3>1. CASE i = 1
            BY <1>1, <3>1
        <3>2. CASE i # 1
            <4>1. i - 1 \in 1 .. Len(t) /\ t[i - 1] = s[i]
                BY <1>1, <3>2
            <4> QED
                BY <1>2, <4>1
        <3> QED
            BY <3>1, <3>2
    <2>2. \A i \in 1 .. Len(t) : i + 1 \in 1 .. Len(s) /\ t[i] = s[i + 1]
        BY <1>1
    <2>3. 1 \in 1 .. Len(s)
        BY <1>1
    <2> QED
        BY <1>1, <1>2, <2>1, <2>2, <2>3
<1>4. ASSUME Distinct(s) PROVE Distinct(t) /\ Head(s) \notin ToSet(t)
    <2>1. \A i \in 1 .. Len(t) : i + 1 \in 1 .. Len(s) /\ t[i] = s[i + 1] /\ i + 1 # 1
        BY <1>1
    <2>2. 1 \in 1 .. Len(s)
        BY <1>1
    <2>3. Head(s) \notin ToSet(t)
        BY <1>1, <1>2, <1>4, <2>1, <2>2 DEF Distinct
    <2>4. \A i, j \in 1 .. Len(t) : t[i] = t[j] => i = j
        <3> TAKE i, j \in 1 .. Len(t)
        <3>1. t[i] = t[j] => i + 1 = j + 1
            BY <1>4, <2>1 DEF Distinct
        <3> QED
            BY <3>1
    <2> QED
        BY <2>3, <2>4 DEF Distinct
<1> QED
    BY <1>1, <1>3, <1>4 DEF t

LEMMA ReverseKeeps ==
    ASSUME NEW S, NEW s \in Seq(S)
    PROVE  /\ Reverse(s) \in Seq(S)
           /\ Len(Reverse(s)) = Len(s)
           /\ \A i \in 1 .. Len(s) : Reverse(s)[i] = s[Len(s) - i + 1]
           /\ s # <<>> => Reverse(s) # <<>>
           /\ ToSet(Reverse(s)) = ToSet(s)
<1>1. Len(s) \in Nat /\ \A i \in 1 .. Len(s) : s[i] \in S
    BY LenProperties, ElementOfSeq
<1>2. Reverse(s) = [i \in 1 .. Len(s) |-> s[(Len(s) - i) + 1]]
    BY DEF Reverse
<1>3. \A i \in 1 .. Len(s) : Len(s) - i + 1 \in 1 .. Len(s)
    BY <1>1
<1>4. Reverse(s) \in Seq(S) /\ Len(Reverse(s)) = Len(s)
    BY <1>1, <1>2, <1>3, IsASeq
<1>5. \A i \in 1 .. Len(s) : Reverse(s)[i] = s[Len(s) - i + 1]
    BY <1>2
<1>6. s # <<>> => Reverse(s) # <<>>
    BY <1>4, EmptySeq
<1>7. ToSet(Reverse(s)) = ToSet(s)
    <2>1. /\ ToSet(s) = {s[i] : i \in 1 .. Len(s)}
          /\ ToSet(Reverse(s)) = {Reverse(s)[i] : i \in 1 .. Len(s)}
        BY <1>4, ToSetIs
    <2>2. \A i \in 1 .. Len(s) : Reverse(s)[Len(s) - i + 1] = s[i]
        <3> TAKE i \in 1 .. Len(s)
        <3>1. Len(s) - i + 1 \in 1 .. Len(s) /\ Len(s) - (Len(s) - i + 1) + 1 = i
            BY <1>1
        <3> QED
            BY <1>5, <3>1
    <2> QED
        BY <1>3, <1>5, <2>1, <2>2
<1> QED
    BY <1>4, <1>5, <1>6, <1>7

\* The first node is done: the others wait for the rest.
LEMMA WaitingOn ==
    ASSUME NEW S, NEW s \in Seq(S), s # <<>>, NEW deps, NEW ready, NEW now,
           Waiting(s, deps, ready), ready \cup {Head(s)} \subseteq now
    PROVE  Waiting(Tail(s), deps, now)
<1> DEFINE t == Tail(s)
<1>1. /\ Len(t) = Len(s) - 1 /\ Len(s) \in Nat \ {0} /\ Head(s) = s[1]
      /\ \A i \in 1 .. Len(t) : t[i] = s[i + 1]
    BY TailDistinct
<1> HIDE DEF t
<1>2. ASSUME NEW i \in 1 .. Len(t), NEW d \in deps[t[i]]
      PROVE  d \in now \/ \E k \in 1 .. i - 1 : t[k] = d
    <2>1. i \in Nat /\ i + 1 \in 1 .. Len(s) /\ t[i] = s[i + 1] /\ (i + 1) - 1 = i
        BY <1>1
    <2>2. d \in ready \/ \E k \in 1 .. i : s[k] = d
        BY <1>2, <2>1 DEF Waiting
    <2>3. ASSUME NEW k \in 1 .. i, s[k] = d
          PROVE  d \in now \/ \E l \in 1 .. i - 1 : t[l] = d
        <3>1. CASE k = 1
            BY <1>1, <2>3, <3>1
        <3>2. CASE k # 1
            <4>1. k - 1 \in 1 .. i - 1 /\ k - 1 \in 1 .. Len(t) /\ (k - 1) + 1 = k
                BY <1>1, <2>1, <3>2
            <4>2. t[k - 1] = s[k]
                BY <1>1, <4>1
            <4> QED
                BY <2>3, <4>1, <4>2
        <3> QED
            BY <3>1, <3>2
    <2> QED
        BY <2>2, <2>3
<1> QED
    BY <1>2 DEF Waiting, t

-----------------------------------------------------------------------------
(* The sort *)

\* f holds the nodes in S among the first n.
Keeps(f, nodes, S) ==
    /\ f[0] = <<>>
    /\ \A n \in 1 .. Len(nodes) :
          f[n] = IF nodes[n] \in S THEN Append(f[n - 1], nodes[n]) ELSE f[n - 1]

LEMMA ThoseIsDefined ==
    ASSUME NEW nodes, NEW S, Len(nodes) \in Nat
    PROVE  \E f : Keeps(f, nodes, S) /\ Those(nodes, S) = f[Len(nodes)]
<1> DEFINE Upto(f, m) == [n \in 0 .. m |-> IF n = 0 THEN <<>>
                                       ELSE IF nodes[n] \in S THEN Append(f[n - 1], nodes[n]) ELSE f[n - 1]]
           Undefined == {m \in Nat : ~ \E f : f = Upto(f, m)}
<1>1. Undefined = {}
    <2> SUFFICES ASSUME NEW k \in Undefined PROVE FALSE
        OBVIOUS
    <2>1. PICK m \in Undefined : \A n \in Undefined : m <= n
        BY SmallestOf
    <2>2. CASE m = 0
        <3>1. [n \in 0 .. 0 |-> <<>>] = Upto([n \in 0 .. 0 |-> <<>>], 0)
            OBVIOUS
        <3> QED
            BY <2>1, <2>2, <3>1
    <2>3. CASE m # 0
        <3>1. m \in Nat /\ m - 1 \in Nat /\ m - 1 \notin Undefined
            <4>1. m - 1 \in Nat /\ ~ (m <= m - 1)
                BY <2>1, <2>3
            <4> HIDE DEF Undefined
            <4> QED
                BY <2>1, <4>1 DEF Undefined
        <3>2. PICK f : f = Upto(f, m - 1)
            BY <3>1
        <3> DEFINE g == [n \in 0 .. m |-> IF n = m THEN IF nodes[m] \in S THEN Append(f[m - 1], nodes[m]) ELSE f[m - 1] ELSE f[n]]
        <3>3. ASSUME NEW n \in 0 .. m
              PROVE  g[n] = IF n = 0 THEN <<>> ELSE IF nodes[n] \in S THEN Append(g[n - 1], nodes[n]) ELSE g[n - 1]
            <4>1. CASE n = m
                <5>1. n - 1 \in 0 .. m /\ n - 1 # m /\ g[n - 1] = f[n - 1]
                    BY <2>3, <3>1, <4>1
                <5>2. g[n] = IF nodes[n] \in S THEN Append(f[n - 1], nodes[n]) ELSE f[n - 1]
                    BY <4>1
                <5> HIDE DEF g
                <5> QED
                    BY <2>3, <4>1, <5>1, <5>2
            <4>2. CASE n # m
                <5>1. n \in 0 .. m - 1 /\ g[n] = f[n]
                    BY <3>1, <4>2
                <5>2. f[n] = IF n = 0 THEN <<>> ELSE IF nodes[n] \in S THEN Append(f[n - 1], nodes[n]) ELSE f[n - 1]
                    BY <3>2, <5>1
                <5>3. n # 0 => n - 1 \in 0 .. m /\ g[n - 1] = f[n - 1]
                    BY <3>1, <4>2
                <5> HIDE DEF g
                <5> QED
                    BY <5>1, <5>2, <5>3
            <4> QED
                BY <4>1, <4>2
        <3>4. g = [n \in 0 .. m |-> g[n]]
            OBVIOUS
        <3> HIDE DEF g
        <3>5. g = Upto(g, m)
            BY <3>3, <3>4
        <3> QED
            BY <2>1, <3>5
    <2> QED
        BY <2>2, <2>3
<1>2. \E f : f = Upto(f, Len(nodes))
    BY <1>1
<1> DEFINE f == CHOOSE g : g = Upto(g, Len(nodes))
<1>3. f = Upto(f, Len(nodes))
    BY <1>2
<1>4. Those(nodes, S) = f[Len(nodes)]
    BY DEF Those
<1> HIDE DEF f
<1>5. Keeps(f, nodes, S)
    <2>1. 0 \in 0 .. Len(nodes) /\ f[0] = <<>>
        BY <1>3
    <2>2. ASSUME NEW n \in 1 .. Len(nodes)
          PROVE  f[n] = IF nodes[n] \in S THEN Append(f[n - 1], nodes[n]) ELSE f[n - 1]
        <3>1. n \in 0 .. Len(nodes) /\ n # 0
            OBVIOUS
        <3> QED
            BY <1>3, <3>1
    <2> QED
        BY <2>1, <2>2 DEF Keeps
<1> QED
    BY <1>4, <1>5

LEMMA ThoseAre ==
    ASSUME NEW N, NEW nodes \in Seq(N), Distinct(nodes), NEW S \in SUBSET ToSet(nodes)
    PROVE  /\ Those(nodes, S) \in Seq(N)
           /\ ToSet(Those(nodes, S)) = S
           /\ Distinct(Those(nodes, S))
<1>1. /\ Len(nodes) \in Nat /\ ToSet(nodes) = {nodes[i] : i \in 1 .. Len(nodes)}
      /\ \A i \in 1 .. Len(nodes) : nodes[i] \in N
    BY ToSetIs, ElementOfSeq, LenProperties
<1>2. PICK f : Keeps(f, nodes, S) /\ Those(nodes, S) = f[Len(nodes)]
    BY <1>1, ThoseIsDefined
<1> DEFINE First(n) == {nodes[i] : i \in 1 .. n}
           Good(n) == f[n] \in Seq(N) /\ ToSet(f[n]) = S \cap First(n) /\ Distinct(f[n])
           Bad == {n \in 0 .. Len(nodes) : ~ Good(n)}
<1>3. ASSUME NEW k \in Bad PROVE FALSE
    <2>1. PICK m \in Bad : \A n \in Bad : m <= n
        <3>1. Bad \in SUBSET Nat /\ k \in Bad
            BY <1>1, <1>3
        <3> HIDE DEF Bad
        <3> QED
            BY <3>1, SmallestOf
    <2>2. CASE m = 0
        <3>1. f[0] = <<>>
            BY <1>2 DEF Keeps
        <3>2. <<>> \in Seq(N) /\ Len(<<>>) = 0 /\ ToSet(<<>>) = {} /\ First(0) = {}
            BY DEF ToSet
        <3>3. Distinct(<<>>)
            BY DEF Distinct
        <3> QED
            BY <2>1, <2>2, <3>1, <3>2, <3>3
    <2>3. CASE m # 0
        <3>1. m \in 1 .. Len(nodes) /\ m - 1 \in 0 .. Len(nodes) /\ ~ (m <= m - 1)
            BY <1>1, <2>1, <2>3
        <3>2. Good(m - 1)
            BY <2>1, <3>1
        <3>3. f[m] = IF nodes[m] \in S THEN Append(f[m - 1], nodes[m]) ELSE f[m - 1]
            BY <1>2, <3>1 DEF Keeps
        <3>4. First(m) = First(m - 1) \cup {nodes[m]}
            <4>1. 1 .. m = (1 .. m - 1) \cup {m}
                BY <3>1
            <4> QED
                BY <4>1
        <3>5. nodes[m] \notin First(m - 1)
            <4>1. \A i \in 1 .. m - 1 : i \in 1 .. Len(nodes) /\ i # m
                BY <1>1, <3>1
            <4> QED
                BY <3>1, <4>1 DEF Distinct
        <3>6. nodes[m] \in N
            BY <1>1, <3>1
        <3> HIDE DEF First
        <3>7. Good(m)
            <4>1. CASE nodes[m] \in S
                <5>1. /\ f[m] \in Seq(N) /\ ToSet(f[m]) = ToSet(f[m - 1]) \cup {nodes[m]}
                      /\ nodes[m] \notin ToSet(f[m - 1]) => Distinct(f[m])
                    BY <3>2, <3>3, <3>6, <4>1, AppendDistinct
                <5> QED
                    BY <3>2, <3>4, <3>5, <4>1, <5>1
            <4>2. CASE nodes[m] \notin S
                BY <3>2, <3>3, <3>4, <4>2
            <4> QED
                BY <4>1, <4>2
        <3> QED
            BY <2>1, <3>7
    <2> QED
        BY <2>2, <2>3
<1>4. Len(nodes) \in 0 .. Len(nodes) /\ S \cap First(Len(nodes)) = S
    BY <1>1
<1> HIDE DEF First
<1>5. Good(Len(nodes))
    BY <1>3, <1>4
<1> QED
    BY <1>2, <1>4, <1>5

\* f holds the state, alone in a set, after each round.
Rounds(f, nodes, deps) ==
    /\ f[0] = {Free(nodes, deps)}
    /\ \A n \in 1 .. Len(nodes) : f[n] = {Pop(nodes, deps, s) : s \in f[n - 1]}

LEMMA KahnIsDefined ==
    ASSUME NEW nodes, NEW deps, Len(nodes) \in Nat
    PROVE  \E f : /\ Rounds(f, nodes, deps)
                  /\ Kahn(nodes, deps) = (CHOOSE s \in f[Len(nodes)] : TRUE).ordered
<1> DEFINE Upto(f, m) == [n \in 0 .. m |-> IF n = 0 THEN {Free(nodes, deps)}
                                       ELSE {Pop(nodes, deps, s) : s \in f[n - 1]}]
           Undefined == {m \in Nat : ~ \E f : f = Upto(f, m)}
<1>1. Undefined = {}
    <2> SUFFICES ASSUME NEW k \in Undefined PROVE FALSE
        OBVIOUS
    <2>1. PICK m \in Undefined : \A n \in Undefined : m <= n
        BY SmallestOf
    <2>2. CASE m = 0
        <3>1. [n \in 0 .. 0 |-> {Free(nodes, deps)}] = Upto([n \in 0 .. 0 |-> {Free(nodes, deps)}], 0)
            OBVIOUS
        <3> QED
            BY <2>1, <2>2, <3>1
    <2>3. CASE m # 0
        <3>1. m \in Nat /\ m - 1 \in Nat /\ m - 1 \notin Undefined
            <4>1. m - 1 \in Nat /\ ~ (m <= m - 1)
                BY <2>1, <2>3
            <4> HIDE DEF Undefined
            <4> QED
                BY <2>1, <4>1 DEF Undefined
        <3>2. PICK f : f = Upto(f, m - 1)
            BY <3>1
        <3> DEFINE g == [n \in 0 .. m |-> IF n = m THEN {Pop(nodes, deps, s) : s \in f[m - 1]} ELSE f[n]]
        <3>3. ASSUME NEW n \in 0 .. m
              PROVE  g[n] = IF n = 0 THEN {Free(nodes, deps)} ELSE {Pop(nodes, deps, s) : s \in g[n - 1]}
            <4>1. CASE n = m
                <5>1. n - 1 \in 0 .. m /\ n - 1 # m /\ g[n - 1] = f[n - 1]
                    BY <2>3, <3>1, <4>1
                <5>2. g[n] = {Pop(nodes, deps, s) : s \in f[n - 1]}
                    BY <4>1
                <5> HIDE DEF g
                <5> QED
                    BY <2>3, <4>1, <5>1, <5>2
            <4>2. CASE n # m
                <5>1. n \in 0 .. m - 1 /\ g[n] = f[n]
                    BY <3>1, <4>2
                <5>2. f[n] = IF n = 0 THEN {Free(nodes, deps)} ELSE {Pop(nodes, deps, s) : s \in f[n - 1]}
                    BY <3>2, <5>1
                <5>3. n # 0 => n - 1 \in 0 .. m /\ g[n - 1] = f[n - 1]
                    BY <3>1, <4>2
                <5> HIDE DEF g
                <5> QED
                    BY <5>1, <5>2, <5>3
            <4> QED
                BY <4>1, <4>2
        <3>4. g = [n \in 0 .. m |-> g[n]]
            OBVIOUS
        <3> HIDE DEF g
        <3>5. g = Upto(g, m)
            BY <3>3, <3>4
        <3> QED
            BY <2>1, <3>5
    <2> QED
        BY <2>2, <2>3
<1>2. \E f : f = Upto(f, Len(nodes))
    BY <1>1
<1> DEFINE f == CHOOSE g : g = Upto(g, Len(nodes))
<1>3. f = Upto(f, Len(nodes))
    BY <1>2
<1>4. Kahn(nodes, deps) = (CHOOSE s \in f[Len(nodes)] : TRUE).ordered
    BY DEF Kahn
<1> HIDE DEF f
<1>5. Rounds(f, nodes, deps)
    <2>1. 0 \in 0 .. Len(nodes) /\ f[0] = {Free(nodes, deps)}
        BY <1>3
    <2>2. ASSUME NEW n \in 1 .. Len(nodes)
          PROVE  f[n] = {Pop(nodes, deps, s) : s \in f[n - 1]}
        <3>1. n \in 0 .. Len(nodes) /\ n # 0
            OBVIOUS
        <3> QED
            BY <1>3, <3>1
    <2> QED
        BY <2>1, <2>2 DEF Rounds
<1> QED
    BY <1>4, <1>5

(* After n rounds the list is in order, without repetition, and the queue  *)
(* has, each once, the other nodes whose dependencies are in the list; a   *)
(* round takes one of them, if there is any.                               *)
Sound(s, n, nodes, deps) ==
    /\ s.ordered \in Seq(ToSet(nodes)) /\ s.queue \in Seq(ToSet(nodes))
    /\ Distinct(s.ordered) /\ Distinct(s.queue)
    /\ ToSet(s.ordered) \cap ToSet(s.queue) = {}
    /\ ToSet(s.ordered) \cup ToSet(s.queue) =
          {m \in ToSet(nodes) : deps[m] \subseteq ToSet(s.ordered)}
    /\ InDependencyOrder(s.ordered, deps)
    /\ s.queue = <<>> \/ Len(s.ordered) = n

LEMMA FreeIsSound ==
    ASSUME NEW nodes, nodes \in Seq(ToSet(nodes)), Distinct(nodes), NEW deps
    PROVE  Sound(Free(nodes, deps), 0, nodes, deps)
<1> DEFINE G == ToSet(nodes)
           F == {m \in G : deps[m] = {}}
           s == Free(nodes, deps)
<1>1. s.ordered = <<>> /\ s.queue = Those(nodes, F)
    BY DEF Free
<1>2. /\ Those(nodes, F) \in Seq(G) /\ ToSet(Those(nodes, F)) = F
      /\ Distinct(Those(nodes, F))
    <2>1. F \in SUBSET ToSet(nodes)
        OBVIOUS
    <2> QED
        BY <2>1, ThoseAre
<1>3. <<>> \in Seq(G) /\ Len(<<>>) = 0 /\ ToSet(<<>>) = {}
    BY DEF ToSet
<1>4. Distinct(<<>>) /\ InDependencyOrder(<<>>, deps)
    BY DEF Distinct, InDependencyOrder, Waiting
<1>5. F = {m \in G : deps[m] \subseteq {}}
    OBVIOUS
<1> HIDE DEF s, F
<1>6. /\ ToSet(s.ordered) \cap ToSet(s.queue) = {}
      /\ ToSet(s.ordered) \cup ToSet(s.queue) = {m \in G : deps[m] \subseteq ToSet(s.ordered)}
    BY <1>1, <1>2, <1>3, <1>5
<1>7. /\ s.ordered \in Seq(G) /\ s.queue \in Seq(G) /\ Len(s.ordered) = 0
      /\ Distinct(s.ordered) /\ Distinct(s.queue) /\ InDependencyOrder(s.ordered, deps)
    BY <1>1, <1>2, <1>3, <1>4
<1> QED
    BY <1>6, <1>7 DEF Sound, s

LEMMA PopIsSound ==
    ASSUME NEW nodes, nodes \in Seq(ToSet(nodes)), Distinct(nodes), NEW deps,
           NEW s, NEW n \in Nat, Sound(s, n, nodes, deps)
    PROVE  Sound(Pop(nodes, deps, s), n + 1, nodes, deps)
<1>1. CASE s.queue = <<>>
    BY <1>1 DEF Sound, Pop
<1>2. CASE s.queue # <<>>
    <2> DEFINE G == ToSet(nodes)
               node == Head(s.queue)
               done == Append(s.ordered, node)
               freed == {m \in G : node \in deps[m] /\ deps[m] \subseteq ToSet(done)}
               rest == Tail(s.queue)
               t == Pop(nodes, deps, s)
    <2>1. t.ordered = done /\ t.queue = rest \o Those(nodes, freed)
        BY <1>2 DEF Pop
    <2>2. /\ s.ordered \in Seq(G) /\ s.queue \in Seq(G)
          /\ Distinct(s.ordered) /\ Distinct(s.queue)
          /\ ToSet(s.ordered) \cap ToSet(s.queue) = {}
          /\ \A m \in G : m \in ToSet(s.ordered) \cup ToSet(s.queue)
                             <=> deps[m] \subseteq ToSet(s.ordered)
          /\ InDependencyOrder(s.ordered, deps)
          /\ Len(s.ordered) = n
        BY <1>2 DEF Sound
    <2>3. /\ node \in G /\ rest \in Seq(G)
          /\ ToSet(s.queue) = {node} \cup ToSet(rest)
          /\ Distinct(rest) /\ node \notin ToSet(rest)
        BY <1>2, <2>2, TailDistinct
    <2>4. ToSet(s.ordered) \subseteq G /\ ToSet(rest) \subseteq G
        BY <2>2, <2>3, ToSetIs
    <2>5. /\ done \in Seq(G) /\ ToSet(done) = ToSet(s.ordered) \cup {node} /\ Distinct(done)
          /\ Len(done) = n + 1
          /\ \A i \in 1 .. n : done[i] = s.ordered[i]
          /\ done[n + 1] = node
        <3>1. node \notin ToSet(s.ordered)
            BY <2>2, <2>3
        <3> HIDE DEF node
        <3> QED
            BY <2>2, <2>3, <3>1, AppendDistinct, AppendProperties
    <2> HIDE DEF node, done, rest, t
    <2>6. /\ Those(nodes, freed) \in Seq(G) /\ ToSet(Those(nodes, freed)) = freed
          /\ Distinct(Those(nodes, freed))
        <3>1. freed \in SUBSET ToSet(nodes)
            OBVIOUS
        <3> QED
            BY <3>1, ThoseAre
    <2>7. freed \cap (ToSet(s.ordered) \cup ToSet(s.queue)) = {}
        <3> SUFFICES ASSUME NEW m \in freed, deps[m] \subseteq ToSet(s.ordered) PROVE FALSE
            BY <2>2
        <3> QED
            BY <2>2, <2>3
    <2>8. /\ t.queue \in Seq(G) /\ ToSet(t.queue) = ToSet(rest) \cup freed
          /\ Distinct(t.queue)
        <3>1. ToSet(rest) \cap freed = {}
            BY <2>3, <2>7
        <3> HIDE DEF freed, G
        <3> QED
            BY <2>1, <2>3, <2>6, <3>1, ConcatDistinct
    <2>9. ToSet(done) \cap ToSet(t.queue) = {}
        BY <2>2, <2>3, <2>5, <2>7, <2>8
    <2>10. ToSet(done) \cup ToSet(t.queue) = {m \in G : deps[m] \subseteq ToSet(done)}
        <3>1. ASSUME NEW m \in G
              PROVE  m \in ToSet(done) \cup ToSet(t.queue) <=> deps[m] \subseteq ToSet(done)
            <4>1. CASE node \in deps[m]
                <5>1. m \notin ToSet(s.ordered) \cup ToSet(s.queue)
                    BY <2>2, <2>3, <4>1
                <5> QED
                    BY <2>3, <2>5, <2>8, <4>1, <5>1
            <4>2. CASE node \notin deps[m]
                <5>1. deps[m] \subseteq ToSet(done) <=> deps[m] \subseteq ToSet(s.ordered)
                    BY <2>5, <4>2
                <5>2. m \notin freed
                    BY <4>2
                <5> QED
                    BY <2>2, <2>3, <2>5, <2>8, <5>1, <5>2
            <4> QED
                BY <4>1, <4>2
        <3>2. ToSet(done) \cup ToSet(t.queue) \subseteq G
            BY <2>3, <2>4, <2>5, <2>8
        <3> HIDE DEF G
        <3> QED
            BY <3>1, <3>2
    <2>11. InDependencyOrder(done, deps)
        <3> SUFFICES ASSUME NEW i \in 1 .. n + 1, NEW d \in deps[done[i]]
                     PROVE  \E k \in 1 .. i - 1 : done[k] = d
            BY <2>5 DEF InDependencyOrder, Waiting
        <3>1. CASE i = n + 1
            <4>1. d \in ToSet(s.ordered)
                BY <2>2, <2>3, <2>5, <3>1
            <4>2. PICK k \in 1 .. n : s.ordered[k] = d
                <5>1. ToSet(s.ordered) = {s.ordered[k] : k \in 1 .. Len(s.ordered)}
                    BY <2>2, ToSetIs
                <5> QED
                    BY <2>2, <4>1, <5>1
            <4> QED
                BY <2>5, <3>1, <4>2
        <3>2. CASE i # n + 1
            <4>1. i \in 1 .. n /\ done[i] = s.ordered[i]
                BY <2>5, <3>2
            <4>2. PICK k \in 1 .. i - 1 : s.ordered[k] = d
                BY <2>2, <4>1 DEF InDependencyOrder, Waiting
            <4> QED
                BY <2>5, <4>1, <4>2
        <3> QED
            BY <3>1, <3>2
    <2> QED
        BY <2>1, <2>5, <2>8, <2>9, <2>10, <2>11 DEF Sound, t
<1> QED
    BY <1>1, <1>2

\* The sort ends in a sound state.
LEMMA KahnIsSound ==
    ASSUME NEW nodes, nodes \in Seq(ToSet(nodes)), Distinct(nodes), NEW deps
    PROVE  \E s : Sound(s, Len(nodes), nodes, deps) /\ Kahn(nodes, deps) = s.ordered
<1>1. Len(nodes) \in Nat
    BY LenProperties
<1>2. PICK f : /\ Rounds(f, nodes, deps)
               /\ Kahn(nodes, deps) = (CHOOSE s \in f[Len(nodes)] : TRUE).ordered
    BY <1>1, KahnIsDefined
<1> DEFINE Good(n) == \E s : f[n] = {s} /\ Sound(s, n, nodes, deps)
           Bad == {n \in 0 .. Len(nodes) : ~ Good(n)}
<1>3. ASSUME NEW k \in Bad PROVE FALSE
    <2>1. PICK m \in Bad : \A n \in Bad : m <= n
        <3>1. Bad \in SUBSET Nat /\ k \in Bad
            BY <1>1, <1>3
        <3> HIDE DEF Bad
        <3> QED
            BY <3>1, SmallestOf
    <2>2. CASE m = 0
        BY <1>2, <2>1, <2>2, FreeIsSound DEF Rounds
    <2>3. CASE m # 0
        <3>1. m \in 1 .. Len(nodes) /\ m - 1 \in 0 .. Len(nodes) /\ ~ (m <= m - 1)
              /\ m - 1 \in Nat /\ (m - 1) + 1 = m
            BY <1>1, <2>1, <2>3
        <3>2. PICK s : f[m - 1] = {s} /\ Sound(s, m - 1, nodes, deps)
            BY <2>1, <3>1
        <3>3. f[m] = {Pop(nodes, deps, s)}
            BY <1>2, <3>1, <3>2 DEF Rounds
        <3>4. Sound(Pop(nodes, deps, s), m, nodes, deps)
            <4>1. Sound(Pop(nodes, deps, s), (m - 1) + 1, nodes, deps)
                BY <3>1, <3>2, PopIsSound
            <4> QED
                BY <3>1, <4>1
        <3> QED
            BY <2>1, <3>3, <3>4
    <2> QED
        BY <2>2, <2>3
<1>4. Good(Len(nodes))
    BY <1>1, <1>3
<1> QED
    BY <1>2, <1>4

\* A list without repetition is as long as it has members.
LEMMA LenIsCardinality ==
    ASSUME NEW S, NEW s \in Seq(S), Distinct(s)
    PROVE  IsFiniteSet(ToSet(s)) /\ Cardinality(ToSet(s)) = Len(s)
<1>1. /\ ToSet(s) = {s[i] : i \in 1 .. Len(s)} /\ Len(s) \in Nat
    BY ToSetIs
<1> DEFINE g == [i \in 1 .. Len(s) |-> s[i]]
<1>2. g \in Bijection(1 .. Len(s), ToSet(s))
    <2>1. g \in [1 .. Len(s) -> ToSet(s)]
        BY <1>1
    <2>2. \A i, j \in 1 .. Len(s) : g[i] = g[j] => i = j
        BY DEF Distinct
    <2>3. \A x \in ToSet(s) : \E i \in 1 .. Len(s) : g[i] = x
        BY <1>1
    <2> HIDE DEF g
    <2> QED
        BY <2>1, <2>2, <2>3 DEF Bijection, Injection, Surjection, IsInjective
<1>3. ExistsBijection(1 .. Len(s), ToSet(s))
    BY <1>2 DEF ExistsBijection
<1>4. IsFiniteSet(1 .. Len(s)) /\ Cardinality(1 .. Len(s)) = Len(s)
    <2>1. 1 \in Int /\ Len(s) \in Int /\ (IF 1 > Len(s) THEN 0 ELSE Len(s) - 1 + 1) = Len(s)
        BY <1>1
    <2> QED
        BY <2>1, FS_Interval
<1> QED
    BY <1>3, <1>4, FS_Bijection

(* Where the dependencies go round in no circle the sort lists every node  *)
(* once, after all those that it depends on.                               *)
LEMMA KahnSorts ==
    ASSUME NEW nodes, nodes \in Seq(ToSet(nodes)), Distinct(nodes),
           NEW deps \in [ToSet(nodes) -> SUBSET ToSet(nodes)],
           NEW rank, \A m \in ToSet(nodes) : rank[m] \in Nat,
           \A m \in ToSet(nodes) : \A d \in deps[m] : rank[d] < rank[m]
    PROVE  /\ Kahn(nodes, deps) \in Seq(ToSet(nodes))
           /\ ToSet(Kahn(nodes, deps)) = ToSet(nodes)
           /\ Len(Kahn(nodes, deps)) = Len(nodes)
           /\ Distinct(Kahn(nodes, deps))
           /\ InDependencyOrder(Kahn(nodes, deps), deps)
<1> DEFINE G == ToSet(nodes)
<1>1. PICK s : Sound(s, Len(nodes), nodes, deps) /\ Kahn(nodes, deps) = s.ordered
    BY KahnIsSound
<1> DEFINE O == ToSet(s.ordered)
<1>2. /\ s.ordered \in Seq(G) /\ Distinct(s.ordered) /\ InDependencyOrder(s.ordered, deps)
      /\ s.queue = <<>> \/ Len(s.ordered) = Len(nodes)
      /\ O \cup ToSet(s.queue) = {m \in G : deps[m] \subseteq O}
    BY <1>1 DEF Sound
<1>3. O \subseteq G
    BY <1>2, ToSetIs
<1>4. /\ IsFiniteSet(G) /\ Cardinality(G) = Len(nodes)
      /\ IsFiniteSet(O) /\ Cardinality(O) = Len(s.ordered)
    BY <1>2, LenIsCardinality
<1>5. O = G
    <2>1. CASE Len(s.ordered) = Len(nodes)
        BY <1>3, <1>4, <2>1, FS_Subset
    <2>2. CASE s.queue = <<>>
        <3>1. O = {m \in G : deps[m] \subseteq O}
            <4>1. ToSet(s.queue) = {}
                BY <2>2 DEF ToSet
            <4> QED
                BY <1>2, <4>1
        <3> HIDE DEF O, G
        <3> DEFINE Ranks == {rank[m] : m \in G \ O}
        <3>2. ASSUME NEW x \in G \ O PROVE FALSE
            <4>1. Ranks \in SUBSET Nat /\ rank[x] \in Ranks
                BY <3>2 DEF G
            <4>2. PICK r \in Ranks : \A q \in Ranks : r <= q
                BY <4>1, SmallestOf
            <4>3. PICK m \in G \ O : rank[m] = r
                BY <4>2
            <4>4. ASSUME NEW d \in deps[m] PROVE d \in O
                <5>1. d \in G /\ rank[d] < rank[m] /\ rank[d] \in Nat /\ rank[m] \in Nat
                    BY <4>3 DEF G
                <5>2. d \in G \ O => rank[m] <= rank[d]
                    BY <4>2, <4>3
                <5> QED
                    BY <5>1, <5>2
            <4> QED
                BY <3>1, <4>3, <4>4
        <3> QED
            BY <1>3, <3>2
    <2> QED
        BY <1>2, <2>1, <2>2
<1> QED
    BY <1>1, <1>2, <1>4, <1>5

-----------------------------------------------------------------------------
(* Migrations: what a report says *)

\* What a process does next belongs to the direction it works in.
JobTypeOK(j) ==
    /\ DOMAIN j = {"pc", "up", "todo", "ran", "failed", "undisturbed"}
    /\ j.pc \in {"idle", "applied?", "upgrade", "create", "drop", "reported"}
    /\ j.up \in BOOLEAN
    /\ j.undisturbed \in BOOLEAN
    /\ j.pc \in {"applied?", "upgrade", "create"} => j.up
    /\ j.pc = "drop" => ~j.up

\* What an undisturbed process would report of what it has done so far.
TrueSoFar(j, tables) ==
    j.undisturbed =>
        IF j.up THEN j.ran \ j.failed \subseteq tables
        ELSE (j.ran \ j.failed) \cap tables = {}

MigrationsInv ==
    /\ DOMAIN job = Processes
    /\ \A p \in Processes : JobTypeOK(job[p]) /\ TrueSoFar(job[p], present)

LEMMA InitInv == Init => MigrationsInv
<1>1. JobTypeOK(Idle)
    BY DEF JobTypeOK, Idle
<1>2. \A tables : TrueSoFar(Idle, tables)
    BY DEF TrueSoFar, Idle
<1> QED
    BY <1>1, <1>2 DEF Init, MigrationsInv

-----------------------------------------------------------------------------
(* Migrations: the steps *)

\* What Report() leaves in the job of the process.
LEMMA Reporting ==
    ASSUME NEW p \in Processes, JobTypeOK(job[p]), NEW ok \in BOOLEAN
    PROVE  LET j == Report(p, ok) IN
           /\ JobTypeOK(j)
           /\ j.up = job[p].up /\ j.undisturbed = job[p].undisturbed
           /\ ok => j.ran \ j.failed \subseteq (job[p].ran \ job[p].failed) \cup {Current(p)}
           /\ ~ok => j.ran \ j.failed \subseteq job[p].ran \ job[p].failed
<1> DEFINE j == Report(p, ok)
           d == job[p]
<1>1. /\ DOMAIN j = DOMAIN d
      /\ j.pc = IF Len(d.todo) = 1 THEN "reported"
                ELSE IF d.up THEN "applied?" ELSE "drop"
      /\ j.up = d.up /\ j.undisturbed = d.undisturbed
      /\ j.ran = d.ran \cup {Current(p)}
      /\ j.failed = IF ok THEN d.failed ELSE d.failed \cup {Current(p)}
    BY DEF Report, JobTypeOK
<1>2. JobTypeOK(j)
    BY <1>1 DEF JobTypeOK
<1> QED
    BY <1>1, <1>2

\* A migration ends, and the tables change with it, or stay.
LEMMA ContinueStep ==
    ASSUME MigrationsInv, NEW p \in Processes, NEW ok \in BOOLEAN,
           Continue(p, ok),
           IF job[p].up THEN present \subseteq present' ELSE present' \subseteq present,
           ok => (job[p].up <=> Current(p) \in present')
    PROVE  MigrationsInv'
<1>1. job' = [q \in Processes |->
                IF q = p THEN Report(p, ok)
                ELSE [job[q] EXCEPT !.undisturbed = @ /\ job[q].up = job[p].up]]
    BY DEF Continue
<1>2. JobTypeOK(job'[p]) /\ TrueSoFar(job'[p], present')
    <2> DEFINE j == job'[p]
    <2>1. JobTypeOK(job[p]) /\ TrueSoFar(job[p], present)
        BY DEF MigrationsInv
    <2>2. /\ JobTypeOK(j)
          /\ j.up = job[p].up /\ j.undisturbed = job[p].undisturbed
          /\ ok => j.ran \ j.failed \subseteq (job[p].ran \ job[p].failed) \cup {Current(p)}
          /\ ~ok => j.ran \ j.failed \subseteq job[p].ran \ job[p].failed
        BY <1>1, <2>1, Reporting
    <2> HIDE DEF j
    <2>3. TrueSoFar(j, present')
        BY <2>1, <2>2 DEF TrueSoFar, JobTypeOK
    <2> QED
        BY <2>2, <2>3 DEF j
<1>3. ASSUME NEW q \in Processes, q # p
      PROVE  JobTypeOK(job'[q]) /\ TrueSoFar(job'[q], present')
    <2> DEFINE d == job[q]
               j == job'[q]
    <2>1. JobTypeOK(d) /\ TrueSoFar(d, present) /\ job[p].up \in BOOLEAN
        BY DEF MigrationsInv, JobTypeOK
    <2>2. /\ DOMAIN j = DOMAIN d
          /\ j.pc = d.pc /\ j.up = d.up /\ j.ran = d.ran /\ j.failed = d.failed
          /\ j.undisturbed = (d.undisturbed /\ d.up = job[p].up)
        BY <1>1, <1>3, <2>1 DEF JobTypeOK
    <2> HIDE DEF j
    <2>3. JobTypeOK(j)
        BY <2>1, <2>2 DEF JobTypeOK
    <2>4. TrueSoFar(j, present')
        BY <2>1, <2>2 DEF TrueSoFar, JobTypeOK
    <2> QED
        BY <2>3, <2>4 DEF j
<1> QED
    BY <1>1, <1>2, <1>3 DEF MigrationsInv

\* A process that changes nothing but its own place in the run.
LEMMA GotoStep ==
    ASSUME MigrationsInv, NEW p \in Processes, NEW place \in {"upgrade", "create"},
           job[p].up, Goto(p, place), UNCHANGED present
    PROVE  MigrationsInv'
<1> DEFINE d == job[p]
           j == job'[p]
<1>1. /\ DOMAIN job' = Processes
      /\ \A q \in Processes \ {p} : job'[q] = job[q]
      /\ j = [d EXCEPT !.pc = place]
    BY DEF Goto, MigrationsInv
<1>2. JobTypeOK(d) /\ TrueSoFar(d, present)
    BY DEF MigrationsInv
<1>3. /\ DOMAIN j = DOMAIN d
      /\ j.pc = place /\ j.up = d.up /\ j.ran = d.ran /\ j.failed = d.failed
      /\ j.undisturbed = d.undisturbed
    BY <1>1, <1>2 DEF JobTypeOK
<1>4. JobTypeOK(j) /\ TrueSoFar(j, present')
    BY <1>2, <1>3 DEF JobTypeOK, TrueSoFar
<1> QED
    BY <1>1, <1>4 DEF MigrationsInv

\* A run begins with nothing done.
LEMMA BeginStep ==
    ASSUME MigrationsInv, NEW p \in Processes, NEW up \in BOOLEAN, NEW todo,
           Begin(p, up, todo)
    PROVE  MigrationsInv'
<1> DEFINE j == job'[p]
<1>1. /\ DOMAIN job' = Processes
      /\ UNCHANGED present
      /\ \A q \in Processes \ {p} : job'[q] = job[q]
      /\ j = [Idle EXCEPT !.pc = IF up THEN "applied?" ELSE "drop",
                          !.up = up, !.todo = todo]
    BY DEF Begin, MigrationsInv
<1>2. /\ DOMAIN j = {"pc", "up", "todo", "ran", "failed", "undisturbed"}
      /\ j.pc = IF up THEN "applied?" ELSE "drop"
      /\ j.up = up /\ j.ran = {} /\ j.undisturbed = TRUE
    BY <1>1 DEF Idle
<1>3. JobTypeOK(j) /\ TrueSoFar(j, present')
    BY <1>2 DEF JobTypeOK, TrueSoFar
<1> QED
    BY <1>1, <1>3 DEF MigrationsInv

LEMMA StepInv == MigrationsInv /\ [Next]_vars => MigrationsInv'
<1> SUFFICES ASSUME MigrationsInv, [Next]_vars PROVE MigrationsInv'
    OBVIOUS
<1>1. ASSUME NEW p \in Processes, Migrate(p) PROVE MigrationsInv'
    BY <1>1, BeginStep DEF Migrate, MigrateAll
<1>2. ASSUME NEW p \in Processes, Rollback(p) PROVE MigrationsInv'
    BY <1>2, BeginStep DEF Rollback
<1>3. ASSUME NEW p \in Processes, IsApplied(p) \/ CheckFirst(p)
      PROVE  MigrationsInv'
    <2>1. job[p].up /\ UNCHANGED present
        BY <1>3 DEF IsApplied, CheckFirst, MigrationsInv, JobTypeOK
    <2>2. CASE Current(p) \in present
        <3>1. Continue(p, TRUE)
            BY <1>3, <2>2 DEF IsApplied, CheckFirst
        <3> QED
            BY <2>1, <2>2, <3>1, ContinueStep
    <2>3. CASE Current(p) \notin present
        BY <1>3, <2>1, <2>3, GotoStep DEF IsApplied, CheckFirst
    <2> QED
        BY <2>2, <2>3
<1>4. ASSUME NEW p \in Processes, CreateTable(p) PROVE MigrationsInv'
    <2>1. job[p].up
        BY <1>4 DEF CreateTable, MigrationsInv, JobTypeOK
    <2>2. /\ Continue(p, Creatable(Current(p))) /\ Creatable(Current(p)) \in BOOLEAN
          /\ present \subseteq present'
          /\ Creatable(Current(p)) => Current(p) \in present'
        BY <1>4 DEF CreateTable, Creatable
    <2> QED
        BY <2>1, <2>2, ContinueStep
<1>5. ASSUME NEW p \in Processes, DropTable(p) PROVE MigrationsInv'
    <2> DEFINE ok == Current(p) \notin present \/ Droppable(Current(p))
    <2>1. ~job[p].up
        BY <1>5 DEF DropTable, MigrationsInv, JobTypeOK
    <2>2. /\ Continue(p, ok) /\ ok \in BOOLEAN
          /\ present' \subseteq present
          /\ ok => Current(p) \notin present'
        BY <1>5 DEF DropTable, Droppable
    <2> HIDE DEF ok
    <2> QED
        BY <2>1, <2>2, ContinueStep
<1>6. CASE UNCHANGED vars
    BY <1>6 DEF vars, MigrationsInv, JobTypeOK, TrueSoFar
<1> QED
    BY <1>1, <1>2, <1>3, <1>4, <1>5, <1>6 DEF Next, Work

(* However many processes run and roll back the migrations at once, and    *)
(* whichever statements fail: unless a run in the other direction changed  *)
(* the database meanwhile, a table that run_migrations() reports as        *)
(* migrated is there when the run ends and one that rollback_migrations()  *)
(* reports as rolled back is not.                                          *)
THEOREM ReportsAreTrue == Spec => []ReportIsTrue
<1>1. MigrationsInv => ReportIsTrue
    BY DEF MigrationsInv, TrueSoFar, ReportIsTrue, Reported
<1> QED
    BY <1>1, InitInv, StepInv, PTL DEF Spec
-----------------------------------------------------------------------------
(* Migrations: one run in order *)

Parents == [m \in Discovered |-> ParentTables(m) \cap Discovered]

Dependencies == [m \in ToSet(registry) |-> dependsOn[m] \cap ToSet(registry)]

\* What a process has left begins, or does not begin, with what it may do next.
TodoOK(j) ==
    /\ j.todo \in Seq(Discovered)
    /\ j.todo = <<>> <=> j.pc \in {"idle", "reported"}

(* Of a run over all models: what it has tried is there, and each model    *)
(* comes after the models it refers to.                                    *)
Onward(j, tables) ==
    j.up /\ j.ran \cup ToSet(j.todo) = Discovered =>
        j.ran \subseteq tables /\ Waiting(j.todo, Parents, j.ran)

OnwardInv ==
    /\ registry \in Orders
    /\ rollbacks \in Nat
    /\ \A p \in Processes : TodoOK(job[p])
    /\ rollbacks = 0 => Existing \subseteq present /\ \A p \in Processes : job[p].up
    /\ rollbacks = 0 /\ Ordered => \A p \in Processes : Onward(job[p], present)

LEMMA RegistryIs ==
    ASSUME registry \in Orders
    PROVE  /\ registry \in Seq(Discovered) /\ ToSet(registry) = Discovered
           /\ Distinct(registry) /\ registry # <<>> /\ Len(registry) \in Nat \ {0}
<1>1. /\ registry \in Seq(Discovered) /\ ToSet(registry) = Discovered
      /\ \A i, j \in DOMAIN registry : registry[i] = registry[j] => i = j
      /\ Discovered # {}
    BY MigrationsAssumption
<1>2. DOMAIN registry = 1 .. Len(registry) /\ Len(registry) \in Nat
    BY <1>1, LenProperties
<1>3. registry # <<>>
    BY <1>1 DEF ToSet
<1>4. Len(registry) # 0
    BY <1>1, <1>3, EmptySeq
<1> QED
    BY <1>1, <1>2, <1>3, <1>4 DEF Distinct

LEMMA OrderedMigrationsAre ==
    ASSUME registry \in Orders
    PROVE  /\ OrderedMigrations \in Seq(Discovered) /\ OrderedMigrations # <<>>
           /\ Ordered => /\ ToSet(OrderedMigrations) = Discovered
                         /\ InDependencyOrder(OrderedMigrations, Dependencies)
<1> DEFINE sorted == Kahn(registry, Dependencies)
<1>1. /\ registry \in Seq(Discovered) /\ ToSet(registry) = Discovered
      /\ Distinct(registry) /\ registry # <<>> /\ Len(registry) \in Nat \ {0}
    BY RegistryIs
<1>2. OrderedMigrations = IF Len(sorted) = Len(registry) THEN sorted ELSE registry
    BY DEF OrderedMigrations, Dependencies
<1>3. sorted \in Seq(Discovered)
    <2>1. PICK s : Sound(s, Len(registry), registry, Dependencies) /\ sorted = s.ordered
        BY <1>1, KahnIsSound
    <2> QED
        BY <1>1, <2>1 DEF Sound
<1>4. Len(sorted) = Len(registry) => sorted # <<>>
    <2>1. Len(<<>>) = 0
        OBVIOUS
    <2> QED
        BY <1>1, <2>1
<1>5. ASSUME Ordered
      PROVE  /\ ToSet(sorted) = Discovered /\ Len(sorted) = Len(registry)
             /\ InDependencyOrder(sorted, Dependencies)
    <2>1. PICK rank \in [Discovered -> 1 .. Cardinality(Discovered)] :
             \A m \in Discovered : \A d \in dependsOn[m] \cap Discovered : rank[d] < rank[m]
        BY <1>5 DEF Ordered
    <2>2. Cardinality(Discovered) \in Nat
        BY <1>1, LenIsCardinality
    <2>3. \A m \in Discovered : rank[m] \in Nat
        BY <2>1, <2>2
    <2>4. Dependencies \in [ToSet(registry) -> SUBSET ToSet(registry)]
        BY DEF Dependencies
    <2>5. \A m \in ToSet(registry) : \A d \in Dependencies[m] : rank[d] < rank[m]
        BY <1>1, <2>1 DEF Dependencies
    <2> QED
        BY <1>1, <2>3, <2>4, <2>5, KahnSorts
<1> HIDE DEF sorted
<1> QED
    BY <1>1, <1>2, <1>3, <1>4, <1>5

LEMMA InitOnward == Init => OnwardInv
<1> SUFFICES ASSUME Init PROVE OnwardInv
    OBVIOUS
<1>1. /\ Idle.todo = <<>> /\ Idle.pc = "idle" /\ Idle.up = TRUE /\ Idle.ran = {}
    BY DEF Idle
<1>2. /\ present = Existing /\ registry \in Orders /\ rollbacks = 0
      /\ \A p \in Processes : job[p] = Idle
    BY DEF Init
<1>3. <<>> \in Seq(Discovered) /\ Len(<<>>) = 0 /\ ToSet(<<>>) = {}
    BY DEF ToSet
<1>4. TodoOK(Idle) /\ \A tables : Onward(Idle, tables)
    BY <1>1, <1>3 DEF TodoOK, Onward, Waiting
<1> QED
    BY <1>2, <1>1, <1>4 DEF OnwardInv

\* What Report() leaves of a list in order.
LEMMA ReportingOnward ==
    ASSUME NEW p \in Processes, JobTypeOK(job[p]), TodoOK(job[p]),
           job[p].todo # <<>>, NEW ok \in BOOLEAN
    PROVE  LET j == Report(p, ok)
           IN  /\ TodoOK(j)
               /\ \A tables : Onward(job[p], tables) /\ Current(p) \in tables
                                => Onward(j, tables)
<1> DEFINE j == Report(p, ok)
           d == job[p]
<1>1. /\ j.pc = IF Len(d.todo) = 1 THEN "reported" ELSE IF d.up THEN "applied?" ELSE "drop"
      /\ j.up = d.up /\ j.todo = Tail(d.todo)
      /\ j.ran = d.ran \cup {Head(d.todo)}
    BY DEF Report, JobTypeOK, Current
<1>2. /\ d.todo \in Seq(Discovered)
      /\ Tail(d.todo) \in Seq(Discovered)
      /\ ToSet(d.todo) = {Head(d.todo)} \cup ToSet(Tail(d.todo))
      /\ Len(Tail(d.todo)) = Len(d.todo) - 1 /\ Len(d.todo) \in Nat \ {0}
      /\ Head(d.todo) = d.todo[1]
      /\ \A i \in 1 .. Len(Tail(d.todo)) : Tail(d.todo)[i] = d.todo[i + 1]
    BY TailDistinct DEF TodoOK
<1> HIDE DEF j
<1>3. TodoOK(j)
    <2>1. Tail(d.todo) = <<>> <=> Len(d.todo) = 1
        <3>1. Tail(d.todo) = <<>> <=> Len(Tail(d.todo)) = 0
            BY <1>2, EmptySeq
        <3> QED
            BY <1>2, <3>1
    <2> QED
        BY <1>1, <1>2, <2>1 DEF TodoOK
<1>4. ASSUME NEW tables, Onward(d, tables), Current(p) \in tables PROVE Onward(j, tables)
    <2> SUFFICES ASSUME j.up, j.ran \cup ToSet(j.todo) = Discovered
                 PROVE  j.ran \subseteq tables /\ Waiting(j.todo, Parents, j.ran)
        BY DEF Onward
    <2>1. d.up /\ d.ran \cup ToSet(d.todo) = Discovered
        BY <1>1, <1>2
    <2>2. d.ran \subseteq tables /\ Waiting(d.todo, Parents, d.ran)
        BY <1>4, <2>1 DEF Onward
    <2>3. j.ran \subseteq tables
        BY <1>1, <1>4, <2>2 DEF Current
    <2>4. Waiting(j.todo, Parents, j.ran)
        BY <1>1, <1>2, <2>2, WaitingOn
    <2> QED
        BY <2>3, <2>4
<1> QED
    BY <1>3, <1>4 DEF j

\* A migration ends; in a run upwards its table is there.
LEMMA ContinueOnward ==
    ASSUME MigrationsInv, OnwardInv, NEW p \in Processes, NEW ok \in BOOLEAN,
           Continue(p, ok), UNCHANGED <<registry, dependsOn, rollbacks>>,
           job[p].todo # <<>>,
           job[p].up => present \subseteq present',
           rollbacks = 0 /\ Ordered /\ job[p].ran \cup ToSet(job[p].todo) = Discovered
              => Current(p) \in present'
    PROVE  OnwardInv'
<1>1. job' = [q \in Processes |->
                IF q = p THEN Report(p, ok)
                ELSE [job[q] EXCEPT !.undisturbed = @ /\ job[q].up = job[p].up]]
    BY DEF Continue
<1>2. \A q \in Processes : JobTypeOK(job[q]) /\ TodoOK(job[q])
    BY DEF MigrationsInv, OnwardInv
<1>3. /\ TodoOK(job'[p])
      /\ \A tables : Onward(job[p], tables) /\ Current(p) \in tables => Onward(job'[p], tables)
    BY <1>1, <1>2, ReportingOnward
<1>4. ASSUME NEW q \in Processes, q # p
      PROVE  /\ job'[q].todo = job[q].todo /\ job'[q].pc = job[q].pc
             /\ job'[q].up = job[q].up /\ job'[q].ran = job[q].ran
    BY <1>1, <1>2, <1>4 DEF JobTypeOK
<1>5. job'[p].up = job[p].up /\ job'[p].ran = job[p].ran \cup {Current(p)}
    BY <1>1, <1>2 DEF Report, JobTypeOK
<1>6. \A q \in Processes : TodoOK(job'[q])
    BY <1>2, <1>3, <1>4 DEF TodoOK
<1>7. rollbacks = 0 => Existing \subseteq present' /\ \A q \in Processes : job'[q].up
    BY <1>4, <1>5 DEF OnwardInv
<1>8. ASSUME rollbacks = 0, Ordered, NEW q \in Processes PROVE Onward(job'[q], present')
    <2>1. /\ \A r \in Processes : Onward(job[r], present)
          /\ present \subseteq present'
        BY <1>8 DEF OnwardInv
    <2>2. \A r \in Processes : Onward(job[r], present')
        BY <2>1 DEF Onward
    <2>3. CASE q # p
        BY <1>4, <2>2, <2>3 DEF Onward
    <2>4. CASE q = p
        <3>1. CASE job[p].ran \cup ToSet(job[p].todo) = Discovered
            BY <1>3, <1>8, <2>2, <2>4, <3>1
        <3>2. CASE job[p].ran \cup ToSet(job[p].todo) # Discovered
            <4>1. ToSet(job[p].todo) = {Current(p)} \cup ToSet(Tail(job[p].todo))
                BY <1>2, TailDistinct DEF TodoOK, Current
            <4>2. job'[p].todo = Tail(job[p].todo)
                BY <1>1, <1>2 DEF Report, JobTypeOK
            <4>3. job'[p].ran \cup ToSet(job'[p].todo) # Discovered
                BY <1>5, <3>2, <4>1, <4>2
            <4> QED
                BY <2>4, <4>3 DEF Onward
        <3> QED
            BY <3>1, <3>2
    <2> QED
        BY <2>3, <2>4
<1>9. Ordered' = Ordered
    BY DEF Ordered
<1> QED
    BY <1>6, <1>7, <1>8, <1>9 DEF OnwardInv

LEMMA GotoOnward ==
    ASSUME MigrationsInv, OnwardInv, NEW p \in Processes, NEW place \in {"upgrade", "create"},
           job[p].todo # <<>>, Goto(p, place),
           UNCHANGED <<present, registry, dependsOn, rollbacks>>
    PROVE  OnwardInv'
<1>1. /\ \A q \in Processes \ {p} : job'[q] = job[q]
      /\ job'[p] = [job[p] EXCEPT !.pc = place]
    BY DEF Goto, MigrationsInv
<1>2. /\ job'[p].pc = place /\ job'[p].up = job[p].up
      /\ job'[p].ran = job[p].ran /\ job'[p].todo = job[p].todo
    BY <1>1 DEF MigrationsInv, JobTypeOK
<1>3. \A q \in Processes : TodoOK(job'[q]) /\ job'[q].up = job[q].up
    BY <1>1, <1>2 DEF OnwardInv, TodoOK
<1>4. ASSUME NEW q \in Processes, Onward(job[q], present) PROVE Onward(job'[q], present)
    <2>1. CASE q = p
        BY <1>2, <1>4, <2>1 DEF Onward
    <2>2. CASE q # p
        BY <1>1, <1>4, <2>2
    <2> QED
        BY <2>1, <2>2
<1>5. Ordered' = Ordered
    BY DEF Ordered
<1> QED
    BY <1>3, <1>4, <1>5 DEF OnwardInv

\* A run begins: over all models in order, or over one.
LEMMA BeginOnward ==
    ASSUME MigrationsInv, OnwardInv, NEW p \in Processes, NEW up \in BOOLEAN,
           NEW todo \in Seq(Discovered), todo # <<>>, Begin(p, up, todo),
           rollbacks' = (IF up THEN rollbacks ELSE rollbacks + 1),
           up /\ Ordered /\ ToSet(todo) = Discovered => InDependencyOrder(todo, Dependencies)
    PROVE  OnwardInv'
<1> DEFINE j == job'[p]
<1>1. /\ UNCHANGED <<present, registry, dependsOn>>
      /\ \A q \in Processes \ {p} : job'[q] = job[q]
      /\ j = [Idle EXCEPT !.pc = IF up THEN "applied?" ELSE "drop",
                          !.up = up, !.todo = todo]
    BY DEF Begin, MigrationsInv
<1>2. /\ j.pc = IF up THEN "applied?" ELSE "drop"
      /\ j.up = up /\ j.ran = {} /\ j.todo = todo
    BY <1>1 DEF Idle
<1>3. \A q \in Processes : TodoOK(job'[q])
    BY <1>1, <1>2 DEF OnwardInv, TodoOK
<1>4. rollbacks' \in Nat /\ (rollbacks' = 0 => up /\ rollbacks = 0)
    BY DEF OnwardInv
<1>5. ASSUME Ordered, up PROVE Onward(j, present)
    <2> SUFFICES ASSUME ToSet(todo) = Discovered PROVE Waiting(todo, Parents, {})
        BY <1>2 DEF Onward
    <2> SUFFICES ASSUME NEW i \in 1 .. Len(todo), NEW d \in Parents[todo[i]]
                 PROVE  \E k \in 1 .. i - 1 : todo[k] = d
        BY DEF Waiting
    <2>1. ToSet(registry) = Discovered
        BY RegistryIs DEF OnwardInv
    <2>2. todo[i] \in Discovered
        BY ElementOfSeq
    <2>3. d \in Dependencies[todo[i]]
        BY <1>5, <2>1, <2>2 DEF Ordered, Dependencies, Parents
    <2> QED
        BY <1>5, <2>3 DEF InDependencyOrder, Waiting
<1>6. Ordered' = Ordered
    BY <1>1 DEF Ordered
<1>7. rollbacks' = 0 => Existing \subseteq present' /\ \A q \in Processes : job'[q].up
    BY <1>1, <1>2, <1>4 DEF OnwardInv
<1>8. ASSUME rollbacks' = 0, Ordered, NEW q \in Processes PROVE Onward(job'[q], present')
    BY <1>1, <1>4, <1>5, <1>8 DEF OnwardInv
<1> QED
    BY <1>1, <1>3, <1>4, <1>6, <1>7, <1>8 DEF OnwardInv

\* Every table that a model refers to is migrated too or was there before.
ParentsKnown == \A m \in Discovered : ParentTables(m) \subseteq Discovered \cup Existing

LEMMA StepOnward ==
    ASSUME ParentsKnown, MigrationsInv, OnwardInv, [Next]_vars
    PROVE  OnwardInv'
<1>1. registry \in Orders /\ \A p \in Processes : JobTypeOK(job[p]) /\ TodoOK(job[p])
    BY DEF MigrationsInv, OnwardInv
<1>2. /\ OrderedMigrations \in Seq(Discovered) /\ OrderedMigrations # <<>>
      /\ Ordered => InDependencyOrder(OrderedMigrations, Dependencies)
    BY <1>1, OrderedMigrationsAre
<1>3. ASSUME NEW m \in ToSet(registry)
      PROVE  /\ <<m>> \in Seq(Discovered) /\ <<m>> # <<>>
             /\ Ordered /\ ToSet(<<m>>) = Discovered => InDependencyOrder(<<m>>, Dependencies)
    <2>1. m \in Discovered /\ ToSet(registry) = Discovered
        BY <1>1, <1>3, RegistryIs
    <2>2. <<m>> \in Seq(Discovered) /\ <<m>> # <<>> /\ Len(<<m>>) = 1 /\ <<m>>[1] = m
        BY <2>1
    <2>3. ASSUME Ordered, ToSet(<<m>>) = Discovered
          PROVE  InDependencyOrder(<<m>>, Dependencies)
        <3>1. Discovered = {m}
            <4>1. ToSet(<<m>>) = {<<m>>[i] : i \in 1 .. 1}
                BY <2>2, ToSetIs
            <4> QED
                BY <2>2, <2>3, <4>1
        <3>2. PICK rank \in [Discovered -> 1 .. Cardinality(Discovered)] :
                 \A n \in Discovered : \A d \in dependsOn[n] \cap Discovered : rank[d] < rank[n]
            BY <2>3 DEF Ordered
        <3>3. Cardinality({m}) = 1
            BY FS_Singleton
        <3>4. rank[m] \in Int
            BY <3>1, <3>2, <3>3
        <3>5. Dependencies[m] = {}
            BY <2>1, <3>1, <3>2, <3>4 DEF Dependencies
        <3> QED
            BY <2>2, <3>5 DEF InDependencyOrder, Waiting
    <2> QED
        BY <2>2, <2>3
<1>4. ASSUME NEW p \in Processes, Migrate(p) PROVE OnwardInv'
    <2>1. CASE MigrateAll(p)
        <3>1. Begin(p, TRUE, OrderedMigrations) /\ rollbacks' = rollbacks
            BY <2>1 DEF MigrateAll
        <3> QED
            BY <1>2, <3>1, BeginOnward
    <2>2. CASE ~ MigrateAll(p)
        <3>1. PICK m \in ToSet(registry) : Begin(p, TRUE, <<m>>) /\ rollbacks' = rollbacks
            BY <1>4, <2>2 DEF Migrate, Named
        <3> QED
            BY <1>3, <3>1, BeginOnward
    <2> QED
        BY <2>1, <2>2
<1>5. ASSUME NEW p \in Processes, Rollback(p) PROVE OnwardInv'
    <2>1. PICK todo \in {Reverse(OrderedMigrations)} \cup Named : Begin(p, FALSE, todo)
        BY <1>5 DEF Rollback
    <2>2. rollbacks' = rollbacks + 1
        BY <1>5 DEF Rollback
    <2>3. CASE todo = Reverse(OrderedMigrations)
        <3>1. todo \in Seq(Discovered) /\ todo # <<>>
            BY <1>2, <2>3, ReverseKeeps
        <3> QED
            BY <2>1, <2>2, <3>1, BeginOnward
    <2>4. CASE todo \in Named
        <3>1. PICK m \in ToSet(registry) : todo = <<m>>
            BY <2>4 DEF Named
        <3>2. todo \in Seq(Discovered) /\ todo # <<>>
            BY <1>3, <3>1
        <3> QED
            BY <2>1, <2>2, <3>2, BeginOnward
    <2> QED
        BY <2>1, <2>3, <2>4
<1>6. ASSUME NEW p \in Processes, IsApplied(p) \/ CheckFirst(p) PROVE OnwardInv'
    <2>1. job[p].todo # <<>>
        BY <1>1, <1>6 DEF IsApplied, CheckFirst, TodoOK
    <2>2. CASE Current(p) \in present
        <3>1. Continue(p, TRUE) /\ UNCHANGED <<present, registry, dependsOn, rollbacks>>
            BY <1>6, <2>2 DEF IsApplied, CheckFirst
        <3> QED
            BY <2>1, <2>2, <3>1, ContinueOnward
    <2>3. CASE Current(p) \notin present
        BY <1>6, <2>1, <2>3, GotoOnward DEF IsApplied, CheckFirst
    <2> QED
        BY <2>2, <2>3
<1>7. ASSUME NEW p \in Processes, CreateTable(p) PROVE OnwardInv'
    <2>1. job[p].todo # <<>> /\ job[p].up
        BY <1>1, <1>7 DEF CreateTable, TodoOK, JobTypeOK
    <2>2. /\ Continue(p, Creatable(Current(p))) /\ Creatable(Current(p)) \in BOOLEAN
          /\ UNCHANGED <<registry, dependsOn, rollbacks>>
          /\ present' = present \cup (IF Creatable(Current(p)) THEN {Current(p)} ELSE {})
        BY <1>7 DEF CreateTable, Creatable
    <2>3. ASSUME rollbacks = 0, Ordered, job[p].ran \cup ToSet(job[p].todo) = Discovered
          PROVE  Current(p) \in present'
        <3>1. /\ Existing \subseteq present
              /\ job[p].ran \subseteq present
              /\ Waiting(job[p].todo, Parents, job[p].ran)
            BY <2>1, <2>3 DEF OnwardInv, Onward
        <3>2. /\ Current(p) \in Discovered /\ Current(p) = job[p].todo[1]
              /\ 1 \in 1 .. Len(job[p].todo)
            BY <1>1, <2>1, TailDistinct DEF TodoOK, Current
        <3>3. ParentTables(Current(p)) \cap Discovered \subseteq present
            <4>1. \A d \in Parents[Current(p)] : d \in job[p].ran
                BY <3>1, <3>2 DEF Waiting
            <4>2. Parents[Current(p)] = ParentTables(Current(p)) \cap Discovered
                BY <3>2 DEF Parents
            <4> QED
                BY <3>1, <4>1, <4>2
        <3>4. ParentTables(Current(p)) \subseteq present
            BY <3>1, <3>2, <3>3 DEF ParentsKnown
        <3> QED
            BY <2>2, <3>4 DEF Creatable
    <2> QED
        BY <2>1, <2>2, <2>3, ContinueOnward
<1>8. ASSUME NEW p \in Processes, DropTable(p) PROVE OnwardInv'
    <2> DEFINE ok == Current(p) \notin present \/ Droppable(Current(p))
    <2>1. job[p].todo # <<>> /\ ~ job[p].up
        BY <1>1, <1>8 DEF DropTable, TodoOK, JobTypeOK
    <2>2. rollbacks # 0
        BY <2>1 DEF OnwardInv
    <2>3. Continue(p, ok) /\ UNCHANGED <<registry, dependsOn, rollbacks>> /\ ok \in BOOLEAN
        BY <1>8 DEF DropTable, Droppable
    <2> HIDE DEF ok
    <2> QED
        BY <2>1, <2>2, <2>3, ContinueOnward
<1>9. CASE UNCHANGED vars
    BY <1>9 DEF vars, OnwardInv, TodoOK, Onward, Ordered
<1> QED
    BY <1>4, <1>5, <1>6, <1>7, <1>8, <1>9 DEF Next, Work

(* Where depends_on names every discovered model that a model refers to    *)
(* and goes round in no circle, one run over all models leaves every table *)
(* in place, whatever order they are registered in and however many other  *)
(* processes migrate at the same time, so long as nobody rolls back and    *)
(* the tables of models that are not discovered are there.                 *)
THEOREM OneRunIsEnough == ParentsKnown => (Spec => []OneRunSuffices)
<1> SUFFICES ASSUME ParentsKnown PROVE Spec => []OneRunSuffices
    OBVIOUS
<1>1. OnwardInv => OneRunSuffices
    <2> SUFFICES ASSUME OnwardInv, NEW p \in Processes, Reported(p), job[p].up,
                        job[p].ran = Discovered, rollbacks = 0, Ordered
                 PROVE  Discovered \subseteq present
        BY DEF OneRunSuffices
    <2>1. job[p].todo = <<>> /\ Onward(job[p], present)
        BY DEF OnwardInv, TodoOK, Reported
    <2>2. ToSet(<<>>) = {}
        BY DEF ToSet
    <2> QED
        BY <2>1, <2>2 DEF Onward
<1>2. MigrationsInv /\ OnwardInv /\ [Next]_vars => OnwardInv'
    BY StepOnward
<1> QED
    BY <1>1, <1>2, InitInv, StepInv, InitOnward, PTL DEF Spec
-----------------------------------------------------------------------------
(* Seeder *)

RegisteredParents ==
    [m \in ToSet(registered) |-> ParentTables(m) \cap ToSet(registered)]
RegisteredChildren ==
    [m \in ToSet(registered) |-> {t \in ToSet(registered) : m \in ParentTables(t)}]

(* seed_all() waits with a model for rows of its parents, reset() until    *)
(* those of its children are gone.                                         *)
SeederInv ==
    /\ registered \in Seq(Registrable) /\ Distinct(registered)
    /\ factory \in [Registrable -> {"auto", "custom"}]
    /\ Prepared \subseteq filled /\ Prepared \subseteq kept
    /\ models \in Seq(ToSet(registered))
    /\ \/ pc \in {"idle", "raised"}
       \/ pc \in {"seed", "seed_all", "reset", "reset_all"} /\ models # <<>>
    /\ pc = "seed_all" => Waiting(models, RegisteredParents, filled)
    /\ pc = "reset_all" => Waiting(models, RegisteredChildren, ToSet(registered) \ filled)

LEMMA InitSeeder == SeederInit => SeederInv
<1> SUFFICES ASSUME SeederInit PROVE SeederInv
    OBVIOUS
<1>1. <<>> \in Seq(Registrable) /\ <<>> \in Seq(ToSet(registered)) /\ Len(<<>>) = 0
    OBVIOUS
<1>2. registered = <<>> /\ models = <<>> /\ pc = "idle" /\ filled = Prepared /\ kept = Prepared
    BY DEF SeederInit
<1>3. factory \in [Registrable -> {"auto", "custom"}]
    BY DEF SeederInit
<1>4. Distinct(registered)
    BY <1>1, <1>2 DEF Distinct
<1> QED
    BY <1>1, <1>2, <1>3, <1>4 DEF SeederInv

LEMMA SortedIs ==
    ASSUME SeederInv, registered # <<>>
    PROVE  /\ Sorted \in Seq(ToSet(registered)) /\ Sorted # <<>>
           /\ ToSet(Sorted) = ToSet(registered) /\ Distinct(Sorted)
           /\ InDependencyOrder(Sorted, RegisteredParents)
<1>1. /\ registered \in Seq(Registrable) /\ Distinct(registered)
      /\ registered \in Seq(ToSet(registered))
      /\ ToSet(registered) \subseteq Registrable /\ Len(registered) \in Nat \ {0}
    <2>1. registered \in Seq(Registrable) /\ Distinct(registered)
        BY DEF SeederInv
    <2>2. /\ ToSet(registered) = {registered[i] : i \in 1 .. Len(registered)}
          /\ ToSet(registered) \subseteq Registrable /\ Len(registered) \in Nat
        BY <2>1, ToSetIs
    <2>3. registered = [i \in 1 .. Len(registered) |-> registered[i]]
        BY <2>1, LenProperties
    <2>4. registered \in Seq(ToSet(registered))
        BY <2>2, <2>3, IsASeq
    <2>5. Len(registered) # 0
        BY <2>1, EmptySeq
    <2> QED
        BY <2>1, <2>2, <2>4, <2>5
<1>2. PICK rank \in [Registrable -> 1 .. Cardinality(Registrable)] :
         \A m \in Registrable : \A d \in ParentTables(m) \cap Registrable : rank[d] < rank[m]
    BY SeederAssumption
<1>3. \A m \in ToSet(registered) : rank[m] \in Nat
    <2>1. Cardinality(Registrable) \in Nat
        BY SeederAssumption, FS_CardinalityType
    <2> QED
        BY <1>1, <1>2, <2>1
<1>4. \A m \in ToSet(registered) : \A d \in RegisteredParents[m] : rank[d] < rank[m]
    BY <1>1, <1>2 DEF RegisteredParents
<1>5. RegisteredParents \in [ToSet(registered) -> SUBSET ToSet(registered)]
    BY DEF RegisteredParents
<1>6. Sorted = Kahn(registered, RegisteredParents)
    BY DEF Sorted, RegisteredParents
<1>7. /\ Sorted \in Seq(ToSet(registered)) /\ ToSet(Sorted) = ToSet(registered)
      /\ Len(Sorted) = Len(registered) /\ Distinct(Sorted)
      /\ InDependencyOrder(Sorted, RegisteredParents)
    BY <1>1, <1>3, <1>4, <1>5, <1>6, KahnSorts
<1>8. Sorted # <<>>
    <2>1. Len(<<>>) = 0
        OBVIOUS
    <2> QED
        BY <1>1, <1>7, <2>1
<1> QED
    BY <1>7, <1>8

\* Backwards, every model comes after those that refer to it.
LEMMA ReversedIs ==
    ASSUME SeederInv, registered # <<>>
    PROVE  /\ Reverse(Sorted) \in Seq(ToSet(registered)) /\ Reverse(Sorted) # <<>>
           /\ InDependencyOrder(Reverse(Sorted), RegisteredChildren)
<1> DEFINE s == Sorted
           r == Reverse(s)
           G == ToSet(registered)
<1>1. /\ s \in Seq(G) /\ s # <<>> /\ ToSet(s) = G /\ Distinct(s)
      /\ InDependencyOrder(s, RegisteredParents)
    BY SortedIs
<1> HIDE DEF s
<1>2. /\ r \in Seq(G) /\ Len(r) = Len(s) /\ r # <<>> /\ Len(s) \in Nat
      /\ \A i \in 1 .. Len(s) : r[i] = s[Len(s) - i + 1]
    BY <1>1, ReverseKeeps, LenProperties
<1> HIDE DEF r
<1>3. ASSUME NEW i \in 1 .. Len(r), NEW t \in RegisteredChildren[r[i]]
      PROVE  \E k \in 1 .. i - 1 : r[k] = t
    <2>1. r[i] \in G /\ Len(s) - i + 1 \in 1 .. Len(s) /\ r[i] = s[Len(s) - i + 1]
        BY <1>2, <1>3, ElementOfSeq
    <2>2. t \in G /\ r[i] \in RegisteredParents[t]
        BY <1>3, <2>1 DEF RegisteredChildren, RegisteredParents
    <2>3. PICK j \in 1 .. Len(s) : s[j] = t
        <3>1. ToSet(s) = {s[j] : j \in 1 .. Len(s)}
            BY <1>1, ToSetIs
        <3> QED
            BY <1>1, <2>2, <3>1
    <2>4. PICK l \in 1 .. j - 1 : s[l] = r[i]
        BY <1>1, <2>2, <2>3 DEF InDependencyOrder, Waiting
    <2>5. l = Len(s) - i + 1
        <3>1. l \in 1 .. Len(s)
            BY <1>2, <2>3, <2>4
        <3> QED
            BY <1>1, <2>1, <2>4, <3>1 DEF Distinct
    <2>6. /\ Len(s) - j + 1 \in 1 .. i - 1 /\ Len(s) - j + 1 \in 1 .. Len(s)
          /\ Len(s) - (Len(s) - j + 1) + 1 = j
        BY <1>2, <2>3, <2>4, <2>5
    <2>7. r[Len(s) - j + 1] = t
        BY <1>2, <2>3, <2>6
    <2> QED
        BY <2>6, <2>7
<1> QED
    BY <1>2, <1>3 DEF InDependencyOrder, Waiting, s, r

\* What a DELETE takes with it: the rows of the table itself, others only if they
\* refer to it, and no rows that are prepared.
LEMMA DoomedAre ==
    ASSUME NEW m
    PROVE  /\ m \in Doomed(m) /\ Doomed(m) \subseteq filled \cup {m}
           /\ m \notin Prepared => Doomed(m) \cap Prepared = {}
           /\ (\A t \in filled \ {m} : \A ref \in Required(t) : ref.to # m)
                 => Doomed(m) = {m}
<1>1. m \in Doomed(m) /\ Doomed(m) \subseteq filled \cup {m}
    BY DEF Doomed
<1>2. ASSUME m \notin Prepared PROVE Doomed(m) \cap Prepared = {}
    <2> DEFINE s == (filled \cup {m}) \ Prepared
    <2>1. m \in s /\ s \in SUBSET (filled \cup {m})
        BY <1>2
    <2>2. Closed(s)
        BY SeederAssumption DEF Closed
    <2> QED
        BY <2>1, <2>2 DEF Doomed
<1>3. ASSUME \A t \in filled \ {m} : \A ref \in Required(t) : ref.to # m
      PROVE  Doomed(m) = {m}
    <2>1. Closed({m})
        BY <1>3 DEF Closed
    <2>2. {m} \in SUBSET (filled \cup {m})
        OBVIOUS
    <2> QED
        BY <1>1, <2>1, <2>2 DEF Doomed
<1> QED
    BY <1>1, <1>2, <1>3

\* One statement of a call.
LEMMA ExecuteStep ==
    ASSUME SeederInv, NEW calls, NEW succeeds \in BOOLEAN, NEW result,
           calls \subseteq {"seed", "seed_all", "reset", "reset_all"},
           Execute(calls, succeeds, result), Prepared \subseteq result,
           "seed_all" \in calls => filled \cup {Head(models)} \subseteq result,
           "reset_all" \in calls => result \subseteq filled \ {Head(models)}
    PROVE  SeederInv'
<1>1. /\ registered \in Seq(Registrable) /\ Distinct(registered)
      /\ factory \in [Registrable -> {"auto", "custom"}]
      /\ Prepared \subseteq filled /\ Prepared \subseteq kept
      /\ models \in Seq(ToSet(registered)) /\ models # <<>>
      /\ pc = "seed_all" => Waiting(models, RegisteredParents, filled)
      /\ pc = "reset_all" => Waiting(models, RegisteredChildren, ToSet(registered) \ filled)
    BY DEF SeederInv, Execute
<1>2. UNCHANGED <<registered, factory, kept>> /\ pc \in calls
    BY DEF Execute
<1>3. /\ Head(models) \in ToSet(registered) /\ Tail(models) \in Seq(ToSet(registered))
      /\ Len(Tail(models)) = Len(models) - 1 /\ Len(models) \in Nat \ {0}
    BY <1>1, TailDistinct
<1>4. CASE succeeds
    <2>1. filled' = result /\ models' = Tail(models)
          /\ pc' = IF Len(models) = 1 THEN "idle" ELSE pc
        BY <1>4 DEF Execute
    <2>2. Len(models) # 1 => Tail(models) # <<>>
        <3>1. Tail(models) = <<>> => Len(Tail(models)) = 0
            BY <1>3, EmptySeq
        <3> QED
            BY <1>3, <3>1
    <2>3. pc' = "seed_all" => Waiting(models', RegisteredParents, filled')
        BY <1>1, <1>2, <2>1, WaitingOn
    <2>4. pc' = "reset_all" =>
             Waiting(models', RegisteredChildren, ToSet(registered) \ filled')
        <3> SUFFICES ASSUME pc' = "reset_all"
                     PROVE  Waiting(models', RegisteredChildren, ToSet(registered) \ filled')
            OBVIOUS
        <3>1. pc = "reset_all"
            BY <2>1
        <3>2. (ToSet(registered) \ filled) \cup {Head(models)} \subseteq ToSet(registered) \ filled'
            BY <1>2, <1>3, <2>1, <3>1
        <3> QED
            BY <1>1, <2>1, <3>1, <3>2, WaitingOn
    <2> QED
        BY <1>1, <1>2, <1>3, <2>1, <2>2, <2>3, <2>4
        DEF SeederInv, RegisteredParents, RegisteredChildren
<1>5. CASE ~ succeeds
    <2>1. pc' = "raised" /\ UNCHANGED <<filled, models>>
        BY <1>5 DEF Execute
    <2> QED
        BY <1>1, <1>2, <2>1 DEF SeederInv
<1> QED
    BY <1>4, <1>5

LEMMA SeederStep == SeederInv /\ [SeederNext]_seederVars => SeederInv'
<1> SUFFICES ASSUME SeederInv, [SeederNext]_seederVars PROVE SeederInv'
    OBVIOUS
<1>1. ASSUME NEW m \in Registrable, Register(m) PROVE SeederInv'
    <2>1. /\ pc = "idle" /\ UNCHANGED <<filled, kept, pc, models>>
          /\ registered' = IF m \in ToSet(registered) THEN registered ELSE Append(registered, m)
        BY <1>1 DEF Register
    <2>2. factory' \in [Registrable -> {"auto", "custom"}]
        BY <1>1 DEF Register, SeederInv
    <2>3. /\ registered' \in Seq(Registrable) /\ Distinct(registered')
          /\ ToSet(registered) \subseteq ToSet(registered')
        <3>1. registered \in Seq(Registrable) /\ Distinct(registered)
            BY DEF SeederInv
        <3> QED
            BY <2>1, <3>1, AppendDistinct
    <2>4. models' \in Seq(ToSet(registered'))
        BY <2>1, <2>3, SeqMonotonic DEF SeederInv
    <2> QED
        BY <2>1, <2>2, <2>3, <2>4 DEF SeederInv
<1>2. CASE Seed \/ Reset
    <2>1. /\ registered # <<>> /\ UNCHANGED <<registered, factory, filled, kept>>
          /\ \/ pc' \in {"seed", "reset"} /\ \E m \in ToSet(registered) : models' = <<m>>
             \/ pc' = "seed_all" /\ models' = Sorted
             \/ pc' = "reset_all" /\ models' = Reverse(Sorted)
        BY <1>2 DEF Seed, Reset, SeederCall
    <2>2. models' \in Seq(ToSet(registered)) /\ models' # <<>>
        <3>1. \A m \in ToSet(registered) :
                 <<m>> \in Seq(ToSet(registered)) /\ <<m>> # <<>>
            OBVIOUS
        <3> QED
            BY <2>1, <3>1, SortedIs, ReversedIs
    <2>3. pc' = "seed_all" => Waiting(models', RegisteredParents, filled)
        <3>1. pc' = "seed_all" => models' = Sorted
            BY <2>1
        <3> QED
            BY <2>1, <3>1, SortedIs DEF InDependencyOrder, Waiting
    <2>4. pc' = "reset_all" =>
             Waiting(models', RegisteredChildren, ToSet(registered) \ filled)
        <3>1. pc' = "reset_all" => models' = Reverse(Sorted)
            BY <2>1
        <3> QED
            BY <2>1, <3>1, ReversedIs DEF InDependencyOrder, Waiting
    <2> QED
        BY <2>1, <2>2, <2>3, <2>4 DEF SeederInv, RegisteredParents, RegisteredChildren
<1>3. CASE SeedBatch
    <2> DEFINE ok == Insertable(Head(models))
    <2>1. Execute({"seed", "seed_all"}, ok, filled \cup {Head(models)})
        BY <1>3 DEF SeedBatch
    <2>2. ok \in BOOLEAN /\ Prepared \subseteq filled
        BY DEF Insertable, AutoInsertable, CustomInsertable, SeederInv
    <2> HIDE DEF ok
    <2> QED
        BY <2>1, <2>2, ExecuteStep
<1>4. CASE DeleteAll
    <2> DEFINE ok == Deletable(Head(models))
               rest == filled \ Doomed(Head(models))
    <2>1. Execute({"reset", "reset_all"}, ok, rest)
        BY <1>4 DEF DeleteAll
    <2>2. Head(models) \notin Prepared
        <3>1. /\ models \in Seq(ToSet(registered)) /\ models # <<>>
              /\ registered \in Seq(Registrable)
            BY <2>1 DEF SeederInv, Execute
        <3>2. Head(models) \in Registrable
            BY <3>1, TailDistinct, ToSetIs
        <3> QED
            BY <3>2, SeederAssumption
    <2>3. ok \in BOOLEAN /\ Prepared \subseteq rest /\ rest \subseteq filled \ {Head(models)}
        BY <2>2, DoomedAre DEF Deletable, SeederInv
    <2> HIDE DEF ok, rest
    <2> QED
        BY <2>1, <2>3, ExecuteStep
<1>5. CASE CommitSeeds
    BY <1>5 DEF CommitSeeds, SeederInv
<1>6. CASE RollbackSeeds
    BY <1>6 DEF RollbackSeeds, SeederInv
<1>7. CASE UNCHANGED seederVars
    BY <1>7 DEF seederVars, SeederInv, RegisteredParents, RegisteredChildren
<1> QED
    BY <1>1, <1>2, <1>3, <1>4, <1>5, <1>6, <1>7 DEF SeederNext

\* What is at the head waits for nothing.
LEMMA HeadIsReady ==
    ASSUME NEW S, NEW s \in Seq(S), s # <<>>, NEW deps, NEW ready, Waiting(s, deps, ready)
    PROVE  deps[Head(s)] \subseteq ready
<1>1. 1 \in 1 .. Len(s) /\ Head(s) = s[1]
    BY TailDistinct
<1> QED
    BY <1>1 DEF Waiting

(* For any models, factories and registrations, and any rows that are      *)
(* there already: seed_all() reaches no model before the rows of its       *)
(* registered parents, so it raises only at a model with a generated       *)
(* factory or with a parent that nobody registered or prepared.            *)
THEOREM SeedAllFollowsTheKeys == SeederSpec => SeedsParentsFirst
<1>1. ASSUME SeederInv, SeederNext, pc = "seed_all", pc' = "raised",
             factory[Head(models)] # "auto",
             ParentTables(Head(models)) \subseteq ToSet(registered) \cup Prepared
      PROVE  FALSE
    <2> DEFINE m == Head(models)
    <2>1. ~ Insertable(m)
        BY <1>1 DEF SeederNext, Register, Seed, Reset, SeederCall, SeedBatch, DeleteAll,
                    CommitSeeds, RollbackSeeds, Execute
    <2>2. PICK ref \in Required(m) : ref.to \notin filled \cup {m}
        BY <1>1, <2>1 DEF Insertable, CustomInsertable
    <2>3. ref.to \in ParentTables(m)
        BY <2>2 DEF Required, ParentTables
    <2>4. /\ models \in Seq(ToSet(registered)) /\ models # <<>>
          /\ Waiting(models, RegisteredParents, filled) /\ Prepared \subseteq filled
        BY <1>1 DEF SeederInv
    <2>5. m \in ToSet(registered) /\ RegisteredParents[m] \subseteq filled
        BY <2>4, TailDistinct, HeadIsReady
    <2> QED
        BY <1>1, <2>2, <2>3, <2>4, <2>5 DEF RegisteredParents
<1>2. SeederInv /\ [SeederNext]_seederVars
         => [pc = "seed_all" /\ pc' = "raised"
               => \/ factory[Head(models)] = "auto"
                  \/ ~ (ParentTables(Head(models)) \subseteq ToSet(registered) \cup Prepared)
            ]_seederVars
    BY <1>1
<1> QED
    BY <1>2, InitSeeder, SeederStep, PTL DEF SeederSpec, SeedsParentsFirst

(* The loop of reset() deletes the rows of a model only when those of the  *)
(* registered models that refer to it are gone: if the DELETE is refused,  *)
(* or would take other rows with it, a model that is not registered has    *)
(* rows that refer to what it deletes.                                     *)
THEOREM ResetFollowsTheKeys == SeederSpec => ResetIsUnblocked
<1>1. ASSUME SeederInv, SeederNext, pc = "reset_all", pc' = "raised",
             \A t \in filled \ ToSet(registered) : \A ref \in Required(t) :
                ref.to \notin Doomed(Head(models))
      PROVE  FALSE
    <2> DEFINE m == Head(models)
    <2>1. ~ Deletable(m)
        BY <1>1 DEF SeederNext, Register, Seed, Reset, SeederCall, SeedBatch, DeleteAll,
                    CommitSeeds, RollbackSeeds, Execute
    <2>2. /\ models \in Seq(ToSet(registered)) /\ models # <<>>
          /\ Waiting(models, RegisteredChildren, ToSet(registered) \ filled)
        BY <1>1 DEF SeederInv
    <2>3. m \in ToSet(registered) /\ RegisteredChildren[m] \subseteq ToSet(registered) \ filled
        BY <2>2, TailDistinct, HeadIsReady
    <2>4. ASSUME NEW t \in filled \ {m}, NEW ref \in Required(t), ref.to = m PROVE FALSE
        <3>1. t \in ToSet(registered)
            BY <1>1, <2>4, DoomedAre
        <3>2. m \in ParentTables(t)
            BY <2>4 DEF Required, ParentTables
        <3> QED
            BY <2>3, <2>4, <3>1, <3>2 DEF RegisteredChildren
    <2>5. Doomed(m) = {m}
        BY <2>4, DoomedAre
    <2> QED
        BY <2>1, <2>4, <2>5 DEF Deletable
<1>2. SeederInv /\ [SeederNext]_seederVars
         => [pc = "reset_all" /\ pc' = "raised"
               => \E t \in filled \ ToSet(registered) : \E ref \in Required(t) :
                     ref.to \in Doomed(Head(models))]_seederVars
    BY <1>1
<1> QED
    BY <1>2, InitSeeder, SeederStep, PTL DEF SeederSpec, ResetIsUnblocked
=============================================================================
