----------------------------- MODULE Tools_proofs -----------------------------
(***************************************************************************)
(* Theorems about Pagination, for any list, page size and writes of        *)
(* others: what a walk over the pages gives, by cursor and by number, and  *)
(* where the way back leads; and about Bulk, for any tables, items and     *)
(* batch size: what a commit keeps of an operation that failed, and what   *)
(* one that did not fail has done.                                         *)
(***************************************************************************)
EXTENDS Bulk, Pagination, FiniteSetTheorems, SequenceTheorems, TLAPS

-----------------------------------------------------------------------------
(* Lists of rows *)

\* s has all of ids, each in its place by the ordering column.
Listed(s, ids) ==
    /\ s \in Seq(ids)
    /\ Len(s) = Cardinality(ids)
    /\ \A i, j \in 1 .. Len(s) : i < j => table[s[i]] < table[s[j]]
    /\ \A id \in ids : \E i \in 1 .. Len(s) : s[i] = id

\* The last page of a list, as PagesBefore reads it.
LastPageOf(s) == Reverse(FirstOf(Reverse(s), Limit))

UpTo(v)  == {id \in DOMAIN table : table[id] <= v}
Below(v) == {id \in DOMAIN table : table[id] < v}

TableOK ==
    /\ IsFiniteSet(DOMAIN table) /\ DOMAIN table \subseteq RowIds
    /\ table \in [DOMAIN table -> OrderValues]
    /\ Unique => \A i, j \in DOMAIN table : table[i] = table[j] => i = j

LEMMA FirstOfProperties ==
    ASSUME NEW S, NEW s \in Seq(S), NEW n \in Nat
    PROVE  /\ FirstOf(s, n) \in Seq(S)
           /\ Len(FirstOf(s, n)) = IF n < Len(s) THEN n ELSE Len(s)
           /\ \A i \in 1 .. Len(FirstOf(s, n)) : FirstOf(s, n)[i] = s[i]
<1> DEFINE m == IF n < Len(s) THEN n ELSE Len(s)
<1>1. m \in Nat /\ m <= Len(s)
    OBVIOUS
<1>2. \A i \in 1 .. m : s[i] \in S
    BY <1>1, ElementOfSeq
<1>3. FirstOf(s, n) = SubSeq(s, 1, m)
    BY DEF FirstOf
<1> QED
    BY <1>1, <1>2, <1>3, SubSeqProperties

LEMMA ReverseProperties ==
    ASSUME NEW S, NEW s \in Seq(S)
    PROVE  /\ Reverse(s) \in Seq(S)
           /\ Len(Reverse(s)) = Len(s)
           /\ \A i \in 1 .. Len(s) : Reverse(s)[i] = s[Len(s) - i + 1]
<1>1. Reverse(s) \in [1 .. Len(s) -> S]
    BY DEF Reverse
<1>2. Reverse(s) \in Seq(S)
    BY <1>1, SeqDef
<1> QED
    BY <1>1, <1>2 DEF Reverse

LEMMA LastPageProperties ==
    ASSUME NEW S, NEW s \in Seq(S)
    PROVE  /\ LastPageOf(s) \in Seq(S)
           /\ Len(LastPageOf(s)) = IF Limit < Len(s) THEN Limit ELSE Len(s)
           /\ \A i \in 1 .. Len(LastPageOf(s)) :
                LastPageOf(s)[i] = s[Len(s) - Len(LastPageOf(s)) + i]
<1> DEFINE r == Reverse(s)
           f == FirstOf(r, Limit)
<1>1. r \in Seq(S) /\ Len(r) = Len(s)
      /\ \A i \in 1 .. Len(s) : r[i] = s[Len(s) - i + 1]
    BY ReverseProperties
<1>2. f \in Seq(S) /\ Len(f) = (IF Limit < Len(s) THEN Limit ELSE Len(s))
      /\ \A i \in 1 .. Len(f) : f[i] = r[i]
    BY <1>1, FirstOfProperties, PaginationAssumption
<1>3. /\ Reverse(f) \in Seq(S) /\ Len(Reverse(f)) = Len(f)
      /\ \A i \in 1 .. Len(f) : Reverse(f)[i] = f[Len(f) - i + 1]
    BY <1>2, ReverseProperties
<1>4. LastPageOf(s) = Reverse(f)
    BY DEF LastPageOf
<1>5. ASSUME NEW i \in 1 .. Len(f)
      PROVE  Reverse(f)[i] = s[Len(s) - Len(f) + i]
    <2> DEFINE j == Len(f) - i + 1
    <2>1. Len(f) \in Nat /\ Len(s) \in Nat /\ Len(f) <= Len(s)
        BY <1>2, LenProperties, PaginationAssumption
    <2>2. j \in 1 .. Len(f) /\ j \in 1 .. Len(s)
        BY <2>1
    <2>3. Reverse(f)[i] = r[j]
        BY <1>2, <1>3, <2>2
    <2>4. r[j] = s[Len(s) - j + 1]
        BY <1>1, <2>2
    <2>5. Len(s) - j + 1 = Len(s) - Len(f) + i
        BY <2>1
    <2> QED
        BY <2>3, <2>4, <2>5
<1> QED
    BY <1>2, <1>3, <1>4, <1>5

\* ORDER BY gives such a list.
LEMMA AscendingIsListed ==
    ASSUME TableOK, Unique, NEW ids \in SUBSET DOMAIN table, NEW s \in Ascending(ids)
    PROVE  Listed(s, ids)
<1> DEFINE D == 1 .. Cardinality(ids)
<1>1. IsFiniteSet(ids) /\ Cardinality(ids) \in Nat
    BY FS_Subset, FS_CardinalityType DEF TableOK
<1>2. /\ s \in [D -> ids]
      /\ \A i, j \in D : i # j => s[i] # s[j]
      /\ \A i, j \in D : i < j => table[s[i]] <= table[s[j]]
    <2>1. s \in SetToSeqs(ids)
          /\ \A i, j \in DOMAIN s : i < j => table[s[i]] <= table[s[j]]
        BY DEF Ascending
    <2>2. s \in [D -> ids] /\ \A i, j \in D : i # j => s[i] # s[j]
        BY <2>1 DEF SetToSeqs
    <2>3. DOMAIN s = D
        BY <2>2
    <2> QED
        BY <2>1, <2>2, <2>3
<1>3. s \in Seq(ids) /\ Len(s) = Cardinality(ids)
    BY <1>1, <1>2, SeqDef
<1>4. \A i, j \in D : i < j => table[s[i]] < table[s[j]]
    <2> SUFFICES ASSUME NEW i \in D, NEW j \in D, i < j
                 PROVE  table[s[i]] < table[s[j]]
        OBVIOUS
    <2>1. s[i] \in DOMAIN table /\ s[j] \in DOMAIN table /\ s[i] # s[j]
        BY <1>1, <1>2
    <2>2. table[s[i]] \in Int /\ table[s[j]] \in Int
        BY <2>1, PaginationAssumption DEF TableOK
    <2>3. table[s[i]] # table[s[j]]
        BY <2>1 DEF TableOK
    <2> QED
        BY <1>2, <2>2, <2>3
<1>5. s \in Surjection(D, ids)
    <2>1. s \in Injection(D, ids)
        BY <1>2 DEF Injection, IsInjective
    <2>2. Cardinality(D) = Cardinality(ids)
        BY <1>1, FS_Interval
    <2> QED
        BY <1>1, <2>1, <2>2, FS_Injection
<1>6. \A id \in ids : \E i \in D : s[i] = id
    BY <1>5 DEF Surjection
<1> QED
    BY <1>3, <1>4, <1>6 DEF Listed

\* The place of a row in a list is what the list holds from it on.
LEMMA RankFromTheEnd ==
    ASSUME TableOK, NEW ids \in SUBSET DOMAIN table, NEW s, Listed(s, ids),
           NEW i \in 1 .. Len(s)
    PROVE  Cardinality({k \in ids : table[k] >= table[s[i]]}) = Len(s) - i + 1
<1> DEFINE R == {k \in ids : table[k] >= table[s[i]]}
           f == [j \in i .. Len(s) |-> s[j]]
<1>1. /\ Len(s) \in Nat /\ i \in Int
      /\ \A j \in 1 .. Len(s) : s[j] \in ids /\ table[s[j]] \in Int
      /\ \A j, k \in 1 .. Len(s) : j < k => table[s[j]] < table[s[k]]
      /\ \A id \in ids : \E j \in 1 .. Len(s) : s[j] = id
    <2>1. s \in Seq(ids)
        BY DEF Listed
    <2>2. Len(s) \in Nat /\ \A j \in 1 .. Len(s) : s[j] \in ids
        BY <2>1, ElementOfSeq, LenProperties
    <2>3. \A k \in ids : table[k] \in Int
        BY PaginationAssumption DEF TableOK
    <2> QED
        BY <2>2, <2>3 DEF Listed
<1>2. ASSUME NEW j \in i .. Len(s) PROVE s[j] \in R
    <2>1. j \in 1 .. Len(s) /\ (i < j \/ i = j)
        BY <1>1
    <2> QED
        BY <1>1, <2>1
<1>3. f \in [i .. Len(s) -> R]
    BY <1>2
<1>4. \A j, k \in i .. Len(s) : f[j] = f[k] => j = k
    <2> SUFFICES ASSUME NEW j \in i .. Len(s), NEW k \in i .. Len(s), s[j] = s[k]
                 PROVE  j = k
        OBVIOUS
    <2>1. j \in 1 .. Len(s) /\ k \in 1 .. Len(s)
        BY <1>1
    <2>2. ~ (j < k) /\ ~ (k < j)
        BY <1>1, <2>1
    <2> QED
        BY <2>1, <2>2, <1>1
<1>5. ASSUME NEW r \in R PROVE \E j \in i .. Len(s) : f[j] = r
    <2>1. PICK j \in 1 .. Len(s) : s[j] = r
        BY <1>1
    <2>2. ~ (j < i)
        BY <1>1, <2>1
    <2>3. j \in i .. Len(s)
        BY <1>1, <2>2
    <2> QED
        BY <2>1, <2>3
<1>6. f \in Bijection(i .. Len(s), R)
    BY <1>3, <1>4, <1>5 DEF Bijection, Injection, Surjection, IsInjective
<1>7. IsFiniteSet(i .. Len(s)) /\ Cardinality(i .. Len(s)) = Len(s) - i + 1
    BY <1>1, FS_Interval
<1>8. ExistsBijection(i .. Len(s), R)
    BY <1>6 DEF ExistsBijection
<1>9. Cardinality(R) = Cardinality(i .. Len(s))
    BY <1>7, <1>8, FS_Bijection
<1> QED
    BY <1>7, <1>9

\* Two such lists of one set of rows are the same.
LEMMA ListedOnce ==
    ASSUME TableOK, NEW ids \in SUBSET DOMAIN table,
           NEW s, Listed(s, ids), NEW t, Listed(t, ids)
    PROVE  s = t
<1>1. s \in Seq(ids) /\ t \in Seq(ids) /\ Len(s) = Len(t) /\ Len(s) \in Nat
    BY LenProperties DEF Listed
<1>2. ASSUME NEW i \in 1 .. Len(s) PROVE s[i] = t[i]
    <2>1. s[i] \in ids
        BY <1>1, ElementOfSeq
    <2>2. PICK j \in 1 .. Len(t) : t[j] = s[i]
        BY <2>1 DEF Listed
    <2> DEFINE rank == Cardinality({k \in ids : table[k] >= table[s[i]]})
    <2>3. rank = Len(s) - i + 1
        BY RankFromTheEnd
    <2>4. Cardinality({k \in ids : table[k] >= table[t[j]]}) = Len(t) - j + 1
        BY RankFromTheEnd
    <2>5. Len(s) - i + 1 = Len(t) - j + 1
        BY <2>2, <2>3, <2>4
    <2> QED
        BY <1>1, <2>2, <2>5
<1> QED
    BY <1>1, <1>2, SeqEqual

(* The first page after a cursor is the last one of the list up to its     *)
(* last row, as long as it is full.                                        *)
LEMMA ForwardsIsBackwards ==
    ASSUME TableOK, Unique, NEW c \in OrderValues \cup {NULL},
           NEW s, Listed(s, After(c)), Limit < Len(s),
           NEW t, Listed(t, UpTo(table[s[Limit]]))
    PROVE  FirstOf(s, Limit) = LastPageOf(t)
<1> DEFINE v == table[s[Limit]]
           page1 == FirstOf(s, Limit)
<1>1. Limit \in Nat \ {0}
    BY PaginationAssumption
<1>2. s \in Seq(After(c)) /\ t \in Seq(UpTo(v)) /\ Len(s) \in Nat /\ Len(t) \in Nat
    BY LenProperties DEF Listed
<1>3. After(c) \subseteq DOMAIN table /\ UpTo(v) \subseteq DOMAIN table
    BY DEF After, UpTo
<1>4. \A k \in DOMAIN table : table[k] \in Int
    BY PaginationAssumption DEF TableOK
<1>5. page1 \in Seq(After(c)) /\ Len(page1) = Limit
      /\ \A i \in 1 .. Limit : page1[i] = s[i]
    BY <1>1, <1>2, FirstOfProperties
<1>6. ASSUME NEW i \in 1 .. Limit
      PROVE  /\ s[i] \in UpTo(v)
             /\ Cardinality({k \in UpTo(v) : table[k] >= table[s[i]]}) = Limit - i + 1
    <2> DEFINE R == {k \in UpTo(v) : table[k] >= table[s[i]]}
               A == {k \in After(c) : table[k] >= table[s[i]]}
               B == {k \in After(c) : table[k] >= table[s[Limit + 1]]}
    <2>1. i \in 1 .. Len(s) /\ Limit \in 1 .. Len(s) /\ Limit + 1 \in 1 .. Len(s)
        BY <1>1, <1>2
    <2>2. \A j \in 1 .. Len(s) : s[j] \in After(c) /\ s[j] \in DOMAIN table
        BY <1>2, <1>3, ElementOfSeq
    <2>3. table[s[i]] <= v /\ v < table[s[Limit + 1]]
        <3>1. i = Limit \/ i < Limit
            BY <1>1
        <3>2. Limit < Limit + 1
            BY <1>1
        <3>3. \A j, k \in 1 .. Len(s) : j < k => table[s[j]] < table[s[k]]
            BY DEF Listed
        <3>4. v < table[s[Limit + 1]]
            BY <2>1, <3>2, <3>3
        <3>5. CASE i = Limit
            BY <1>4, <2>1, <2>2, <3>4, <3>5
        <3>6. CASE i < Limit
            BY <1>4, <2>1, <2>2, <3>3, <3>4, <3>6
        <3> QED
            BY <3>1, <3>5, <3>6
    <2>4. R = A \ B
        <3>1. ASSUME NEW k \in R PROVE k \in A /\ k \notin B
            <4>1. k \in DOMAIN table /\ table[k] <= v /\ table[k] >= table[s[i]]
                BY DEF UpTo
            <4>2. s[i] \in After(c)
                BY <2>1, <2>2
            <4>3. k \in After(c)
                BY <1>4, <2>1, <2>2, <4>1, <4>2, PaginationAssumption DEF After
            <4> QED
                BY <1>4, <2>1, <2>2, <2>3, <4>1, <4>3
        <3>2. ASSUME NEW k \in A, k \notin B PROVE k \in R
            <4>1. k \in After(c) /\ k \in DOMAIN table /\ table[k] >= table[s[i]]
                BY <1>3
            <4>2. table[k] < table[s[Limit + 1]]
                BY <1>4, <2>1, <2>2, <3>2, <4>1
            <4>3. PICK j \in 1 .. Len(s) : s[j] = k
                BY <4>1 DEF Listed
            <4>4. j <= Limit
                <5> SUFFICES ASSUME ~ (j <= Limit) PROVE FALSE
                    OBVIOUS
                <5>1. j = Limit + 1 \/ Limit + 1 < j
                    BY <1>1
                <5>2. table[s[Limit + 1]] <= table[s[j]]
                    BY <1>4, <2>1, <2>2, <5>1 DEF Listed
                <5> QED
                    BY <1>4, <2>1, <2>2, <4>1, <4>2, <4>3, <5>2
            <4>5. table[s[j]] <= table[s[Limit]]
                BY <1>1, <1>4, <2>1, <2>2, <4>4 DEF Listed
            <4> QED
                BY <4>1, <4>3, <4>5 DEF UpTo
        <3> QED
            BY <3>1, <3>2
    <2>5. /\ Cardinality(A) = Len(s) - i + 1
          /\ Cardinality(B) = Len(s) - (Limit + 1) + 1
        <3>1. Cardinality(A) = Len(s) - i + 1
            BY <1>3, <2>1, RankFromTheEnd
        <3> DEFINE l == Limit + 1
        <3>2. l \in 1 .. Len(s)
            BY <2>1
        <3> HIDE DEF l
        <3>3. Cardinality({k \in After(c) : table[k] >= table[s[l]]}) = Len(s) - l + 1
            BY <1>3, <3>2, RankFromTheEnd
        <3> QED
            BY <3>1, <3>3 DEF l
    <2>6. B \subseteq A
        BY <1>3, <1>4, <2>1, <2>2, <2>3
    <2>7. IsFiniteSet(A)
        BY <1>3, FS_Subset DEF TableOK
    <2>8. Cardinality(A \ B) = Cardinality(A) - Cardinality(B)
        <3>1. A \cap B = B
            BY <2>6
        <3> QED
            BY <2>7, <3>1, FS_Difference
    <2>9. s[i] \in UpTo(v)
        BY <2>1, <2>2, <2>3 DEF UpTo
    <2>10. Cardinality(R) = (Len(s) - i + 1) - (Len(s) - (Limit + 1) + 1)
        BY <2>4, <2>5, <2>8
    <2>11. (Len(s) - i + 1) - (Len(s) - (Limit + 1) + 1) = Limit - i + 1
        BY <1>1, <1>2
    <2> QED
        BY <2>9, <2>10, <2>11
<1>7. ASSUME NEW i \in 1 .. Limit
      PROVE  Len(t) - Limit + i \in 1 .. Len(t) /\ t[Len(t) - Limit + i] = s[i]
    <2>1. PICK j \in 1 .. Len(t) : t[j] = s[i]
        BY <1>6 DEF Listed
    <2>2. Cardinality({k \in UpTo(v) : table[k] >= table[t[j]]}) = Len(t) - j + 1
        BY <1>3, RankFromTheEnd
    <2>3. Cardinality({k \in UpTo(v) : table[k] >= table[s[i]]}) = Limit - i + 1
        BY <1>6
    <2>4. Len(t) - j + 1 = Limit - i + 1
        BY <2>1, <2>2, <2>3
    <2>5. j = Len(t) - Limit + i
        BY <1>1, <1>2, <2>4
    <2> QED
        BY <2>1, <2>5
<1>8. Limit <= Len(t)
    <2>1. 1 \in 1 .. Limit
        BY <1>1
    <2>2. Len(t) - Limit + 1 \in 1 .. Len(t)
        BY <1>7, <2>1
    <2> QED
        BY <1>1, <1>2, <2>2
<1>9. /\ LastPageOf(t) \in Seq(UpTo(v)) /\ Len(LastPageOf(t)) = Limit
      /\ \A i \in 1 .. Limit : LastPageOf(t)[i] = t[Len(t) - Limit + i]
    <2>1. /\ LastPageOf(t) \in Seq(UpTo(v))
          /\ Len(LastPageOf(t)) = IF Limit < Len(t) THEN Limit ELSE Len(t)
          /\ \A i \in 1 .. Len(LastPageOf(t)) :
               LastPageOf(t)[i] = t[Len(t) - Len(LastPageOf(t)) + i]
        BY <1>2, LastPageProperties
    <2>2. Len(LastPageOf(t)) = Limit
        BY <1>1, <1>2, <1>8, <2>1
    <2> QED
        BY <2>1, <2>2
<1>10. page1 \in Seq(DOMAIN table) /\ LastPageOf(t) \in Seq(DOMAIN table)
    BY <1>3, <1>5, <1>9, SeqMonotonic
<1> QED
    BY <1>5, <1>7, <1>9, <1>10, SeqEqual

-----------------------------------------------------------------------------
(* The pages *)

PageOK(p) ==
    /\ p.items \in Seq(RowIds)
    /\ p.hasNext \in BOOLEAN
    /\ p.next \in OrderValues \cup {NULL}
    /\ p.prev \in OrderValues \cup {NULL}

Preceding(c) == {id \in DOMAIN table : c = NULL \/ table[id] < c}

\* What paginate_cursor(direction="after") answers.
LEMMA PageAfter ==
    ASSUME TableOK, Unique, NEW c, NEW p \in PagesAfter(c)
    PROVE  /\ PageOK(p)
           /\ \E s : /\ Listed(s, After(c))
                     /\ p.items = FirstOf(s, Limit)
                     /\ p.hasNext = (Len(s) > Limit)
                     /\ p.next = IF Len(s) > Limit THEN table[s[Limit]] ELSE NULL
                     /\ p.prev = IF s # <<>> /\ c # NULL THEN table[s[1]] ELSE NULL
<1>1. PICK s \in Ascending(After(c)) :
        p = LET items == FirstOf(s, Limit)
                hasNext == Len(s) > Limit
            IN [items |-> items, hasNext |-> hasNext,
                next |-> IF hasNext THEN table[Last(items)] ELSE NULL,
                prev |-> IF items # <<>> /\ c # NULL THEN table[items[1]] ELSE NULL]
    BY DEF PagesAfter
<1>2. Listed(s, After(c)) /\ After(c) \subseteq DOMAIN table
    BY AscendingIsListed DEF After
<1>3. /\ s \in Seq(After(c)) /\ Len(s) \in Nat /\ Limit \in Nat \ {0}
      /\ \A i \in 1 .. Len(s) : s[i] \in DOMAIN table /\ table[s[i]] \in OrderValues
    <2>1. s \in Seq(After(c)) /\ Len(s) \in Nat /\ \A i \in 1 .. Len(s) : s[i] \in After(c)
        BY <1>2, LenProperties, ElementOfSeq DEF Listed
    <2> QED
        BY <1>2, <2>1, PaginationAssumption DEF TableOK
<1> DEFINE items == FirstOf(s, Limit)
<1>4. /\ items \in Seq(After(c))
      /\ Len(items) = IF Limit < Len(s) THEN Limit ELSE Len(s)
      /\ \A i \in 1 .. Len(items) : items[i] = s[i]
    BY <1>3, FirstOfProperties
<1>5. items # <<>> <=> s # <<>>
    <2>1. items # <<>> <=> Len(items) # 0
        BY <1>4, EmptySeq
    <2>2. s # <<>> <=> Len(s) # 0
        BY <1>3, EmptySeq
    <2> QED
        BY <1>3, <1>4, <2>1, <2>2
<1>6. Len(s) > Limit => Last(items) = s[Limit]
    BY <1>3, <1>4 DEF Last
<1>7. s # <<>> => items[1] = s[1] /\ 1 \in 1 .. Len(s)
    <2>1. s # <<>> => Len(s) # 0
        BY <1>3, EmptySeq
    <2> QED
        BY <1>3, <1>4, <2>1
<1>8. /\ p.items = items /\ p.hasNext = (Len(s) > Limit)
      /\ p.next = IF Len(s) > Limit THEN table[s[Limit]] ELSE NULL
      /\ p.prev = IF s # <<>> /\ c # NULL THEN table[s[1]] ELSE NULL
    BY <1>1, <1>5, <1>6, <1>7
<1>9. items \in Seq(RowIds)
    BY <1>2, <1>4, SeqMonotonic DEF TableOK
<1>10. Len(s) > Limit => table[s[Limit]] \in OrderValues
    BY <1>3
<1>11. s # <<>> => table[s[1]] \in OrderValues
    BY <1>3, <1>7
<1>12. PageOK(p)
    BY <1>8, <1>9, <1>10, <1>11 DEF PageOK
<1> QED
    BY <1>2, <1>8, <1>12

\* What paginate_cursor(direction="before") answers.
LEMMA PageBefore ==
    ASSUME TableOK, Unique, NEW c, NEW p \in PagesBefore(c)
    PROVE  /\ PageOK(p)
           /\ \E s : /\ Listed(s, Preceding(c))
                     /\ p.items = LastPageOf(s)
                     /\ p.next = IF s # <<>> /\ c # NULL THEN table[s[Len(s)]] ELSE NULL
<1>1. PICK s \in Ascending(Preceding(c)) :
        p = LET items == Reverse(FirstOf(Reverse(s), Limit))
                hasNext == c # NULL
            IN [items |-> items, hasNext |-> hasNext,
                next |-> IF items # <<>> /\ hasNext THEN table[Last(items)] ELSE NULL,
                prev |-> IF Len(s) > Limit THEN table[items[1]] ELSE NULL]
    BY DEF PagesBefore, Preceding
<1>2. Listed(s, Preceding(c)) /\ Preceding(c) \subseteq DOMAIN table
    BY AscendingIsListed DEF Preceding
<1>3. /\ s \in Seq(Preceding(c)) /\ Len(s) \in Nat /\ Limit \in Nat \ {0}
      /\ \A i \in 1 .. Len(s) : s[i] \in DOMAIN table /\ table[s[i]] \in OrderValues
    <2>1. s \in Seq(Preceding(c)) /\ Len(s) \in Nat
          /\ \A i \in 1 .. Len(s) : s[i] \in Preceding(c)
        BY <1>2, LenProperties, ElementOfSeq DEF Listed
    <2> QED
        BY <1>2, <2>1, PaginationAssumption DEF TableOK
<1> DEFINE items == LastPageOf(s)
<1>4. /\ items \in Seq(Preceding(c))
      /\ Len(items) = IF Limit < Len(s) THEN Limit ELSE Len(s)
      /\ \A i \in 1 .. Len(items) : items[i] = s[Len(s) - Len(items) + i]
    BY <1>3, LastPageProperties
<1>5. items # <<>> <=> s # <<>>
    <2>1. items # <<>> <=> Len(items) # 0
        BY <1>4, EmptySeq
    <2>2. s # <<>> <=> Len(s) # 0
        BY <1>3, EmptySeq
    <2> QED
        BY <1>3, <1>4, <2>1, <2>2
<1>6. s # <<>> => Last(items) = s[Len(s)] /\ Len(s) \in 1 .. Len(s)
    <2>1. s # <<>> => Len(s) # 0
        BY <1>3, EmptySeq
    <2>2. s # <<>> => Len(items) \in 1 .. Len(items)
                      /\ Len(s) - Len(items) + Len(items) = Len(s)
        BY <1>3, <1>4, <2>1
    <2>3. s # <<>> => items[Len(items)] = s[Len(s) - Len(items) + Len(items)]
        BY <1>4, <2>2
    <2>4. Last(items) = items[Len(items)]
        BY DEF Last
    <2>5. s # <<>> => Len(s) \in 1 .. Len(s)
        BY <1>3, <2>1
    <2> QED
        BY <2>2, <2>3, <2>4, <2>5
<1>7. /\ p.items = items /\ p.hasNext = (c # NULL)
      /\ p.next = IF s # <<>> /\ c # NULL THEN table[s[Len(s)]] ELSE NULL
      /\ p.prev = IF Len(s) > Limit THEN table[items[1]] ELSE NULL
    BY <1>1, <1>5, <1>6 DEF LastPageOf
<1>8. items \in Seq(RowIds)
    BY <1>2, <1>4, SeqMonotonic DEF TableOK
<1>9. Len(s) > Limit => table[items[1]] \in OrderValues
    <2>1. Len(s) > Limit => 1 \in 1 .. Len(items) /\ Len(s) - Len(items) + 1 \in 1 .. Len(s)
        BY <1>3, <1>4
    <2> QED
        BY <1>3, <1>4, <2>1
<1>10. s # <<>> => table[s[Len(s)]] \in OrderValues
    BY <1>3, <1>6
<1>11. PageOK(p)
    BY <1>7, <1>8, <1>9, <1>10 DEF PageOK
<1> QED
    BY <1>2, <1>7, <1>11

\* What paginate_offset() answers.
LEMMA PageByNumber ==
    ASSUME TableOK, Unique, NEW n \in Nat \ {0}, NEW p \in PageNumber(n)
    PROVE  /\ PageOK(p)
           /\ \E s : /\ Listed(s, DOMAIN table)
                     /\ p.items = FirstOf(SubSeq(s, (n - 1) * Limit + 1, Len(s)), Limit)
                     /\ p.hasNext = (n * Limit < Len(s))
<1>1. PICK s \in Ascending(DOMAIN table) :
        p = LET from == (n - 1) * Limit
            IN [items |-> FirstOf(SubSeq(s, from + 1, Len(s)), Limit),
                hasNext |-> n * Limit < Cardinality(DOMAIN table),
                next |-> NULL, prev |-> NULL]
    BY DEF PageNumber
<1>2. Listed(s, DOMAIN table)
    BY AscendingIsListed
<1>3. /\ s \in Seq(DOMAIN table) /\ Len(s) = Cardinality(DOMAIN table)
      /\ Len(s) \in Nat /\ Limit \in Nat \ {0}
    BY <1>2, LenProperties, PaginationAssumption DEF Listed
<1> DEFINE m == (n - 1) * Limit
<1>4. m \in Nat
    BY <1>3
<1> HIDE DEF m
<1>5. \A i \in m + 1 .. Len(s) : s[i] \in DOMAIN table
    <2>1. \A i \in m + 1 .. Len(s) : i \in 1 .. Len(s)
        BY <1>3, <1>4
    <2> QED
        BY <1>3, <2>1, ElementOfSeq
<1>6. SubSeq(s, m + 1, Len(s)) \in Seq(DOMAIN table)
    BY <1>3, <1>4, <1>5, SubSeqProperties
<1>7. FirstOf(SubSeq(s, m + 1, Len(s)), Limit) \in Seq(RowIds)
    <2>1. FirstOf(SubSeq(s, m + 1, Len(s)), Limit) \in Seq(DOMAIN table)
        BY <1>3, <1>6, FirstOfProperties
    <2> QED
        BY <2>1, SeqMonotonic DEF TableOK
<1>8. /\ p.items = FirstOf(SubSeq(s, m + 1, Len(s)), Limit)
      /\ p.hasNext = (n * Limit < Len(s)) /\ p.next = NULL /\ p.prev = NULL
    BY <1>1, <1>3 DEF m
<1>9. PageOK(p)
    BY <1>7, <1>8 DEF PageOK
<1> QED
    BY <1>2, <1>8, <1>9 DEF m

-----------------------------------------------------------------------------
(* The inductive invariant, for a unique ordering column *)

PagesTypeOK ==
    /\ TableOK
    /\ page # NULL => PageOK(page)
    /\ number \in (Nat \ {0}) \cup {NULL}
    /\ walk \in Seq(RowIds)
    /\ stable \subseteq DOMAIN table
    /\ quiet \in BOOLEAN
    /\ writes \in Nat

Given(id) == \E i \in 1 .. Len(walk) : walk[i] = id
GivenOnce(id) ==
    \A i, j \in 1 .. Len(walk) : walk[i] = id /\ walk[j] = id => i = j

(* Of the rows that stayed, a walk by cursor has given those up to the     *)
(* cursor of its next page, and each of them once.                         *)
WalkInv ==
    page # NULL /\ number = NULL =>
        \A id \in stable :
            /\ GivenOnce(id)
            /\ page.hasNext <=> page.next # NULL
            /\ page.next # NULL => (Given(id) <=> table[id] <= page.next)
            /\ page.next = NULL => Given(id)

(* A walk by number has given the first rows of the list, as long as the   *)
(* list is the one it began with.                                          *)
NumberInv ==
    page # NULL /\ number # NULL /\ writes = 0 =>
        \E s : /\ Listed(s, DOMAIN table)
               /\ walk = FirstOf(s, number * Limit)
               /\ page.hasNext = (number * Limit < Len(s))

(* While nobody writes, the page in hand is the last page of the list up   *)
(* to its cursor, and the page before it the last one of the list below it. *)
BackInv ==
    page # NULL /\ number = NULL /\ quiet =>
        /\ page.next # NULL =>
             \A t : Listed(t, UpTo(page.next)) => page.items = LastPageOf(t)
        /\ before # NULL /\ page.prev # NULL =>
             \A t : Listed(t, Below(page.prev)) => before = LastPageOf(t)

PagesInv == PagesTypeOK /\ WalkInv /\ NumberInv /\ BackInv

LEMMA PagesInitInv == ASSUME Unique, PagesInit PROVE PagesInv
<1>1. TableOK
    BY PaginationAssumption DEF PagesInit, TableOK
<1> QED
    BY <1>1, EmptySeq DEF PagesInit, PagesInv, PagesTypeOK, WalkInv, NumberInv, BackInv

\* A step that only reads leaves the lists as they are.
LEMMA SameTable ==
    ASSUME UNCHANGED table
    PROVE  /\ TableOK => TableOK'
           /\ \A s, ids : Listed(s, ids)' <=> Listed(s, ids)
           /\ \A v : UpTo(v)' = UpTo(v) /\ Below(v)' = Below(v)
           /\ \A c : After(c)' = After(c)
<1>1. table' = table
    OBVIOUS
<1> QED
    BY <1>1 DEF TableOK, Listed, UpTo, Below, After

\* Walking on: the rows of the new page come behind those of the walk.
LEMMA GivenAfter ==
    ASSUME NEW items, items \in Seq(RowIds), walk \in Seq(RowIds),
           walk' = walk \o items, NEW id
    PROVE  /\ Given(id)' <=> Given(id) \/ \E i \in 1 .. Len(items) : items[i] = id
           /\ (/\ GivenOnce(id)
               /\ \A i, j \in 1 .. Len(items) : items[i] = id /\ items[j] = id => i = j
               /\ ~ (Given(id) /\ \E i \in 1 .. Len(items) : items[i] = id))
              => GivenOnce(id)'
<1> DEFINE m == Len(walk)
           n == Len(items)
<1>1. m \in Nat /\ n \in Nat /\ Len(walk') = m + n
      /\ \A i \in 1 .. m + n :
           walk'[i] = IF i <= m THEN walk[i] ELSE items[i - m]
    BY LenProperties, ConcatProperties
<1>2. ASSUME NEW i \in 1 .. m + n
      PROVE  \/ i \in 1 .. m /\ walk'[i] = walk[i]
             \/ i - m \in 1 .. n /\ walk'[i] = items[i - m] /\ ~ (i <= m)
    BY <1>1
<1>3. ASSUME NEW i \in 1 .. m PROVE i \in 1 .. m + n /\ walk'[i] = walk[i]
    BY <1>1
<1>4. ASSUME NEW i \in 1 .. n PROVE i + m \in 1 .. m + n /\ walk'[i + m] = items[i]
    BY <1>1
<1>5. Given(id)' <=> Given(id) \/ \E i \in 1 .. n : items[i] = id
    <2>1. ASSUME Given(id)' PROVE Given(id) \/ \E i \in 1 .. n : items[i] = id
        <3>1. PICK i \in 1 .. m + n : walk'[i] = id
            BY <1>1, <2>1 DEF Given
        <3> QED
            BY <1>2, <3>1 DEF Given
    <2>2. ASSUME Given(id) PROVE Given(id)'
        <3>1. PICK i \in 1 .. m : walk[i] = id
            BY <2>2 DEF Given
        <3>2. i \in 1 .. m + n /\ walk'[i] = id
            BY <1>3, <3>1
        <3> QED
            BY <1>1, <3>2 DEF Given
    <2>3. ASSUME NEW i \in 1 .. n, items[i] = id PROVE Given(id)'
        <3>1. i + m \in 1 .. m + n /\ walk'[i + m] = id
            BY <1>4, <2>3
        <3> QED
            BY <1>1, <3>1 DEF Given
    <2> QED
        BY <2>1, <2>2, <2>3
<1>6. ASSUME GivenOnce(id),
             \A i, j \in 1 .. n : items[i] = id /\ items[j] = id => i = j,
             ~ (Given(id) /\ \E i \in 1 .. n : items[i] = id),
             NEW i \in 1 .. m + n, NEW j \in 1 .. m + n,
             walk'[i] = id, walk'[j] = id
      PROVE  i = j
    <2>1. CASE i \in 1 .. m /\ walk[i] = id
        <3>1. ~ (j - m \in 1 .. n /\ items[j - m] = id)
            BY <1>6, <2>1 DEF Given
        <3>2. j \in 1 .. m /\ walk[j] = id
            BY <1>2, <1>6, <3>1
        <3> QED
            BY <1>6, <2>1, <3>2 DEF GivenOnce
    <2>2. CASE i - m \in 1 .. n /\ items[i - m] = id
        <3>1. ~ (j \in 1 .. m /\ walk[j] = id)
            BY <1>6, <2>2 DEF Given
        <3>2. j - m \in 1 .. n /\ items[j - m] = id
            BY <1>2, <1>6, <3>1
        <3>3. i - m = j - m
            BY <1>6, <2>2, <3>2
        <3> QED
            BY <1>1, <3>3
    <2> QED
        BY <1>2, <1>6, <2>1, <2>2
<1>7. (/\ GivenOnce(id)
       /\ \A i, j \in 1 .. n : items[i] = id /\ items[j] = id => i = j
       /\ ~ (Given(id) /\ \E i \in 1 .. n : items[i] = id))
      => GivenOnce(id)'
    BY <1>1, <1>6 DEF GivenOnce
<1> QED
    BY <1>5, <1>7

-----------------------------------------------------------------------------
(* The steps *)

\* A page after a cursor: which rows it gives, and what its own cursor says.
LEMMA RowsOfPageAfter ==
    ASSUME TableOK, Unique, NEW c \in OrderValues \cup {NULL}, NEW s,
           Listed(s, After(c))
    PROVE  LET items == FirstOf(s, Limit) IN
           /\ \A i, j \in 1 .. Len(items) : items[i] = items[j] => i = j
           /\ \A id \in DOMAIN table :
                (\E i \in 1 .. Len(items) : items[i] = id)
                   <=> /\ c = NULL \/ table[id] > c
                       /\ Len(s) > Limit => table[id] <= table[s[Limit]]
           /\ Len(s) > Limit => table[s[Limit]] \in OrderValues
                                /\ (c # NULL => table[s[Limit]] > c)
<1> DEFINE items == FirstOf(s, Limit)
<1>1. Limit \in Nat \ {0} /\ s \in Seq(After(c)) /\ Len(s) \in Nat
    BY LenProperties, PaginationAssumption DEF Listed
<1>2. \A i \in 1 .. Len(s) :
         /\ s[i] \in DOMAIN table /\ (c = NULL \/ table[s[i]] > c)
         /\ table[s[i]] \in OrderValues /\ table[s[i]] \in Int
    <2>1. \A i \in 1 .. Len(s) : s[i] \in After(c)
        BY <1>1, ElementOfSeq
    <2> QED
        BY <2>1, PaginationAssumption DEF After, TableOK
<1>3. \A i, j \in 1 .. Len(s) : i < j => table[s[i]] < table[s[j]]
    BY DEF Listed
<1>4. /\ Len(items) = IF Limit < Len(s) THEN Limit ELSE Len(s)
      /\ \A i \in 1 .. Len(items) : items[i] = s[i] /\ i \in 1 .. Len(s)
    BY <1>1, FirstOfProperties
<1>5. ASSUME NEW i \in 1 .. Len(items), NEW j \in 1 .. Len(items), items[i] = items[j]
      PROVE  i = j
    <2>1. i \in 1 .. Len(s) /\ j \in 1 .. Len(s) /\ s[i] = s[j]
        BY <1>4, <1>5
    <2>2. ~ (i < j) /\ ~ (j < i)
        BY <1>2, <1>3, <2>1
    <2> QED
        BY <1>1, <2>1, <2>2
<1>6. ASSUME NEW i \in 1 .. Len(items)
      PROVE  /\ c = NULL \/ table[items[i]] > c
             /\ Len(s) > Limit => table[items[i]] <= table[s[Limit]]
    <2>1. i \in 1 .. Len(s) /\ items[i] = s[i]
        BY <1>4
    <2>2. ASSUME Len(s) > Limit PROVE table[s[i]] <= table[s[Limit]]
        <3>1. Limit \in 1 .. Len(s) /\ (i < Limit \/ i = Limit)
            BY <1>1, <1>4, <2>2
        <3>2. CASE i = Limit
            BY <1>2, <3>1, <3>2
        <3>3. CASE i < Limit
            BY <1>2, <1>3, <2>1, <3>1, <3>3
        <3> QED
            BY <3>1, <3>2, <3>3
    <2> QED
        BY <1>2, <2>1, <2>2
<1>7. ASSUME NEW id \in DOMAIN table, c = NULL \/ table[id] > c,
             Len(s) > Limit => table[id] <= table[s[Limit]]
      PROVE  \E i \in 1 .. Len(items) : items[i] = id
    <2>1. id \in After(c)
        BY <1>7 DEF After
    <2>2. PICK i \in 1 .. Len(s) : s[i] = id
        BY <2>1 DEF Listed
    <2>3. CASE Len(s) > Limit
        <3>1. Limit \in 1 .. Len(s)
            BY <1>1, <2>3
        <3>2. ~ (Limit < i)
            BY <1>2, <1>3, <1>7, <2>2, <2>3, <3>1
        <3>3. i \in 1 .. Len(items)
            BY <1>1, <1>4, <2>3, <3>2
        <3> QED
            BY <1>4, <2>2, <3>3
    <2>4. CASE ~ (Len(s) > Limit)
        <3>1. i \in 1 .. Len(items)
            BY <1>1, <1>4, <2>4
        <3> QED
            BY <1>4, <2>2, <3>1
    <2> QED
        BY <2>3, <2>4
<1>8. ASSUME Len(s) > Limit
      PROVE  table[s[Limit]] \in OrderValues /\ (c # NULL => table[s[Limit]] > c)
    <2>1. Limit \in 1 .. Len(s)
        BY <1>1, <1>8
    <2> QED
        BY <1>2, <2>1
<1> QED
    BY <1>5, <1>6, <1>7, <1>8

\* A forward page leaves the list up to its cursor with it for a last page.
LEMMA PageAfterBack ==
    ASSUME TableOK, Unique, NEW c \in OrderValues \cup {NULL}, NEW p,
           NEW s, Listed(s, After(c)), p.items = FirstOf(s, Limit),
           p.next = IF Len(s) > Limit THEN table[s[Limit]] ELSE NULL,
           p.next # NULL, NEW t, Listed(t, UpTo(p.next))
    PROVE  p.items = LastPageOf(t)
<1>1. Len(s) > Limit /\ p.next = table[s[Limit]]
    OBVIOUS
<1>2. Len(s) \in Nat /\ Limit \in Nat
    BY LenProperties, PaginationAssumption DEF Listed
<1>3. Limit < Len(s)
    BY <1>1, <1>2
<1> QED
    BY <1>1, <1>3, ForwardsIsBackwards

LEMMA FirstPageStep == ASSUME Unique, PagesInv, FirstPage PROVE PagesInv'
<1>1. PICK p \in PagesAfter(NULL) : Begin(p, NULL)
    BY DEF FirstPage
<1>2. /\ page' = p /\ number' = NULL /\ walk' = p.items /\ stable' = DOMAIN table
      /\ before' = NULL /\ quiet' = TRUE /\ UNCHANGED <<table, writes>>
    BY <1>1 DEF Begin
<1>3. TableOK
    BY DEF PagesInv, PagesTypeOK
<1>4. PICK s : /\ PageOK(p) /\ Listed(s, After(NULL)) /\ p.items = FirstOf(s, Limit)
               /\ p.hasNext = (Len(s) > Limit)
               /\ p.next = IF Len(s) > Limit THEN table[s[Limit]] ELSE NULL
    BY <1>3, PageAfter
<1>5. PagesTypeOK'
    <2>1. p.items \in Seq(RowIds)
        BY <1>4 DEF PageOK
    <2> QED
        BY <1>2, <1>3, <1>4, <2>1, SameTable DEF PagesInv, PagesTypeOK
<1>6. WalkInv'
    <2> SUFFICES ASSUME NEW id \in DOMAIN table
                 PROVE  /\ GivenOnce(id)'
                        /\ p.hasNext <=> p.next # NULL
                        /\ p.next # NULL => (Given(id)' <=> table[id] <= p.next)
                        /\ p.next = NULL => Given(id)'
        BY <1>2 DEF WalkInv
    <2>1. /\ \A i, j \in 1 .. Len(p.items) : p.items[i] = p.items[j] => i = j
          /\ (\E i \in 1 .. Len(p.items) : p.items[i] = id)
                <=> (Len(s) > Limit => table[id] <= table[s[Limit]])
          /\ Len(s) > Limit => table[s[Limit]] \in OrderValues
        BY <1>3, <1>4, RowsOfPageAfter
    <2>2. GivenOnce(id)'
        BY <1>2, <2>1 DEF GivenOnce
    <2>3. Given(id)' <=> (Len(s) > Limit => table[id] <= table[s[Limit]])
        BY <1>2, <2>1 DEF Given
    <2>4. NULL \notin OrderValues
        BY PaginationAssumption
    <2> QED
        BY <1>4, <2>1, <2>2, <2>3, <2>4
<1>7. NumberInv'
    BY <1>2 DEF NumberInv
<1>8. BackInv'
    <2>1. p.next # NULL => \A t : Listed(t, UpTo(p.next)) => p.items = LastPageOf(t)
        BY <1>3, <1>4, PageAfterBack
    <2>2. (p.next # NULL => \A t : Listed(t, UpTo(p.next)) => p.items = LastPageOf(t))'
        BY <1>1, <1>2, <2>1, SameTable
    <2> QED
        BY <1>2, <2>2 DEF BackInv
<1> QED
    BY <1>5, <1>6, <1>7, <1>8 DEF PagesInv

LEMMA NextPageStep == ASSUME Unique, PagesInv, NextPage PROVE PagesInv'
<1> DEFINE c == page.next
<1>1. PICK p \in PagesAfter(c) : Advance(p, NULL)
    BY DEF NextPage
<1>2. /\ page' = p /\ number' = NULL /\ walk' = walk \o p.items
      /\ before' = (IF quiet THEN page.items ELSE NULL) /\ quiet' = TRUE
      /\ UNCHANGED <<table, stable, writes>>
    BY <1>1 DEF Advance
<1>3. TableOK /\ page # NULL /\ number = NULL /\ c # NULL /\ PageOK(page)
      /\ walk \in Seq(RowIds) /\ stable \subseteq DOMAIN table
    BY DEF NextPage, PagesInv, PagesTypeOK
<1>4. c \in OrderValues /\ c \in Int /\ NULL \notin OrderValues
    BY <1>3, PaginationAssumption DEF PageOK
<1>5. PICK s : /\ PageOK(p) /\ Listed(s, After(c)) /\ p.items = FirstOf(s, Limit)
               /\ p.hasNext = (Len(s) > Limit)
               /\ p.next = IF Len(s) > Limit THEN table[s[Limit]] ELSE NULL
               /\ p.prev = IF s # <<>> /\ c # NULL THEN table[s[1]] ELSE NULL
    BY <1>3, PageAfter
<1>6. PagesTypeOK'
    <2>1. p.items \in Seq(RowIds)
        BY <1>5 DEF PageOK
    <2>2. walk \o p.items \in Seq(RowIds)
        BY <1>3, <2>1, ConcatProperties
    <2> QED
        BY <1>2, <1>3, <1>5, <2>2, SameTable DEF PagesInv, PagesTypeOK
<1>7. WalkInv'
    <2> SUFFICES ASSUME NEW id \in stable
                 PROVE  /\ GivenOnce(id)'
                        /\ p.hasNext <=> p.next # NULL
                        /\ p.next # NULL => (Given(id)' <=> table[id] <= p.next)
                        /\ p.next = NULL => Given(id)'
        BY <1>2 DEF WalkInv
    <2> DEFINE here == \E i \in 1 .. Len(p.items) : p.items[i] = id
    <2>1. id \in DOMAIN table /\ table[id] \in Int
        BY <1>3, PaginationAssumption DEF TableOK
    <2>2. /\ \A i, j \in 1 .. Len(p.items) : p.items[i] = p.items[j] => i = j
          /\ here <=> /\ table[id] > c
                      /\ Len(s) > Limit => table[id] <= table[s[Limit]]
          /\ Len(s) > Limit => table[s[Limit]] \in OrderValues /\ table[s[Limit]] > c
        BY <1>3, <1>4, <1>5, <2>1, RowsOfPageAfter
    <2>3. GivenOnce(id) /\ (Given(id) <=> table[id] <= c)
        BY <1>3 DEF PagesInv, WalkInv
    <2>4. ~ (Given(id) /\ here)
        BY <1>4, <2>1, <2>2, <2>3
    <2>5. GivenOnce(id)' /\ (Given(id)' <=> Given(id) \/ here)
        <3>1. p.items \in Seq(RowIds) /\ walk \in Seq(RowIds) /\ walk' = walk \o p.items
            BY <1>2, <1>3, <1>5 DEF PageOK
        <3>2. \A i, j \in 1 .. Len(p.items) :
                 p.items[i] = id /\ p.items[j] = id => i = j
            BY <2>2
        <3> QED
            BY <2>3, <2>4, <3>1, <3>2, GivenAfter
    <2>6. CASE Len(s) > Limit
        <3>1. table[s[Limit]] \in Int
            BY <2>2, <2>6, PaginationAssumption
        <3>2. Given(id)' <=> table[id] <= table[s[Limit]]
            BY <1>4, <2>1, <2>2, <2>3, <2>5, <2>6, <3>1
        <3> QED
            BY <1>4, <1>5, <2>2, <2>5, <2>6, <3>2
    <2>7. CASE ~ (Len(s) > Limit)
        <3>1. Given(id)'
            BY <1>4, <2>1, <2>2, <2>3, <2>5, <2>7
        <3> QED
            BY <1>5, <2>5, <2>7, <3>1
    <2> QED
        BY <2>6, <2>7
<1>8. NumberInv'
    BY <1>2 DEF NumberInv
<1>9. BackInv'
    <2>1. p.next # NULL => \A t : Listed(t, UpTo(p.next)) => p.items = LastPageOf(t)
        BY <1>3, <1>4, <1>5, PageAfterBack
    <2>2. ASSUME quiet, p.prev # NULL, NEW t, Listed(t, Below(p.prev))
          PROVE  page.items = LastPageOf(t)
        <3>1. s # <<>> /\ p.prev = table[s[1]]
            BY <1>5, <2>2
        <3>2. /\ s \in Seq(After(c)) /\ Len(s) \in Nat
              /\ \A i \in 1 .. Len(s) : s[i] \in After(c)
            BY <1>5, LenProperties, ElementOfSeq DEF Listed
        <3>3. 1 \in 1 .. Len(s)
            BY <3>1, <3>2, EmptySeq
        <3>4. s[1] \in DOMAIN table /\ table[s[1]] > c
            BY <1>3, <3>2, <3>3 DEF After
        <3>5. \A k \in DOMAIN table : table[k] \in Int
            BY <1>3, PaginationAssumption DEF TableOK
        <3>6. ASSUME NEW k \in DOMAIN table
              PROVE  table[k] < table[s[1]] <=> table[k] <= c
            <4>1. ASSUME table[k] > c PROVE table[s[1]] <= table[k]
                <5>1. PICK i \in 1 .. Len(s) : s[i] = k
                    BY <1>5, <4>1 DEF Listed, After
                <5>2. i = 1 \/ 1 < i
                    BY <3>2
                <5> QED
                    BY <1>5, <3>3, <3>4, <3>5, <5>1, <5>2 DEF Listed
            <4> QED
                BY <1>4, <3>4, <3>5, <4>1
        <3>7. Below(p.prev) = UpTo(c)
            BY <3>1, <3>6 DEF Below, UpTo
        <3>8. Listed(t, UpTo(c))
            BY <2>2, <3>7
        <3> QED
            BY <1>3, <2>2, <3>8 DEF PagesInv, BackInv
    <2>3. /\ page'.next # NULL =>
               \A t : Listed(t, UpTo(p.next)) => page'.items = LastPageOf(t)
          /\ before' # NULL /\ page'.prev # NULL =>
               \A t : Listed(t, Below(p.prev)) => before' = LastPageOf(t)
        BY <1>2, <2>1, <2>2
    <2>4. \A t, ids : Listed(t, ids)' <=> Listed(t, ids)
        BY <1>2, SameTable
    <2>5. \A v : UpTo(v)' = UpTo(v) /\ Below(v)' = Below(v)
        BY <1>2, SameTable
    <2> QED
        BY <1>2, <2>3, <2>4, <2>5 DEF BackInv
<1> QED
    BY <1>6, <1>7, <1>8, <1>9 DEF PagesInv

\* The last page, and a page back: c is NULL or the cursor.
LEMMA BackwardsStep ==
    ASSUME Unique, PagesInv, NEW c \in OrderValues \cup {NULL},
           NEW p \in PagesBefore(c), Backwards(p)
    PROVE  PagesInv'
<1>1. /\ page' = p /\ number' = NULL /\ walk' = <<>> /\ stable' = {}
      /\ before' = NULL /\ quiet' = TRUE /\ UNCHANGED <<table, writes>>
    BY DEF Backwards
<1>2. TableOK
    BY DEF PagesInv, PagesTypeOK
<1>3. PICK s : /\ PageOK(p) /\ Listed(s, Preceding(c)) /\ p.items = LastPageOf(s)
               /\ p.next = IF s # <<>> /\ c # NULL THEN table[s[Len(s)]] ELSE NULL
    BY <1>2, PageBefore
<1>4. PagesTypeOK'
    BY <1>1, <1>2, <1>3, SameTable, EmptySeq DEF PagesInv, PagesTypeOK
<1>5. WalkInv'
    BY <1>1 DEF WalkInv
<1>6. NumberInv'
    BY <1>1 DEF NumberInv
<1>7. BackInv'
    <2>1. ASSUME p.next # NULL, NEW t, Listed(t, UpTo(p.next))
          PROVE  p.items = LastPageOf(t)
        <3>1. s # <<>> /\ c # NULL /\ p.next = table[s[Len(s)]]
            BY <1>3, <2>1
        <3>2. c \in Int /\ \A k \in DOMAIN table : table[k] \in Int
            BY <1>2, <3>1, PaginationAssumption DEF TableOK
        <3>3. /\ s \in Seq(Preceding(c)) /\ Len(s) \in Nat
              /\ \A i \in 1 .. Len(s) : s[i] \in Preceding(c)
            BY <1>3, LenProperties, ElementOfSeq DEF Listed
        <3>4. Len(s) \in 1 .. Len(s)
            BY <3>1, <3>3, EmptySeq
        <3>5. s[Len(s)] \in DOMAIN table /\ table[s[Len(s)]] < c
            BY <3>1, <3>3, <3>4 DEF Preceding
        <3>6. ASSUME NEW k \in DOMAIN table
              PROVE  table[k] < c <=> table[k] <= table[s[Len(s)]]
            <4>1. ASSUME table[k] < c PROVE table[k] <= table[s[Len(s)]]
                <5>1. PICK i \in 1 .. Len(s) : s[i] = k
                    BY <1>3, <4>1 DEF Listed, Preceding
                <5>2. i = Len(s) \/ i < Len(s)
                    BY <3>3
                <5> QED
                    BY <1>3, <3>2, <3>4, <3>5, <5>1, <5>2 DEF Listed
            <4> QED
                BY <3>2, <3>5, <4>1
        <3>7. Preceding(c) = UpTo(p.next)
            BY <3>1, <3>6 DEF Preceding, UpTo
        <3>8. UpTo(p.next) \subseteq DOMAIN table
            BY DEF UpTo
        <3>9. Listed(s, UpTo(p.next))
            BY <1>3, <3>7
        <3>10. s = t
            BY <1>2, <2>1, <3>8, <3>9, ListedOnce
        <3> QED
            BY <1>3, <3>10
    <2>2. /\ page'.next # NULL =>
               \A t : Listed(t, UpTo(p.next)) => page'.items = LastPageOf(t)
          /\ before' = NULL
        BY <1>1, <2>1
    <2>3. \A t, ids : Listed(t, ids)' <=> Listed(t, ids)
        BY <1>1, SameTable
    <2>4. \A v : UpTo(v)' = UpTo(v)
        BY <1>1, SameTable
    <2> QED
        BY <1>1, <2>2, <2>3, <2>4 DEF BackInv
<1> QED
    BY <1>4, <1>5, <1>6, <1>7 DEF PagesInv

\* The first n pages together: a list of m rows and the page behind them.
LEMMA PagesTogether ==
    ASSUME NEW S, NEW s \in Seq(S), NEW m \in Nat, m <= Len(s)
    PROVE  FirstOf(s, m) \o FirstOf(SubSeq(s, m + 1, Len(s)), Limit)
              = FirstOf(s, m + Limit)
<1> DEFINE rest == SubSeq(s, m + 1, Len(s))
           a == FirstOf(s, m)
           b == FirstOf(rest, Limit)
           c == FirstOf(s, m + Limit)
<1>1. Limit \in Nat /\ Len(s) \in Nat
    BY LenProperties, PaginationAssumption
<1>2. \A i \in 1 .. Len(s) : s[i] \in S
    BY ElementOfSeq
<1>3. /\ rest \in Seq(S) /\ Len(rest) = Len(s) - m
      /\ \A i \in 1 .. Len(s) - m : rest[i] = s[m + i]
    <2>1. /\ rest \in Seq(S) /\ Len(rest) = IF m + 1 <= Len(s) THEN Len(s) - (m + 1) + 1 ELSE 0
          /\ \A i \in 1 .. Len(s) - (m + 1) + 1 : rest[i] = s[m + 1 + i - 1]
        BY <1>1, <1>2, SubSeqProperties
    <2>2. ASSUME NEW i \in 1 .. Len(s) - m PROVE rest[i] = s[m + i]
        <3>1. i \in 1 .. Len(s) - (m + 1) + 1 /\ m + 1 + i - 1 = m + i
            BY <1>1
        <3> QED
            BY <2>1, <3>1
    <2> QED
        BY <1>1, <2>1, <2>2
<1>4. /\ a \in Seq(S) /\ Len(a) = m
      /\ \A i \in 1 .. m : a[i] = s[i]
    <2>1. /\ a \in Seq(S) /\ Len(a) = IF m < Len(s) THEN m ELSE Len(s)
          /\ \A i \in 1 .. Len(a) : a[i] = s[i]
        BY FirstOfProperties
    <2> QED
        BY <1>1, <2>1
<1>5. /\ b \in Seq(S) /\ Len(b) = IF Limit < Len(s) - m THEN Limit ELSE Len(s) - m
      /\ \A i \in 1 .. Len(b) : b[i] = rest[i]
    BY <1>1, <1>3, FirstOfProperties
<1>6. /\ c \in Seq(S) /\ Len(c) = IF m + Limit < Len(s) THEN m + Limit ELSE Len(s)
      /\ \A i \in 1 .. Len(c) : c[i] = s[i]
    <2>1. m + Limit \in Nat
        BY <1>1
    <2> QED
        BY <2>1, FirstOfProperties
<1>7. /\ a \o b \in Seq(S) /\ Len(a \o b) = m + Len(b)
      /\ \A i \in 1 .. m + Len(b) : (a \o b)[i] = IF i <= m THEN a[i] ELSE b[i - m]
    <2>1. a \in Seq(S) /\ b \in Seq(S) /\ Len(a) = m
        BY <1>4, <1>5
    <2> HIDE DEF a, b
    <2>2. /\ a \o b \in Seq(S) /\ Len(a \o b) = Len(a) + Len(b)
          /\ \A i \in 1 .. Len(a) + Len(b) :
               (a \o b)[i] = IF i <= Len(a) THEN a[i] ELSE b[i - Len(a)]
        BY <2>1, ConcatProperties
    <2> QED
        BY <2>1, <2>2
<1>8. Len(a \o b) = Len(c)
    BY <1>1, <1>5, <1>6, <1>7
<1>9. ASSUME NEW i \in 1 .. Len(c) PROVE (a \o b)[i] = c[i]
    <2>1. i \in 1 .. m + Len(b) /\ c[i] = s[i]
        BY <1>6, <1>7, <1>8
    <2>2. CASE i <= m
        BY <1>4, <1>7, <2>1, <2>2
    <2>3. CASE ~ (i <= m)
        <3>1. i - m \in 1 .. Len(b) /\ i - m \in 1 .. Len(s) - m /\ m + (i - m) = i
            BY <1>1, <1>5, <2>1, <2>3
        <3> QED
            BY <1>3, <1>5, <1>7, <2>1, <2>3, <3>1
    <2> QED
        BY <2>2, <2>3
<1> QED
    BY <1>6, <1>7, <1>8, <1>9, SeqEqual

LEMMA FirstNumberedStep == ASSUME Unique, PagesInv, FirstNumbered PROVE PagesInv'
<1>1. PICK p \in PageNumber(1) : Begin(p, 1)
    BY DEF FirstNumbered
<1>2. /\ page' = p /\ number' = 1 /\ walk' = p.items /\ stable' = DOMAIN table
      /\ before' = NULL /\ quiet' = TRUE /\ UNCHANGED <<table, writes>>
    BY <1>1 DEF Begin
<1>3. TableOK /\ 1 # NULL /\ Limit \in Nat
    BY PaginationAssumption DEF PagesInv, PagesTypeOK
<1>4. PICK s : /\ PageOK(p) /\ Listed(s, DOMAIN table)
               /\ p.items = FirstOf(SubSeq(s, (1 - 1) * Limit + 1, Len(s)), Limit)
               /\ p.hasNext = (1 * Limit < Len(s))
    BY <1>3, PageByNumber
<1>5. PagesTypeOK'
    <2>1. p.items \in Seq(RowIds)
        BY <1>4 DEF PageOK
    <2> QED
        BY <1>2, <1>3, <1>4, <2>1, SameTable DEF PagesInv, PagesTypeOK
<1>6. WalkInv' /\ BackInv'
    BY <1>2, <1>3 DEF WalkInv, BackInv
<1>7. NumberInv'
    <2>1. (1 - 1) * Limit + 1 = 1 /\ 1 * Limit = Limit
        BY <1>3
    <2>2. s \in Seq(DOMAIN table)
        BY <1>4 DEF Listed
    <2>3. SubSeq(s, 1, Len(s)) = s
        BY <2>2, SubSeqFull
    <2>4. p.items = FirstOf(s, 1 * Limit)
        BY <1>4, <2>1, <2>3
    <2>5. Listed(s, DOMAIN table)'
        BY <1>2, <1>4, SameTable
    <2> QED
        BY <1>2, <1>4, <2>4, <2>5 DEF NumberInv
<1> QED
    BY <1>5, <1>6, <1>7 DEF PagesInv

LEMMA NextNumberedStep == ASSUME Unique, PagesInv, NextNumbered PROVE PagesInv'
<1>1. PICK p \in PageNumber(number + 1) : Advance(p, number + 1)
    BY DEF NextNumbered
<1>2. /\ page' = p /\ number' = number + 1 /\ walk' = walk \o p.items
      /\ quiet' = TRUE /\ UNCHANGED <<table, stable, writes>>
    BY <1>1 DEF Advance
<1>3. /\ TableOK /\ page # NULL /\ page.hasNext /\ number # NULL /\ number \in Nat \ {0}
      /\ number + 1 \in Nat \ {0} /\ number + 1 # NULL /\ Limit \in Nat
      /\ walk \in Seq(RowIds)
    BY PaginationAssumption DEF NextNumbered, PagesInv, PagesTypeOK
<1>4. PICK s : /\ PageOK(p) /\ Listed(s, DOMAIN table)
               /\ p.items = FirstOf(SubSeq(s, (number + 1 - 1) * Limit + 1, Len(s)), Limit)
               /\ p.hasNext = ((number + 1) * Limit < Len(s))
    BY <1>3, PageByNumber
<1>5. PagesTypeOK'
    <2>1. p.items \in Seq(RowIds)
        BY <1>4 DEF PageOK
    <2>2. walk \o p.items \in Seq(RowIds)
        BY <1>3, <2>1, ConcatProperties
    <2> QED
        BY <1>2, <1>3, <1>4, <2>2, SameTable DEF PagesInv, PagesTypeOK
<1>6. WalkInv' /\ BackInv'
    BY <1>2, <1>3 DEF WalkInv, BackInv
<1>7. ASSUME writes = 0
      PROVE  walk' = FirstOf(s, (number + 1) * Limit)
    <2>1. PICK t : /\ Listed(t, DOMAIN table) /\ walk = FirstOf(t, number * Limit)
                   /\ page.hasNext = (number * Limit < Len(t))
        BY <1>3, <1>7 DEF PagesInv, NumberInv
    <2>2. t = s
        BY <1>3, <1>4, <2>1, ListedOnce
    <2> DEFINE m == number * Limit
    <2>3. m \in Nat /\ (number + 1) * Limit = m + Limit
          /\ (number + 1 - 1) * Limit + 1 = m + 1
        BY <1>3
    <2> HIDE DEF m
    <2>4. s \in Seq(DOMAIN table) /\ Len(s) \in Nat
        BY <1>4, LenProperties DEF Listed
    <2>5. m <= Len(s)
        <3>1. m < Len(s)
            BY <1>3, <2>1, <2>2 DEF m
        <3> QED
            BY <2>3, <2>4, <3>1
    <2>6. FirstOf(s, m) \o FirstOf(SubSeq(s, m + 1, Len(s)), Limit)
             = FirstOf(s, m + Limit)
        BY <2>3, <2>4, <2>5, PagesTogether
    <2>7. walk = FirstOf(s, m)
        BY <2>1, <2>2 DEF m
    <2> QED
        BY <1>2, <1>4, <2>3, <2>6, <2>7
<1>8. NumberInv'
    <2>1. Listed(s, DOMAIN table)'
        BY <1>2, <1>4, SameTable
    <2> QED
        BY <1>2, <1>4, <1>7, <2>1 DEF NumberInv
<1> QED
    BY <1>5, <1>6, <1>8 DEF PagesInv

\* Other sessions' writes keep what the walk knows of the rows that stay.
LEMMA WriteStep ==
    ASSUME Unique, PagesInv, NEW t, Write(t), TableOK',
           \A id \in DOMAIN table \cap DOMAIN t : t[id] = table[id]
    PROVE  PagesInv'
<1>1. /\ table' = t /\ writes' = writes + 1 /\ stable' = stable \cap DOMAIN t
      /\ quiet' = FALSE /\ UNCHANGED <<page, number, walk, before>>
    BY DEF Write
<1>2. PagesTypeOK'
    <2>1. PagesTypeOK
        BY DEF PagesInv
    <2>2. page' # NULL => PageOK(page')
        BY <1>1, <2>1 DEF PagesTypeOK
    <2>3. stable' \subseteq DOMAIN table'
        BY <1>1
    <2>4. writes' \in Nat
        BY <1>1, <2>1 DEF PagesTypeOK
    <2>5. quiet' \in BOOLEAN
        BY <1>1, Zenon
    <2>6. number' \in (Nat \ {0}) \cup {NULL} /\ walk' \in Seq(RowIds)
        BY <1>1, <2>1 DEF PagesTypeOK
    <2> QED
        BY <2>2, <2>3, <2>4, <2>5, <2>6 DEF PagesTypeOK, PageOK
<1>3. WalkInv'
    <2> SUFFICES ASSUME page # NULL, number = NULL, NEW id \in stable'
                 PROVE  /\ GivenOnce(id)'
                        /\ page.hasNext <=> page.next # NULL
                        /\ page.next # NULL => (Given(id)' <=> table'[id] <= page.next)
                        /\ page.next = NULL => Given(id)'
        BY <1>1 DEF WalkInv
    <2>1. id \in stable /\ table'[id] = table[id]
        BY <1>1 DEF PagesInv, PagesTypeOK
    <2>2. (GivenOnce(id)' <=> GivenOnce(id)) /\ (Given(id)' <=> Given(id))
        BY <1>1 DEF GivenOnce, Given
    <2> QED
        BY <2>1, <2>2 DEF PagesInv, WalkInv
<1>4. NumberInv'
    BY <1>1 DEF NumberInv, PagesInv, PagesTypeOK
<1>5. BackInv'
    BY <1>1 DEF BackInv
<1> QED
    BY <1>2, <1>3, <1>4, <1>5 DEF PagesInv

LEMMA InsertStep == ASSUME Unique, PagesInv, Insert PROVE PagesInv'
<1>1. PICK id \in RowIds \ DOMAIN table, v \in OrderValues :
         v \notin Range(table) /\ Write(WithRow(id, v))
    BY DEF Insert
<1> DEFINE t == WithRow(id, v)
<1>2. TableOK
    BY DEF PagesInv, PagesTypeOK
<1>3. /\ DOMAIN t = DOMAIN table \cup {id} /\ t[id] = v
      /\ \A k \in DOMAIN table : t[k] = table[k]
      /\ t \in [DOMAIN t -> OrderValues]
    <2>1. DOMAIN t = DOMAIN table \cup {id} /\ t[id] = v
        BY DEF WithRow
    <2>2. \A k \in DOMAIN table : t[k] = table[k]
        BY <1>1 DEF WithRow
    <2>3. \A k \in DOMAIN t : t[k] \in OrderValues
        BY <1>1, <1>2, <2>1, <2>2 DEF TableOK
    <2> QED
        BY <2>1, <2>2, <2>3 DEF WithRow
<1>4. IsFiniteSet(DOMAIN t)
    BY <1>2, <1>3, FS_AddElement DEF TableOK
<1>5. \A i, j \in DOMAIN t : t[i] = t[j] => i = j
    <2>1. \A k \in DOMAIN table : table[k] # v
        BY <1>1 DEF Range
    <2> QED
        BY <1>2, <1>3, <2>1 DEF TableOK
<1>6. table' = t
    BY <1>1 DEF Write
<1> HIDE DEF t
<1>7. TableOK'
    BY <1>1, <1>2, <1>3, <1>4, <1>5, <1>6 DEF TableOK
<1>8. Write(t)
    BY <1>1 DEF t
<1> QED
    BY <1>3, <1>7, <1>8, WriteStep

LEMMA DeleteStep == ASSUME Unique, PagesInv, Delete PROVE PagesInv'
<1>1. PICK id \in DOMAIN table : Write(Restrict(table, DOMAIN table \ {id}))
    BY DEF Delete
<1> DEFINE t == Restrict(table, DOMAIN table \ {id})
<1>2. TableOK
    BY DEF PagesInv, PagesTypeOK
<1>3. /\ DOMAIN t = DOMAIN table \ {id} /\ \A k \in DOMAIN t : t[k] = table[k]
      /\ t \in [DOMAIN t -> OrderValues]
    BY <1>2 DEF Restrict, TableOK
<1>4. IsFiniteSet(DOMAIN t)
    BY <1>2, <1>3, FS_Subset DEF TableOK
<1>5. table' = t
    BY <1>1 DEF Write
<1> HIDE DEF t
<1>6. TableOK'
    BY <1>2, <1>3, <1>4, <1>5 DEF TableOK
<1>7. Write(t)
    BY <1>1 DEF t
<1> QED
    BY <1>3, <1>6, <1>7, WriteStep

LEMMA StutterStep == ASSUME PagesInv, UNCHANGED pageVars PROVE PagesInv'
<1>1. /\ page' = page /\ number' = number /\ walk' = walk /\ stable' = stable
      /\ quiet' = quiet /\ before' = before /\ writes' = writes /\ table' = table
    BY DEF pageVars
<1>2. PagesTypeOK'
    BY <1>1, SameTable DEF PagesInv, PagesTypeOK
<1>3. WalkInv'
    BY <1>1 DEF PagesInv, WalkInv, Given, GivenOnce
<1>4. NumberInv'
    BY <1>1, SameTable DEF PagesInv, NumberInv
<1>5. BackInv'
    BY <1>1, SameTable DEF PagesInv, BackInv
<1> QED
    BY <1>2, <1>3, <1>4, <1>5 DEF PagesInv

LEMMA PagesStep == ASSUME Unique, PagesInv, [PagesNext]_pageVars PROVE PagesInv'
<1>1. ASSUME LastPage PROVE PagesInv'
    <2>1. PICK p \in PagesBefore(NULL) : Backwards(p)
        BY <1>1 DEF LastPage
    <2> QED
        BY <2>1, BackwardsStep
<1>2. ASSUME PreviousPage PROVE PagesInv'
    <2>1. PICK p \in PagesBefore(page.prev) : Backwards(p)
        BY <1>2 DEF PreviousPage
    <2>2. page.prev \in OrderValues \cup {NULL}
        BY <1>2 DEF PreviousPage, PagesInv, PagesTypeOK, PageOK
    <2> QED
        BY <2>1, <2>2, BackwardsStep
<1> QED
    BY <1>1, <1>2, FirstPageStep, NextPageStep, FirstNumberedStep, NextNumberedStep,
       InsertStep, DeleteStep, StutterStep DEF PagesNext

LEMMA PagesInvariance == ASSUME Unique PROVE PagesSpec => []PagesInv
BY PagesInitInv, PagesStep, PTL DEF PagesSpec

-----------------------------------------------------------------------------
(* The theorems *)

\* How often a row was given, by its places in the walk.
LEMMA TimesGiven ==
    ASSUME walk \in Seq(RowIds), NEW id, GivenOnce(id)
    PROVE  /\ Times(id) <= 1
           /\ Given(id) => Times(id) = 1
<1> DEFINE P == {i \in DOMAIN walk : walk[i] = id}
<1>1. DOMAIN walk = 1 .. Len(walk)
    BY LenProperties
<1>2. CASE Given(id)
    <2>1. PICK i \in 1 .. Len(walk) : walk[i] = id
        BY <1>2 DEF Given
    <2>2. P = {i}
        BY <1>1, <2>1 DEF GivenOnce
    <2>3. Cardinality(P) = 1
        BY <2>2, FS_Singleton
    <2> QED
        BY <2>3 DEF Times
<1>3. CASE ~ Given(id)
    <2>1. P = {}
        BY <1>1, <1>3 DEF Given
    <2>2. Cardinality(P) = 0
        BY <2>1, FS_EmptySet
    <2> QED
        BY <1>3, <2>2 DEF Times
<1> QED
    BY <1>2, <1>3

(* A client that follows the cursors of paginate_cursor() over a unique    *)
(* column is given every row that stays exactly once, for any list and     *)
(* page size, whatever others insert and delete between its pages.         *)
THEOREM WalksAreComplete == PagesSpec => []WalkIsComplete
<1>1. CASE Unique
    <2>1. PagesInv => WalkIsComplete
        <3> SUFFICES ASSUME PagesInv, page # NULL, number = NULL, NEW id \in stable
                     PROVE  Times(id) <= 1 /\ (~ page.hasNext => Times(id) = 1)
            BY DEF WalkIsComplete
        <3>1. GivenOnce(id) /\ (~ page.hasNext => Given(id)) /\ walk \in Seq(RowIds)
            BY DEF PagesInv, PagesTypeOK, WalkInv
        <3> QED
            BY <3>1, TimesGiven
    <2> QED
        BY <1>1, <2>1, PagesInvariance, PTL
<1>2. CASE ~ Unique
    <2>1. WalkIsComplete
        BY <1>2 DEF WalkIsComplete
    <2> QED
        BY <2>1, PTL
<1> QED
    BY <1>1, <1>2

(* A client that counts up the page numbers of paginate_offset() is given  *)
(* every row exactly once, for any list and page size, if nobody writes.   *)
THEOREM NumberedWalksAreComplete == PagesSpec => []NumberedWalkIsComplete
<1>1. CASE Unique
    <2>1. PagesInv => NumberedWalkIsComplete
        <3> SUFFICES ASSUME PagesInv, page # NULL, number # NULL, writes = 0,
                            ~ page.hasNext, NEW id \in stable
                     PROVE  Times(id) = 1
            BY DEF NumberedWalkIsComplete
        <3>1. /\ TableOK /\ walk \in Seq(RowIds) /\ id \in DOMAIN table
              /\ number \in Nat /\ Limit \in Nat
            BY PaginationAssumption DEF PagesInv, PagesTypeOK
        <3>2. PICK s : /\ Listed(s, DOMAIN table) /\ walk = FirstOf(s, number * Limit)
                       /\ page.hasNext = (number * Limit < Len(s))
            BY DEF PagesInv, NumberInv
        <3> DEFINE m == number * Limit
        <3>3. m \in Nat /\ ~ (m < Len(s))
            <4>1. m \in Nat
                BY <3>1
            <4>2. ~ (m < Len(s))
                BY Zenon, <3>2
            <4> QED
                BY <4>1, <4>2
        <3> HIDE DEF m
        <3>4. s \in Seq(DOMAIN table) /\ Len(s) \in Nat
            BY <3>2, LenProperties DEF Listed
        <3>5. walk = s
            <4>1. walk = SubSeq(s, 1, Len(s))
                BY <3>2, <3>3 DEF FirstOf, m
            <4> QED
                BY <3>4, <4>1, SubSeqFull
        <3>6. Given(id)
            BY <3>1, <3>2, <3>5 DEF Given, Listed
        <3>7. GivenOnce(id)
            <4> SUFFICES ASSUME NEW i \in 1 .. Len(s), NEW j \in 1 .. Len(s),
                                s[i] = id, s[j] = id
                         PROVE  i = j
                BY <3>5 DEF GivenOnce
            <4>1. table[id] \in Int
                BY <3>1, PaginationAssumption DEF TableOK
            <4>2. ~ (i < j) /\ ~ (j < i)
                BY <3>2, <4>1 DEF Listed
            <4> QED
                BY <3>4, <4>2
        <3> QED
            BY <3>1, <3>6, <3>7, TimesGiven
    <2> QED
        BY <1>1, <2>1, PagesInvariance, PTL
<1>2. CASE ~ Unique
    <2>1. NumberedWalkIsComplete
        BY <1>2 DEF NumberedWalkIsComplete
    <2> QED
        BY <2>1, PTL
<1> QED
    BY <1>1, <1>2

(* The previous cursor of a page leads back to the page the client came    *)
(* from, for any list and page size, if nothing was written in between.    *)
THEOREM BackLeadsBack == PagesSpec => BackIsWhereItCameFrom
<1>1. CASE Unique
    <2>1. ASSUME PagesInv, PreviousPage, before # NULL, quiet
          PROVE  page'.items = before
        <3>1. PICK p \in PagesBefore(page.prev) : Backwards(p)
            BY <2>1 DEF PreviousPage
        <3>2. TableOK /\ page # NULL /\ number = NULL /\ page.prev # NULL
            BY <2>1 DEF PreviousPage, PagesInv, PagesTypeOK
        <3>3. PICK s : Listed(s, Preceding(page.prev)) /\ p.items = LastPageOf(s)
            BY <1>1, <3>2, PageBefore
        <3>4. Preceding(page.prev) = Below(page.prev)
            BY <3>2 DEF Preceding, Below
        <3>5. before = LastPageOf(s)
            BY <2>1, <3>2, <3>3, <3>4 DEF PagesInv, BackInv
        <3>6. page' = p
            BY <3>1 DEF Backwards
        <3> QED
            BY <3>3, <3>5, <3>6
    <2>2. PagesInv /\ [PagesNext]_pageVars
            => [PreviousPage /\ before # NULL /\ quiet /\ Unique
                  => page'.items = before]_pageVars
        BY <2>1
    <2> QED
        BY <1>1, <2>2, PagesInvariance, PTL DEF PagesSpec, BackIsWhereItCameFrom
<1>2. CASE ~ Unique
    <2>1. [PreviousPage /\ before # NULL /\ quiet /\ Unique
             => page'.items = before]_pageVars
        BY <1>2
    <2> QED
        BY <2>1, PTL DEF BackIsWhereItCameFrom
<1> QED
    BY <1>1, <1>2
-----------------------------------------------------------------------------
(* Bulk operations *)

\* While an operation is open, either the transaction is aborted or the only
\* call that has failed is the one that fails before it sends a statement.
FailureInv ==
    /\ "failed" \in DOMAIN result
    /\ asked # Nothing => aborted \/ result.failed \subseteq {"update"}

\* A statement that goes well counts under a name other than "failed".
LEMMA SucceedsKeeps ==
    ASSUME FailureInv, NEW done, NEW t, NEW n, Succeeds(done, t, n), Call # "failed"
    PROVE  FailureInv' /\ saved' = saved
<1>1. /\ aborted' = aborted /\ asked' = asked /\ saved' = saved
      /\ result' = result \/ \E k : result' = [result EXCEPT ![Call] = k]
    BY DEF Succeeds
<1>2. DOMAIN result' = DOMAIN result /\ result'.failed = result.failed
    BY <1>1 DEF FailureInv
<1> QED
    BY <1>1, <1>2 DEF FailureInv

\* A call that raises aborts the transaction, or it is bulk_update().
LEMMA RaisesKeeps ==
    ASSUME FailureInv, NEW b, Raises(b), b \/ Call = "update"
    PROVE  FailureInv' /\ saved' = saved
<1>1. /\ aborted' = (aborted \/ b) /\ asked' = asked /\ saved' = saved
      /\ result' = [result EXCEPT !.failed = @ \cup {Call}]
    BY DEF Raises
<1>2. DOMAIN result' = DOMAIN result /\ result'.failed = result.failed \cup {Call}
    BY <1>1 DEF FailureInv
<1> QED
    BY <1>1, <1>2 DEF FailureInv

LEMMA BulkStep ==
    ASSUME FailureInv, [BulkNext]_bulkVars
    PROVE  /\ FailureInv'
           /\ asked' = Nothing /\ saved' # saved => result.failed \subseteq {"update"}
<1>1. CASE BulkOperation \/ BulkUpsert
    <2>1. result' = NoResult /\ saved' = saved
        BY <1>1 DEF BulkOperation, BulkUpsert, Start
    <2>2. DOMAIN result' = {"create", "update", "delete", "upsert", "failed"}
          /\ result'.failed = {}
        BY <2>1 DEF NoResult
    <2> QED
        BY <2>1, <2>2 DEF FailureInv
<1>2. CASE CreateBatch
    <2>1. Call = "create" /\ (Raises(TRUE) \/ \E t : Succeeds(Batch, t, Len(Batch)))
        BY <1>2 DEF CreateBatch
    <2> QED
        BY <2>1, SucceedsKeeps, RaisesKeeps
<1>3. CASE UpdateItem
    <2>1. /\ Call = "update"
          /\ \/ Raises(TRUE) \/ Raises(FALSE)
             \/ \E done, t, n : Succeeds(done, t, n)
        BY <1>3 DEF UpdateItem
    <2> QED
        BY <2>1, SucceedsKeeps, RaisesKeeps
<1>4. CASE DeleteBatch
    <2>1. Call = "delete" /\ (Raises(TRUE) \/ \E t, n : Succeeds(Batch, t, n))
        BY <1>4 DEF DeleteBatch
    <2> QED
        BY <2>1, SucceedsKeeps, RaisesKeeps
<1>5. CASE UpsertBatch
    <2>1. Call = "upsert" /\ (Raises(TRUE) \/ \E t : Succeeds(Batch, t, Len(Batch)))
        BY <1>5 DEF UpsertBatch
    <2> QED
        BY <2>1, SucceedsKeeps, RaisesKeeps
<1>6. CASE Commit
    BY <1>6 DEF Commit, FailureInv
<1>7. CASE Rollback
    BY <1>7 DEF Rollback, FailureInv
<1>8. CASE UNCHANGED bulkVars
    BY <1>8 DEF bulkVars, FailureInv
<1> QED
    BY <1>1, <1>2, <1>3, <1>4, <1>5, <1>6, <1>7, <1>8 DEF BulkNext

(* Whatever the calls of an operation, its items and its batches, a commit  *)
(* keeps nothing once a statement has failed: the call that raised leaves   *)
(* the transaction aborted, and no later call of the operation clears that. *)
THEOREM FailedOperationsLeaveNothing == BulkSpec => NothingOfAFailedOperation
<1>1. BulkInit => FailureInv
    BY DEF BulkInit, FailureInv, NoResult
<1>2. FailureInv /\ [BulkNext]_bulkVars => FailureInv'
    BY BulkStep
<1>3. FailureInv /\ [BulkNext]_bulkVars
        => [asked' = Nothing /\ saved' # saved
              => result.failed \subseteq {"update"}]_bulkVars
    BY BulkStep
<1> QED
    BY <1>1, <1>2, <1>3, PTL DEF BulkSpec, NothingOfAFailedOperation
-----------------------------------------------------------------------------
(* Bulk operations: what they have done *)

CallNames == {"create", "update", "delete", "upsert"}

\* The lists of an operation.
CallsOK(t) ==
    /\ DOMAIN t = CallNames
    /\ t.create \in Seq([id : Ids, code : Codes, value : Values])
    /\ t.update \in Seq([id : Ids, value : Values] \cup [value : Values])
    /\ t.delete \in Seq(Ids)
    /\ t.upsert \in Seq([code : Codes, value : Values])

\* The number of items a call has dealt with; what it has left are the others.
Done(op) == Len(asked[op]) - Len(todo[op])

LeftOver ==
    \A op \in CallNames :
        /\ Len(todo[op]) <= Len(asked[op])
        /\ \A i \in 1 .. Len(todo[op]) : todo[op][i] = asked[op][Done(op) + i]

\* bulk_create() is over before bulk_delete() begins, and has counted its items.
Created ==
    /\ \A i \in 1 .. Done("create") :
          asked.create[i].id \in DOMAIN rows \cup ToSet(asked.delete)
    /\ todo.create # <<>> => count = Done("create") /\ Done("delete") = 0
    /\ todo.create = <<>> => result.create = Len(asked.create)

Deleted == \A i \in 1 .. Done("delete") : asked.delete[i] \notin DOMAIN rows

\* Item k is the last of the first n with this code.
Latest(items, n, k, code) ==
    /\ k \in 1 .. n /\ items[k].code = code
    /\ \A j \in k + 1 .. n : items[j].code # code

ValuesOf(code) == {rows[id].value : id \in {k \in DOMAIN rows : rows[k].code = code}}

\* bulk_upsert() makes no other calls.
Upserted ==
    /\ asked.upsert # <<>> =>
          asked.create = <<>> /\ asked.update = <<>> /\ asked.delete = <<>>
    /\ \A i \in 1 .. Done("upsert") :
          \E k \in 1 .. Done("upsert") :
              Latest(asked.upsert, Done("upsert"), k, asked.upsert[i].code)
    /\ \A k \in 1 .. Done("upsert"), code \in Codes :
          Latest(asked.upsert, Done("upsert"), k, code)
              => ValuesOf(code) = {asked.upsert[k].value}

\* The sequence is past every key there is, so an upserted row replaces no other.
BulkInv ==
    /\ CallsOK(asked) /\ CallsOK(todo) /\ size \in Nat \ {0}
    /\ DOMAIN result = CallNames \cup {"failed"}
    /\ nextId \in Nat
    /\ \A id \in Ids \cup DOMAIN rows \cup DOMAIN saved : id \in Nat /\ id < nextId
    /\ asked = Nothing => ~ Running
    /\ asked # Nothing /\ result.failed = {} => LeftOver /\ Created /\ Deleted /\ Upserted

LEMMA CallIs ==
    /\ ~ Running => \A op \in CallNames : todo[op] = <<>>
    /\ Running => /\ Call \in CallNames /\ todo[Call] # <<>>
                  /\ Call # "create" => todo.create = <<>>
<1>1. Calls[1] = "create" /\ Calls[2] = "update" /\ Calls[3] = "delete" /\ Calls[4] = "upsert"
    BY DEF Calls
<1>2. CASE ~ Running
    BY <1>1, <1>2 DEF Running, Due, CallNames
<1>3. CASE Running
    <2> DEFINE First(i) == Due(i) /\ \A j \in 1 .. i - 1 : ~ Due(j)
               i == CHOOSE k \in 1 .. 4 : First(k)
    <2>1. \E k \in 1 .. 4 : First(k)
        <3>1. Due(1) \/ Due(2) \/ Due(3) \/ Due(4)
            BY <1>3 DEF Running
        <3>2. /\ 1 .. 1 - 1 = {} /\ 1 .. 2 - 1 = {1} /\ 1 .. 3 - 1 = {1, 2}
              /\ 1 .. 4 - 1 = {1, 2, 3} /\ 1 .. 4 = {1, 2, 3, 4}
            OBVIOUS
        <3> HIDE DEF First
        <3>3. /\ Due(1) => First(1)
              /\ ~ Due(1) /\ Due(2) => First(2)
              /\ ~ Due(1) /\ ~ Due(2) /\ Due(3) => First(3)
              /\ ~ Due(1) /\ ~ Due(2) /\ ~ Due(3) /\ Due(4) => First(4)
            BY <3>2 DEF First
        <3> QED
            BY <3>1, <3>2, <3>3
    <2>2. i \in 1 .. 4 /\ First(i)
        BY <2>1
    <2>3. Call = Calls[i]
        BY DEF Call
    <2>4. i # 1 => ~ Due(1)
        BY <2>2
    <2> HIDE DEF i
    <2> QED
        BY <1>1, <1>3, <2>2, <2>3, <2>4 DEF Due, CallNames
<1> QED
    BY <1>2, <1>3

\* The next batch of a call: not empty, and no longer than what is left.
LEMMA BatchIs ==
    ASSUME BulkInv, Running
    PROVE  \E n \in 1 .. Len(todo[Call]) :
              /\ n \in Nat \ {0} /\ Batch = SubSeq(todo[Call], 1, n)
              /\ Len(Batch) = n /\ DOMAIN Batch = 1 .. n
              /\ \A i \in 1 .. n : Batch[i] = todo[Call][i]
              /\ \A i \in 1 .. n : \A T : todo[Call] \in Seq(T) => Batch[i] \in T
<1> DEFINE n == Smaller(size, Len(todo[Call]))
<1>1. PICK T : todo[Call] \in Seq(T) /\ todo[Call] # <<>>
    BY CallIs DEF BulkInv, CallsOK, CallNames
<1>2. n \in 1 .. Len(todo[Call])
    BY <1>1 DEF BulkInv, Smaller
<1>3. Batch = SubSeq(todo[Call], 1, n)
    BY DEF Batch
<1> HIDE DEF n
<1>4. /\ Len(Batch) = n /\ Batch \in Seq(T)
      /\ \A i \in 1 .. n : Batch[i] = todo[Call][i]
    BY <1>1, <1>2, <1>3, SubSeqProperties
<1>5. \A i \in 1 .. n : \A U : todo[Call] \in Seq(U) => Batch[i] \in U
    BY <1>1, <1>2, <1>4
<1> QED
    BY <1>1, <1>2, <1>3, <1>4, <1>5

\* A statement that goes well moves its call on by n items.
Moved(c, n, now, affected) ==
    /\ asked' = asked /\ rows' = now
    /\ \A op \in CallNames \ {c} :
          todo'[op] = todo[op] /\ result'[op] = result[op] /\ Done(op)' = Done(op)
    /\ Done(c)' = Done(c) + n
    /\ todo'[c] = <<>> => n = Len(todo[c]) /\ result'[c] = count + affected
    /\ todo'[c] # <<>> => count' = count + affected

LEMMA StatementMoves ==
    ASSUME BulkInv, Running, asked # Nothing, NEW c, c = Call,
           NEW n \in 1 .. Len(todo[Call]), NEW done, done = SubSeq(todo[Call], 1, n),
           NEW now, NEW affected \in Nat, Succeeds(done, now, affected)
    PROVE  /\ Moved(c, n, now, affected)
           /\ CallsOK(todo') /\ size' = size /\ saved' = saved
           /\ DOMAIN result' = DOMAIN result /\ result'.failed = result.failed
           /\ LeftOver => LeftOver'
<1> DEFINE rest == SubSeq(todo[c], n + 1, Len(todo[c]))
<1>1. /\ c \in CallNames /\ todo[c] # <<>> /\ "failed" \notin CallNames
      /\ CallsOK(todo) /\ CallsOK(asked) /\ DOMAIN result = CallNames \cup {"failed"}
    BY CallIs DEF BulkInv, CallNames
<1>2. \A op \in CallNames : Len(todo[op]) \in Nat /\ Len(asked[op]) \in Nat
    BY <1>1 DEF CallsOK, CallNames
<1>3. \A T : todo[c] \in Seq(T) =>
          /\ rest \in Seq(T) /\ Len(rest) = Len(todo[c]) - n
          /\ \A i \in 1 .. Len(rest) : rest[i] = todo[c][n + i]
          /\ Len(done) = n
          /\ \A i \in 1 .. n : done[i] = todo[c][i]
    <2> SUFFICES ASSUME NEW T, todo[c] \in Seq(T)
                 PROVE  /\ rest \in Seq(T) /\ Len(rest) = Len(todo[c]) - n
                        /\ \A i \in 1 .. Len(rest) : rest[i] = todo[c][n + i]
                        /\ Len(done) = n
                        /\ \A i \in 1 .. n : done[i] = todo[c][i]
        OBVIOUS
    <2> QED
        BY SubSeqProperties
<1>4. PICK T : todo[c] \in Seq(T)
    BY <1>1 DEF CallsOK, CallNames
<1>5. Rest(done) = rest
    BY <1>3, <1>4 DEF Rest
<1>6. /\ todo' = [todo EXCEPT ![c] = rest] /\ asked' = asked
      /\ rows' = now /\ size' = size /\ saved' = saved
      /\ IF rest = <<>>
         THEN result' = [result EXCEPT ![c] = count + affected] /\ count' = 0
         ELSE count' = count + affected /\ result' = result
    BY <1>5 DEF Succeeds
<1> HIDE DEF rest
<1>7. /\ DOMAIN todo' = CallNames /\ todo'[c] = rest
      /\ \A op \in CallNames \ {c} : todo'[op] = todo[op]
    BY <1>1, <1>6 DEF CallsOK
<1>8. CallsOK(todo')
    BY <1>1, <1>3, <1>7 DEF CallsOK, CallNames
<1>9. /\ DOMAIN result' = DOMAIN result /\ result'.failed = result.failed
      /\ \A op \in CallNames \ {c} : result'[op] = result[op]
      /\ rest = <<>> => result'[c] = count + affected
    BY <1>1, <1>6
<1>10. /\ Done(c)' = Done(c) + n
       /\ \A op \in CallNames \ {c} : Done(op)' = Done(op)
    <2>1. Len(rest) = Len(todo[c]) - n /\ n \in Nat
        BY <1>2, <1>3, <1>4, <1>1
    <2>2. Done(c)' = Len(asked[c]) - Len(rest) /\ Done(c) = Len(asked[c]) - Len(todo[c])
        BY <1>6, <1>7 DEF Done
    <2>3. \A op \in CallNames \ {c} : Done(op)' = Done(op)
        BY <1>6, <1>7 DEF Done
    <2>4. Done(c)' = Done(c) + n
        BY <1>1, <1>2, <2>1, <2>2
    <2> QED
        BY <2>3, <2>4
<1>11. rest = <<>> => n = Len(todo[c])
    BY <1>1, <1>2, <1>3, <1>4
<1>12. ASSUME LeftOver PROVE LeftOver'
    <2>2. \A op \in CallNames \ {c} :
             /\ Len(todo'[op]) <= Len(asked'[op])
             /\ \A i \in 1 .. Len(todo'[op]) : todo'[op][i] = asked'[op][Done(op)' + i]
        BY <1>6, <1>7, <1>10, <1>12 DEF LeftOver
    <2>3. Len(todo'[c]) <= Len(asked'[c])
        BY <1>1, <1>2, <1>3, <1>4, <1>6, <1>7, <1>12 DEF LeftOver
    <2>4. \A i \in 1 .. Len(todo'[c]) : todo'[c][i] = asked'[c][Done(c)' + i]
        <3> SUFFICES ASSUME NEW i \in 1 .. Len(rest) PROVE rest[i] = asked[c][Done(c) + n + i]
            BY <1>6, <1>7, <1>10
        <3>1. n + i \in 1 .. Len(todo[c]) /\ Len(rest) \in Nat
            BY <1>1, <1>2, <1>3, <1>4
        <3>2. rest[i] = todo[c][n + i]
            BY <1>3, <1>4
        <3>3. todo[c][n + i] = asked[c][Done(c) + (n + i)]
            BY <1>1, <1>12, <3>1 DEF LeftOver
        <3>4. Done(c) \in Int
            BY <1>1, <1>2 DEF Done
        <3> QED
            BY <3>1, <3>2, <3>3, <3>4
    <2> QED
        BY <2>2, <2>3, <2>4 DEF LeftOver
<1> QED
    BY <1>6, <1>7, <1>8, <1>9, <1>10, <1>11, <1>12 DEF Moved

\* An image of an interval that is as large as the interval: no value comes twice.
LEMMA ImageIs ==
    ASSUME NEW n \in Nat, NEW f
    PROVE  LET image == {f[i] : i \in 1 .. n} IN
           /\ IsFiniteSet(image)
           /\ Cardinality(image) = n => \A i, j \in 1 .. n : f[i] = f[j] => i = j
<1> DEFINE image == {f[i] : i \in 1 .. n}
           g == [i \in 1 .. n |-> f[i]]
<1>1. g \in Surjection(1 .. n, image)
    BY DEF Surjection
<1>2. IsFiniteSet(1 .. n) /\ Cardinality(1 .. n) = n
    BY FS_Interval
<1> HIDE DEF g, image
<1>3. IsFiniteSet(image) /\ (Cardinality(image) = n => g \in Injection(1 .. n, image))
    BY <1>1, <1>2, FS_Surjection
<1>4. g \in Injection(1 .. n, image) => \A i, j \in 1 .. n : g[i] = g[j] => i = j
    BY DEF Injection, IsInjective
<1> QED
    BY <1>3, <1>4 DEF g, image

LEMMA Lengths ==
    ASSUME BulkInv, NEW op \in CallNames
    PROVE  /\ Len(todo[op]) \in Nat /\ Len(asked[op]) \in Nat /\ Done(op) \in Int
           /\ Done(op) + Len(todo[op]) = Len(asked[op])
           /\ todo[op] = <<>> <=> Len(todo[op]) = 0
           /\ asked[op] = <<>> <=> Len(asked[op]) = 0
           /\ LeftOver => Done(op) \in Nat /\ (todo[op] # <<>> => asked[op] # <<>>)
<1>1. \E T : todo[op] \in Seq(T) /\ \E U : asked[op] \in Seq(U)
    BY DEF BulkInv, CallsOK, CallNames
<1>2. /\ Len(todo[op]) \in Nat /\ Len(asked[op]) \in Nat
      /\ todo[op] = <<>> <=> Len(todo[op]) = 0
      /\ asked[op] = <<>> <=> Len(asked[op]) = 0
    BY <1>1
<1>3. Done(op) \in Int /\ Done(op) + Len(todo[op]) = Len(asked[op])
    BY <1>2 DEF Done
<1>4. ASSUME LeftOver PROVE Done(op) \in Nat /\ (todo[op] # <<>> => asked[op] # <<>>)
    <2>1. Len(todo[op]) <= Len(asked[op])
        BY <1>4 DEF LeftOver
    <2> QED
        BY <1>2, <2>1 DEF Done
<1> QED
    BY <1>2, <1>3, <1>4

\* A call that raises leaves lists and keys as they should be, and is recorded.
LEMMA RaisesInv ==
    ASSUME BulkInv, Running, NEW b, Raises(b), nextId' \in Nat, nextId <= nextId'
    PROVE  BulkInv'
<1>1. /\ Call \in CallNames /\ CallsOK(todo) /\ CallsOK(asked) /\ asked # Nothing
      /\ DOMAIN result = CallNames \cup {"failed"}
    BY CallIs DEF BulkInv
<1>2. /\ asked' = asked /\ size' = size /\ rows' = rows /\ saved' = saved
      /\ todo' = [todo EXCEPT ![Call] = <<>>]
      /\ result' = [result EXCEPT !.failed = @ \cup {Call}]
    BY DEF Raises
<1>3. CallsOK(todo')
    BY <1>1, <1>2 DEF CallsOK, CallNames
<1>4. DOMAIN result' = CallNames \cup {"failed"} /\ result'.failed # {}
    BY <1>1, <1>2
<1>5. \A id \in Ids \cup DOMAIN rows' \cup DOMAIN saved' : id \in Nat /\ id < nextId'
    BY <1>2 DEF BulkInv
<1> QED
    BY <1>1, <1>2, <1>3, <1>4, <1>5 DEF BulkInv

\* What is left to show of a statement that goes well.
LEMMA SucceedsInv ==
    ASSUME BulkInv, Running, NEW n \in 1 .. Len(todo[Call]),
           NEW now, NEW affected \in Nat, Succeeds(SubSeq(todo[Call], 1, n), now, affected),
           nextId' \in Nat, nextId <= nextId',
           \A id \in DOMAIN now : id \in Nat /\ id < nextId',
           LeftOver /\ Created /\ Deleted /\ Upserted => (Created /\ Deleted /\ Upserted)'
    PROVE  BulkInv'
<1>1. asked # Nothing
    BY DEF BulkInv
<1>2. PICK c : c = Call
    OBVIOUS
<1>3. /\ CallsOK(todo') /\ asked' = asked /\ size' = size /\ saved' = saved /\ rows' = now
      /\ DOMAIN result' = DOMAIN result /\ result'.failed = result.failed
      /\ LeftOver => LeftOver'
    BY <1>1, <1>2, StatementMoves DEF Moved
<1>4. \A id \in Ids \cup DOMAIN rows' \cup DOMAIN saved' : id \in Nat /\ id < nextId'
    BY <1>3 DEF BulkInv
<1>5. result.failed = {} => LeftOver /\ Created /\ Deleted /\ Upserted
    BY <1>1 DEF BulkInv
<1> QED
    BY <1>1, <1>3, <1>4, <1>5 DEF BulkInv

\* A call of bulk_operation() upserts nothing.
LEMMA NothingUpserted ==
    ASSUME BulkInv, LeftOver, Upserted, Running, NEW c, c = Call, c # "upsert",
           NEW n, NEW now, NEW affected, Moved(c, n, now, affected)
    PROVE  Upserted'
<1>1. Call \in CallNames /\ todo[Call] # <<>> /\ "upsert" \in CallNames
    BY CallIs DEF CallNames
<1>2. asked[Call] # <<>>
    BY <1>1, Lengths
<1>3. asked.upsert = <<>>
    BY <1>1, <1>2 DEF Upserted, CallNames
<1>4. Len(asked["upsert"]) = 0 /\ Len(todo["upsert"]) \in Nat
    BY <1>1, <1>3, Lengths
<1>5. Done("upsert") <= 0 /\ Done("upsert") \in Int
    BY <1>4 DEF Done
<1>6. Done("upsert")' = Done("upsert") /\ asked' = asked
    BY <1>1 DEF Moved
<1>7. 1 .. Done("upsert")' = {}
    BY <1>5, <1>6
<1> QED
    BY <1>3, <1>6, <1>7 DEF Upserted

LEMMA CreateBatchStep == ASSUME BulkInv, CreateBatch PROVE BulkInv'
<1>1. Running /\ Call = "create" /\ nextId' = nextId /\ nextId' \in Nat /\ nextId <= nextId'
    BY DEF CreateBatch, BulkInv
<1>2. PICK n \in 1 .. Len(todo[Call]) :
          /\ n \in Nat \ {0} /\ Batch = SubSeq(todo[Call], 1, n)
          /\ Len(Batch) = n /\ DOMAIN Batch = 1 .. n
          /\ \A i \in 1 .. n : Batch[i] = todo[Call][i]
          /\ \A i \in 1 .. n : \A T : todo[Call] \in Seq(T) => Batch[i] \in T
    BY <1>1, BatchIs
<1>3. \A i \in 1 .. n : Batch[i].id \in Ids
    <2>1. todo[Call] \in Seq([id : Ids, code : Codes, value : Values])
        BY <1>1 DEF BulkInv, CallsOK
    <2>2. \A i \in 1 .. n : Batch[i] \in [id : Ids, code : Codes, value : Values]
        BY <1>2, <2>1
    <2> QED
        BY <2>2
<1> DEFINE ids == {Batch[i].id : i \in DOMAIN Batch}
           inserted == [id \in ids |-> LET item == CHOOSE x \in ToSet(Batch) : x.id = id
                                       IN Row(item.code, item.value)]
           now == Over(inserted, rows)
<1>4. CASE Raises(TRUE)
    BY <1>1, <1>4, RaisesInv
<1>5. CASE Succeeds(Batch, now, Len(Batch))
    <2>1. DOMAIN now = ids \cup DOMAIN rows
        BY DEF Over
    <2> HIDE DEF now
    <2>2. \A i \in 1 .. n : Batch[i].id \in ids /\ Batch[i].id \in Ids
        BY <1>2, <1>3
    <2>3. ids \subseteq Ids
        BY <1>2, <1>3
    <2> HIDE DEF ids
    <2>4. \A id \in DOMAIN now : id \in Nat /\ id < nextId'
        BY <1>1, <2>1, <2>3 DEF BulkInv
    <2>5. ASSUME LeftOver, Created, Deleted, Upserted PROVE (Created /\ Deleted /\ Upserted)'
        <3>1. asked # Nothing /\ "create" \in CallNames /\ "delete" \in CallNames
            BY <1>1 DEF BulkInv, CallNames
        <3>2. Moved("create", n, now, n)
            BY <1>1, <1>2, <1>5, <3>1, StatementMoves
        <3>3. \A i \in 1 .. n : Batch[i] = asked.create[Done("create") + i]
            <4>1. \A i \in 1 .. n : Batch[i] = todo.create[i] /\ i \in 1 .. Len(todo.create)
                BY <1>1, <1>2
            <4> QED
                BY <2>5, <3>1, <4>1 DEF LeftOver
        <3>4. /\ Done("create") \in Nat /\ todo.create # <<>>
              /\ count = Done("create") /\ Done("delete") = 0
            BY <1>1, <2>5, <3>1, CallIs, Lengths DEF Created
        <3>5. ASSUME NEW i \in 1 .. Done("create")'
              PROVE  asked'.create[i].id \in DOMAIN rows' \cup ToSet(asked'.delete)
            <4>1. CASE i <= Done("create")
                BY <2>1, <2>5, <3>2, <3>4, <3>5, <4>1 DEF Created, Moved
            <4>2. CASE i > Done("create")
                <5>1. i - Done("create") \in 1 .. n /\ Done("create") + (i - Done("create")) = i
                    BY <1>2, <3>2, <3>4, <4>2 DEF Moved
                <5>2. Batch[i - Done("create")] = asked.create[i]
                    BY <3>3, <5>1
                <5> QED
                    BY <2>1, <2>2, <3>2, <5>1, <5>2 DEF Moved
            <4> QED
                BY <3>2, <3>4, <1>2, <4>1, <4>2 DEF Moved
        <3>6. todo'.create = <<>> => result'.create = Len(asked'.create)
            <4>1. Done("create") + Len(todo["create"]) = Len(asked["create"])
                BY <3>1, Lengths
            <4> QED
                BY <3>2, <3>4, <4>1 DEF Moved
        <3>7. todo'.create # <<>> => count' = Done("create")' /\ Done("delete")' = 0
            BY <1>2, <3>1, <3>2, <3>4 DEF Moved
        <3>8. Created'
            BY <3>5, <3>6, <3>7 DEF Created
        <3>9. Deleted'
            <4>1. 1 .. Done("delete")' = {}
                BY <3>1, <3>2, <3>4 DEF Moved
            <4> QED
                BY <4>1 DEF Deleted
        <3>10. Upserted'
            BY <1>1, <2>5, <3>2, NothingUpserted
        <3> QED
            BY <3>8, <3>9, <3>10
    <2> HIDE DEF now
    <2> QED
        BY <1>1, <1>2, <1>5, <2>4, <2>5, SucceedsInv
<1> QED
    BY <1>4, <1>5 DEF CreateBatch

LEMMA UpdateItemStep == ASSUME BulkInv, UpdateItem PROVE BulkInv'
<1> DEFINE item == Head(todo.update)
           hit == "id" \in DOMAIN item /\ item.id \in DOMAIN rows
           now == IF hit THEN [rows EXCEPT ![item.id].value = item.value] ELSE rows
           affected == IF hit THEN 1 ELSE 0
<1>1. /\ Running /\ Call = "update" /\ nextId' = nextId /\ nextId' \in Nat /\ nextId <= nextId'
      /\ todo.create = <<>> /\ asked # Nothing
      /\ "create" \in CallNames /\ "update" \in CallNames /\ "delete" \in CallNames
    BY CallIs DEF UpdateItem, BulkInv, CallNames
<1>2. 1 \in 1 .. Len(todo[Call]) /\ <<item>> = SubSeq(todo[Call], 1, 1)
    <2>1. PICK T : todo.update \in Seq(T)
        BY DEF BulkInv, CallsOK
    <2>2. todo.update # <<>>
        BY <1>1, CallIs
    <2>3. 1 \in 1 .. Len(todo.update) /\ item = todo.update[1]
        BY <2>1, <2>2
    <2>4. SubSeq(todo.update, 1, 1) = <<todo.update[1]>>
        <3> DEFINE one == SubSeq(todo.update, 1, 1)
                   two == <<todo.update[1]>>
        <3>1. one \in Seq(T) /\ Len(one) = 1 /\ one[1] = todo.update[1]
            BY <2>1, <2>3, SubSeqProperties
        <3>2. two \in Seq(T) /\ Len(two) = 1 /\ two[1] = todo.update[1]
            BY <2>1, <2>3
        <3> HIDE DEF one, two
        <3>3. one = two
            BY <3>1, <3>2, SeqEqual
        <3> QED
            BY <3>3 DEF one, two
    <2> QED
        BY <1>1, <2>3, <2>4
<1>3. DOMAIN now = DOMAIN rows /\ affected \in Nat
    OBVIOUS
<1>4. Raises(TRUE) \/ Raises(FALSE) \/ Succeeds(<<item>>, now, affected)
    BY DEF UpdateItem
<1> HIDE DEF now, affected, item
<1>5. CASE Raises(TRUE) \/ Raises(FALSE)
    BY <1>1, <1>5, RaisesInv
<1>6. CASE Succeeds(<<item>>, now, affected)
    <2>1. \A id \in DOMAIN now : id \in Nat /\ id < nextId'
        BY <1>1, <1>3 DEF BulkInv
    <2>2. ASSUME LeftOver, Created, Deleted, Upserted PROVE (Created /\ Deleted /\ Upserted)'
        <3>1. Moved("update", 1, now, affected)
            BY <1>1, <1>2, <1>3, <1>6, StatementMoves
        <3>2. Created'
            BY <1>1, <1>3, <2>2, <3>1 DEF Created, Moved
        <3>3. Deleted'
            BY <1>1, <1>3, <2>2, <3>1 DEF Deleted, Moved
        <3>4. Upserted'
            BY <1>1, <2>2, <3>1, NothingUpserted
        <3> QED
            BY <3>2, <3>3, <3>4
    <2>3. Succeeds(SubSeq(todo[Call], 1, 1), now, affected)
        BY <1>2, <1>6
    <2> QED
        BY <1>1, <1>2, <1>3, <2>1, <2>2, <2>3, SucceedsInv
<1> QED
    BY <1>4, <1>5, <1>6

LEMMA DeleteBatchStep == ASSUME BulkInv, DeleteBatch PROVE BulkInv'
<1>1. /\ Running /\ Call = "delete" /\ nextId' = nextId /\ nextId' \in Nat /\ nextId <= nextId'
      /\ todo.create = <<>> /\ asked # Nothing
      /\ "create" \in CallNames /\ "delete" \in CallNames
    BY CallIs DEF DeleteBatch, BulkInv, CallNames
<1>2. PICK n \in 1 .. Len(todo[Call]) :
          /\ n \in Nat \ {0} /\ Batch = SubSeq(todo[Call], 1, n)
          /\ Len(Batch) = n /\ DOMAIN Batch = 1 .. n
          /\ \A i \in 1 .. n : Batch[i] = todo[Call][i]
    BY <1>1, BatchIs
<1> DEFINE hit == ToSet(Batch) \cap DOMAIN rows
           now == Restrict(rows, DOMAIN rows \ hit)
<1>3. Raises(TRUE) \/ Succeeds(Batch, now, Cardinality(hit))
    BY DEF DeleteBatch
<1>4. Cardinality(hit) \in Nat
    <2>1. ToSet(Batch) = {Batch[i] : i \in 1 .. n}
        BY <1>2 DEF ToSet
    <2>2. IsFiniteSet({Batch[i] : i \in 1 .. n})
        BY <1>2, ImageIs
    <2>3. IsFiniteSet(ToSet(Batch))
        BY <2>1, <2>2
    <2> QED
        BY <2>3, FS_Subset, FS_CardinalityType
<1>5. DOMAIN now = DOMAIN rows \ ToSet(Batch)
    BY DEF Restrict
<1> HIDE DEF hit, now
<1>6. CASE Raises(TRUE)
    BY <1>1, <1>6, RaisesInv
<1>7. CASE Succeeds(Batch, now, Cardinality(hit))
    <2>1. \A id \in DOMAIN now : id \in Nat /\ id < nextId'
        BY <1>1, <1>5 DEF BulkInv
    <2>2. ASSUME LeftOver, Created, Deleted, Upserted PROVE (Created /\ Deleted /\ Upserted)'
        <3>1. Moved("delete", n, now, Cardinality(hit))
            BY <1>1, <1>2, <1>4, <1>7, StatementMoves
        <3>2. \A i \in 1 .. n : Batch[i] = asked.delete[Done("delete") + i]
            <4>1. \A i \in 1 .. n : Batch[i] = todo.delete[i] /\ i \in 1 .. Len(todo.delete)
                BY <1>1, <1>2
            <4> QED
                BY <1>1, <2>2, <4>1 DEF LeftOver
        <3>3. Done("delete") \in Nat /\ Done("delete") + n <= Len(asked.delete) /\ Len(asked.delete) \in Nat
            <4>1. /\ Len(todo["delete"]) \in Nat /\ Len(asked["delete"]) \in Nat
                  /\ Done("delete") \in Nat
                  /\ Done("delete") + Len(todo["delete"]) = Len(asked["delete"])
                BY <1>1, <2>2, Lengths
            <4>2. n \in 1 .. Len(todo["delete"])
                BY <1>1
            <4> QED
                BY <4>1, <4>2
        <3>4. ToSet(Batch) \subseteq ToSet(asked.delete)
            <4>1. DOMAIN asked.delete = 1 .. Len(asked.delete)
                BY DEF BulkInv, CallsOK
            <4>2. \A i \in 1 .. n : Done("delete") + i \in DOMAIN asked.delete
                BY <1>2, <3>3, <4>1
            <4> QED
                BY <1>2, <3>2, <4>2 DEF ToSet
        <3>5. Created'
            BY <1>1, <1>5, <2>2, <3>1, <3>4 DEF Created, Moved
        <3>6. ASSUME NEW i \in 1 .. Done("delete")' PROVE asked'.delete[i] \notin DOMAIN rows'
            <4>1. CASE i <= Done("delete")
                BY <1>5, <2>2, <3>1, <3>3, <3>6, <4>1 DEF Deleted, Moved
            <4>2. CASE i > Done("delete")
                <5>1. i - Done("delete") \in 1 .. n /\ Done("delete") + (i - Done("delete")) = i
                    BY <1>2, <3>1, <3>3, <4>2 DEF Moved
                <5>2. Batch[i - Done("delete")] = asked.delete[i]
                    BY <3>2, <5>1
                <5>3. asked.delete[i] \in ToSet(Batch)
                    BY <1>2, <5>1, <5>2 DEF ToSet
                <5> QED
                    BY <1>5, <3>1, <5>3 DEF Moved
            <4> QED
                BY <1>2, <3>1, <3>3, <4>1, <4>2 DEF Moved
        <3>7. Deleted'
            BY <3>6 DEF Deleted
        <3>8. Upserted'
            BY <1>1, <2>2, <3>1, NothingUpserted
        <3> QED
            BY <3>5, <3>7, <3>8
    <2>3. Succeeds(SubSeq(todo[Call], 1, n), now, Cardinality(hit))
        BY <1>2, <1>7
    <2> QED
        BY <1>1, <1>2, <1>4, <2>1, <2>2, <2>3, SucceedsInv
<1> QED
    BY <1>3, <1>6, <1>7

\* What a batch of upserts leaves in the table: the rows it writes have new keys.
CodesOf(batch, n) == {batch[i].code : i \in 1 .. n}
Kept(codes) == {id \in DOMAIN rows : rows[id].code \notin codes}
Written(batch, n) ==
    [id \in nextId..nextId + n - 1 |->
        Row(batch[id - nextId + 1].code, batch[id - nextId + 1].value)]

LEMMA UpsertedValues ==
    ASSUME NEW n \in Nat, NEW batch, DOMAIN batch = 1 .. n, nextId \in Nat,
           \A i, j \in 1 .. n : batch[i].code = batch[j].code => i = j,
           \A id \in DOMAIN rows : id \in Nat /\ id < nextId,
           NEW now, rows' = now,
           now = Over(Written(batch, n), Restrict(rows, Kept(CodesOf(batch, n))))
    PROVE  /\ \A id \in DOMAIN now : id \in Nat /\ id < nextId + n
           /\ \A b \in 1 .. n : ValuesOf(batch[b].code)' = {batch[b].value}
           /\ \A code : code \notin CodesOf(batch, n) => ValuesOf(code)' = ValuesOf(code)
<1> DEFINE new == nextId..nextId + n - 1
           codes == {batch[i].code : i \in 1 .. n}
           kept == Kept(codes)
           written == Written(batch, n)
<1>1. /\ DOMAIN now = new \cup kept
      /\ \A id \in new : now[id] = written[id]
      /\ \A id \in kept : id \notin new => now[id] = rows[id]
    BY DEF Over, Restrict, Written, CodesOf
<1>2. \A id \in kept : id \in DOMAIN rows /\ id \notin new
    BY DEF Kept
<1>3. /\ \A id \in new : /\ id - nextId + 1 \in 1 .. n
                         /\ now[id].code = batch[id - nextId + 1].code
                         /\ now[id].value = batch[id - nextId + 1].value
      /\ \A id \in kept : now[id] = rows[id]
    <2>1. ASSUME NEW id \in new
          PROVE  /\ id - nextId + 1 \in 1 .. n
                 /\ now[id].code = batch[id - nextId + 1].code
                 /\ now[id].value = batch[id - nextId + 1].value
        <3>1. id \in Nat /\ id - nextId + 1 \in 1 .. n
            OBVIOUS
        <3>2. now[id] = Row(batch[id - nextId + 1].code, batch[id - nextId + 1].value)
            BY <1>1 DEF Written
        <3> QED
            BY <3>1, <3>2 DEF Row
    <2> QED
        BY <1>1, <1>2, <2>1
<1>4. \A b \in 1 .. n : nextId + b - 1 \in new /\ (nextId + b - 1) - nextId + 1 = b
    OBVIOUS
<1>5. \A id \in DOMAIN now : id \in Nat /\ id < nextId + n
    BY <1>1, <1>2
<1>6. ASSUME NEW b \in 1 .. n PROVE ValuesOf(batch[b].code)' = {batch[b].value}
    <2>1. PICK key \in new : key - nextId + 1 = b
        BY <1>4
    <2>2. key \in DOMAIN now /\ now[key].code = batch[b].code /\ now[key].value = batch[b].value
        BY <1>1, <1>3, <2>1
    <2>3. ASSUME NEW id \in DOMAIN now, now[id].code = batch[b].code PROVE id = key
        <3>1. CASE id \in new
            <4>1. id - nextId + 1 = b
                BY <1>3, <2>3, <3>1
            <4> QED
                BY <2>1, <3>1, <4>1
        <3>2. CASE id \in kept
            <4>1. rows[id].code \notin codes /\ batch[b].code \in codes
                BY <3>2 DEF Kept
            <4> QED
                BY <1>3, <2>3, <3>2, <4>1
        <3> QED
            BY <1>1, <3>1, <3>2
    <2>4. {id \in DOMAIN now : now[id].code = batch[b].code} = {key}
        BY <2>2, <2>3
    <2>5. {now[id].value : id \in {key}} = {batch[b].value}
        BY <2>2
    <2>6. ValuesOf(batch[b].code)'
            = {now[id].value : id \in {k \in DOMAIN now : now[k].code = batch[b].code}}
        BY DEF ValuesOf
    <2> QED
        BY <2>4, <2>5, <2>6
<1>7. ASSUME NEW code, code \notin codes PROVE ValuesOf(code)' = ValuesOf(code)
    <2>1. \A id \in new : now[id].code # code
        BY <1>3, <1>7
    <2>2. \A id \in DOMAIN rows : rows[id].code = code => id \in kept
        BY <1>7 DEF Kept
    <2> HIDE DEF new
    <2> DEFINE S == {id \in DOMAIN now : now[id].code = code}
               T == {id \in DOMAIN rows : rows[id].code = code}
    <2>3. S = T
        BY <1>1, <1>2, <1>3, <2>1, <2>2
    <2>4. \A id \in T : now[id].value = rows[id].value
        BY <1>3, <2>2
    <2>5. ValuesOf(code)' = {now[id].value : id \in S} /\ ValuesOf(code) = {rows[id].value : id \in T}
        BY DEF ValuesOf
    <2> HIDE DEF S, T
    <2>6. {now[id].value : id \in T} = {rows[id].value : id \in T}
        BY <2>4
    <2> QED
        BY <2>3, <2>5, <2>6
<1> QED
    BY <1>5, <1>6, <1>7 DEF CodesOf

LEMMA UpsertBatchStep == ASSUME BulkInv, UpsertBatch PROVE BulkInv'
<1>1. /\ Running /\ Call = "upsert" /\ todo.create = <<>> /\ asked # Nothing
      /\ "create" \in CallNames /\ "delete" \in CallNames /\ "upsert" \in CallNames
    BY CallIs DEF UpsertBatch, BulkInv, CallNames
<1>2. PICK n, batch :
          /\ n \in 1 .. Len(todo[Call]) /\ batch = Batch
          /\ n \in Nat \ {0} /\ Batch = SubSeq(todo[Call], 1, n)
          /\ Len(Batch) = n /\ DOMAIN Batch = 1 .. n
          /\ \A i \in 1 .. n : Batch[i] = todo[Call][i]
    BY <1>1, BatchIs
<1>3. nextId \in Nat /\ nextId' = nextId + n /\ nextId' \in Nat /\ nextId <= nextId'
    BY <1>2 DEF UpsertBatch, BulkInv
<1> DEFINE codes == {Batch[i].code : i \in DOMAIN Batch}
           kept == {id \in DOMAIN rows : rows[id].code \notin codes}
           written == [id \in nextId..nextId + Len(Batch) - 1 |->
                         Row(Batch[id - nextId + 1].code, Batch[id - nextId + 1].value)]
           now == Over(written, Restrict(rows, kept))
<1>4. \/ Raises(TRUE)
      \/ Cardinality(codes) = Len(Batch) /\ Succeeds(Batch, now, Len(Batch))
    BY DEF UpsertBatch
<1>5. CASE Raises(TRUE)
    BY <1>1, <1>3, <1>5, RaisesInv
<1>6. ASSUME Cardinality(codes) = Len(Batch), Succeeds(Batch, now, Len(Batch)) PROVE BulkInv'
    <2>1. codes = {batch[i].code : i \in 1 .. n}
        BY <1>2
    <2>2. \A i, j \in 1 .. n : batch[i].code = batch[j].code => i = j
        <3> DEFINE f == [i \in 1 .. n |-> batch[i].code]
        <3>1. codes = {f[i] : i \in 1 .. n}
            BY <2>1
        <3>2. Cardinality(codes) = n /\ n \in Nat
            BY <1>2, <1>6
        <3> HIDE DEF codes, f
        <3>3. \A i, j \in 1 .. n : f[i] = f[j] => i = j
            BY <3>1, <3>2, ImageIs
        <3> QED
            BY <3>3 DEF f
    <2>3. rows' = now
        BY <1>6 DEF Succeeds
    <2>4. /\ \A id \in DOMAIN now : id \in Nat /\ id < nextId + n
          /\ \A b \in 1 .. n : ValuesOf(batch[b].code)' = {batch[b].value}
          /\ \A code : code \notin codes => ValuesOf(code)' = ValuesOf(code)
        <3>1. n \in Nat /\ \A id \in DOMAIN rows : id \in Nat /\ id < nextId
            BY <1>2 DEF BulkInv
        <3>2. now = Over(Written(batch, n), Restrict(rows, Kept(CodesOf(batch, n))))
            BY <1>2 DEF Written, Kept, CodesOf
        <3> HIDE DEF codes, now
        <3>3. DOMAIN batch = 1 .. n /\ codes = CodesOf(batch, n)
            BY <1>2, <2>1 DEF CodesOf
        <3> QED
            BY <1>3, <2>2, <2>3, <3>1, <3>2, <3>3, UpsertedValues
    <2> HIDE DEF codes, kept, written, now
    <2>5. ASSUME LeftOver, Created, Deleted, Upserted PROVE (Created /\ Deleted /\ Upserted)'
        <3>1. Moved("upsert", n, now, n)
            BY <1>1, <1>2, <1>6, StatementMoves
        <3> DEFINE items == asked.upsert
                   p == Done("upsert")
        <3>2. \A b \in 1 .. n : batch[b] = items[p + b]
            <4>1. \A b \in 1 .. n : batch[b] = todo.upsert[b] /\ b \in 1 .. Len(todo.upsert)
                BY <1>1, <1>2
            <4> QED
                BY <1>1, <2>5, <4>1 DEF LeftOver
        <3>3. p \in Nat /\ p' = p + n /\ asked' = asked
            BY <1>1, <2>5, <3>1, Lengths DEF Moved
        <3> HIDE DEF p
        <3>4. asked.create = <<>> /\ asked.update = <<>> /\ asked.delete = <<>>
            <4>1. todo["upsert"] # <<>>
                BY <1>1, CallIs
            <4>2. asked.upsert # <<>>
                BY <1>1, <2>5, <4>1, Lengths
            <4> QED
                BY <2>5, <4>2 DEF Upserted
        <3>5. Created' /\ Deleted'
            <4>1. 1 .. Done("create") = {} /\ 1 .. Done("delete") = {}
                <5>1. /\ Done("create") + Len(todo["create"]) = 0 /\ Len(todo["create"]) \in Nat
                      /\ Done("delete") + Len(todo["delete"]) = 0 /\ Len(todo["delete"]) \in Nat
                      /\ Done("create") \in Int /\ Done("delete") \in Int
                    BY <1>1, <3>4, Lengths
                <5> QED
                    BY <5>1
            <4>2. Done("create")' = Done("create") /\ Done("delete")' = Done("delete")
                BY <1>1, <3>1 DEF Moved
            <4>3. todo'.create = <<>> /\ result'.create = Len(asked'.create)
                BY <1>1, <2>5, <3>1 DEF Created, Moved
            <4> QED
                BY <4>1, <4>2, <4>3 DEF Created, Deleted
        <3>6. ASSUME NEW k \in 1 .. p + n, NEW code \in Codes, Latest(items, p + n, k, code)
              PROVE  ValuesOf(code)' = {items[k].value}
            <4>1. CASE k > p
                <5>1. k - p \in 1 .. n /\ p + (k - p) = k
                    BY <1>2, <3>3, <4>1
                <5>2. PICK b \in 1 .. n : p + b = k
                    BY <5>1
                <5>3. batch[b] = items[k] /\ items[k].code = code
                    BY <3>2, <3>6, <5>2 DEF Latest
                <5>4. ValuesOf(batch[b].code)' = {batch[b].value}
                    BY <2>4
                <5> QED
                    BY <5>3, <5>4
            <4>2. CASE k <= p
                <5>1. \A b \in 1 .. n : p + b \in k + 1 .. p + n
                    BY <1>2, <3>3, <4>2
                <5>2. code \notin codes
                    BY <2>1, <3>2, <3>6, <5>1 DEF Latest, codes
                <5>3. Latest(items, p, k, code) /\ k \in 1 .. p
                    BY <1>2, <3>3, <3>6, <4>2 DEF Latest
                <5>4. ValuesOf(code) = {items[k].value}
                    BY <2>5, <5>3 DEF Upserted, p
                <5> QED
                    BY <2>4, <5>2, <5>4
            <4> QED
                BY <1>2, <3>3, <4>1, <4>2
        <3>7. ASSUME NEW i \in 1 .. p + n
              PROVE  \E k \in 1 .. p + n : Latest(items, p + n, k, items[i].code)
            <4>1. CASE \E b \in 1 .. n : items[i].code = batch[b].code
                <5>1. PICK b \in 1 .. n : items[i].code = batch[b].code
                    BY <4>1
                <5>2. p + b \in 1 .. p + n /\ items[p + b].code = items[i].code
                    BY <1>2, <3>2, <3>3, <5>1
                <5>3. ASSUME NEW j \in p + b + 1 .. p + n PROVE items[j].code # items[i].code
                    <6>1. j - p \in 1 .. n /\ p + (j - p) = j /\ j - p # b
                        BY <1>2, <3>3, <5>1
                    <6>2. batch[j - p] = items[j]
                        BY <3>2, <6>1
                    <6> QED
                        BY <2>2, <5>1, <6>1, <6>2
                <5> QED
                    BY <5>2, <5>3 DEF Latest
            <4>2. CASE ~ \E b \in 1 .. n : items[i].code = batch[b].code
                <5>1. i \in 1 .. p
                    <6>1. ASSUME i > p PROVE FALSE
                        <7>1. i - p \in 1 .. n /\ p + (i - p) = i
                            BY <1>2, <3>3, <6>1
                        <7> QED
                            BY <3>2, <4>2, <7>1
                    <6> QED
                        BY <1>2, <3>3, <6>1
                <5>2. PICK k \in 1 .. p : Latest(items, p, k, items[i].code)
                    BY <2>5, <5>1 DEF Upserted, p
                <5>3. ASSUME NEW j \in k + 1 .. p + n PROVE items[j].code # items[i].code
                    <6>1. CASE j <= p
                        BY <1>2, <3>3, <5>2, <6>1 DEF Latest
                    <6>2. CASE j > p
                        <7>1. j - p \in 1 .. n /\ p + (j - p) = j
                            BY <1>2, <3>3, <6>2
                        <7> QED
                            BY <3>2, <4>2, <7>1
                    <6> QED
                        BY <1>2, <3>3, <6>1, <6>2
                <5> QED
                    BY <1>2, <3>3, <5>2, <5>3 DEF Latest
            <4> QED
                BY <4>1, <4>2
        <3>8. Upserted'
            BY <3>3, <3>4, <3>6, <3>7 DEF Upserted, p
        <3> QED
            BY <3>5, <3>8
    <2>6. Succeeds(SubSeq(todo[Call], 1, n), now, n) /\ n \in Nat
        BY <1>2, <1>6
    <2>7. \A id \in DOMAIN now : id \in Nat /\ id < nextId'
        BY <1>3, <2>4
    <2> QED
        BY <1>1, <1>2, <1>3, <2>5, <2>6, <2>7, SucceedsInv
<1> QED
    BY <1>4, <1>5, <1>6

LEMMA NothingIsOK == CallsOK(Nothing)
<1>1. \A T : <<>> \in Seq(T)
    OBVIOUS
<1> QED
    BY <1>1 DEF CallsOK, Nothing, CallNames

LEMMA InitBulk == BulkInit => BulkInv
<1> SUFFICES ASSUME BulkInit PROVE BulkInv
    OBVIOUS
<1>1. nextId \in Nat /\ nextId = MaxId - MaxItems + 1 /\ MaxId \in Nat /\ MaxItems \in Nat
    BY BulkAssumption DEF BulkInit
<1>2. \A id \in Ids \cup DOMAIN rows \cup DOMAIN saved : id \in 1..MaxId - MaxItems
    BY BulkAssumption DEF BulkInit
<1>3. \A id \in Ids \cup DOMAIN rows \cup DOMAIN saved : id \in Nat /\ id < nextId
    BY <1>1, <1>2
<1>4. \A op \in CallNames : todo[op] = <<>>
    BY DEF BulkInit, Nothing, CallNames
<1>5. ~ Running
    <2>1. \A i \in 1 .. 4 : Calls[i] \in CallNames
        BY DEF Calls, CallNames
    <2> QED
        BY <1>4, <2>1 DEF Running, Due
<1>6. DOMAIN result = CallNames \cup {"failed"}
    BY DEF BulkInit, NoResult, CallNames
<1>7. size \in Nat \ {0} /\ asked = Nothing /\ CallsOK(asked) /\ CallsOK(todo)
    BY BulkAssumption, NothingIsOK DEF BulkInit
<1> QED
    BY <1>1, <1>3, <1>5, <1>6, <1>7 DEF BulkInv

LEMMA StartStep ==
    ASSUME BulkInv, NEW items, Start(items), CallsOK(items), nextId' = nextId,
           items.upsert # <<>> =>
              items.create = <<>> /\ items.update = <<>> /\ items.delete = <<>>
    PROVE  BulkInv'
<1>1. /\ todo' = items /\ asked' = items /\ items # Nothing /\ count' = 0 /\ result' = NoResult
      /\ UNCHANGED <<rows, saved, aborted, size, nextId>>
    BY DEF Start
<1>2. DOMAIN NoResult = CallNames \cup {"failed"} /\ NoResult.create = 0
    BY DEF NoResult, CallNames
<1>3. \A op \in CallNames : Len(items[op]) \in Nat /\ (items[op] = <<>> => Len(items[op]) = 0)
    BY DEF CallsOK, CallNames
<1>4. \A op \in CallNames : Done(op)' = 0
    BY <1>1, <1>3 DEF Done
<1>5. /\ "create" \in CallNames /\ "delete" \in CallNames /\ "upsert" \in CallNames
      /\ 1 .. 0 = {}
    BY DEF CallNames
<1>6. LeftOver'
    <2>1. \A op \in CallNames : /\ Len(items[op]) <= Len(items[op])
                                /\ \A i \in 1 .. Len(items[op]) : i = 0 + i
        BY <1>3
    <2>2. \A op \in CallNames : \A i \in 1 .. Len(items[op]) :
             todo'[op][i] = asked'[op][Done(op)' + i]
        BY <1>1, <1>4, <2>1
    <2> QED
        BY <1>1, <2>1, <2>2 DEF LeftOver
<1>7. Created' /\ Deleted'
    <2>1. Len(items["create"]) \in Nat /\ (items["create"] = <<>> => Len(items["create"]) = 0)
        BY <1>3, <1>5
    <2> QED
        BY <1>1, <1>2, <1>4, <1>5, <2>1 DEF Created, Deleted
<1>8. Upserted'
    <2>1. Done("upsert")' = 0
        BY <1>4, <1>5
    <2>2. 1 .. Done("upsert")' = {}
        BY <1>5, <2>1
    <2> QED
        BY <1>1, <2>2 DEF Upserted
<1>9. \A id \in Ids \cup DOMAIN rows' \cup DOMAIN saved' : id \in Nat /\ id < nextId'
    BY <1>1 DEF BulkInv
<1> QED
    BY <1>1, <1>2, <1>6, <1>7, <1>8, <1>9 DEF BulkInv

LEMMA OperationStep == ASSUME BulkInv, BulkOperation \/ BulkUpsert PROVE BulkInv'
<1>1. /\ \A n \in 0 .. MaxItems : \A T, list : list \in [1 .. n -> T] => list \in Seq(T)
      /\ \A T : ItemLists(T) = UNION {[1 .. n -> T] : n \in 0 .. MaxItems}
      /\ \A n \in 0 .. MaxItems : n \in Nat
    BY BulkAssumption DEF ItemLists
<1>2. \A T : ItemLists(T) \subseteq Seq(T)
    BY <1>1
<1>3. CASE BulkOperation
    <2> DEFINE some == {CHOOSE v \in Values : TRUE}
    <2>1. PICK create \in ItemLists([id : Ids, code : Codes, value : some]),
               update \in ItemLists([id : Ids, value : some] \cup [value : some]),
               delete \in ItemLists(Ids) :
                  Start([create |-> create, update |-> update, delete |-> delete,
                         upsert |-> <<>>])
        BY <1>3 DEF BulkOperation
    <2>2. some \subseteq Values
        BY BulkAssumption
    <2> HIDE DEF some
    <2>3. /\ create \in Seq([id : Ids, code : Codes, value : some])
          /\ update \in Seq([id : Ids, value : some] \cup [value : some])
          /\ delete \in Seq(Ids)
        BY <1>2, <2>1
    <2>4. /\ create \in Seq([id : Ids, code : Codes, value : Values])
          /\ update \in Seq([id : Ids, value : Values] \cup [value : Values])
        <3>1. /\ [id : Ids, code : Codes, value : some] \subseteq [id : Ids, code : Codes, value : Values]
              /\ [id : Ids, value : some] \cup [value : some]
                    \subseteq [id : Ids, value : Values] \cup [value : Values]
            BY <2>2
        <3>2. \A S, T, list : S \subseteq T /\ list \in Seq(S) => list \in Seq(T)
            OBVIOUS
        <3> QED
            BY <2>3, <3>1, <3>2
    <2> DEFINE items == [create |-> create, update |-> update, delete |-> delete,
                         upsert |-> <<>>]
    <2>5. <<>> \in Seq([code : Codes, value : Values])
        OBVIOUS
    <2>6. CallsOK(items) /\ items.upsert = <<>>
        BY <2>3, <2>4, <2>5 DEF CallsOK, CallNames
    <2>7. nextId' = nextId
        BY <2>1 DEF Start
    <2> HIDE DEF items
    <2> QED
        BY <2>1, <2>6, <2>7, StartStep DEF items
<1>4. CASE BulkUpsert
    <2>1. PICK list \in ItemLists([code : Codes, value : Values]) :
                  Start([Nothing EXCEPT !.upsert = list])
        BY <1>4 DEF BulkUpsert
    <2> DEFINE items == [Nothing EXCEPT !.upsert = list]
    <2>2. list \in Seq([code : Codes, value : Values])
        BY <1>2
    <2>3. /\ DOMAIN items = CallNames /\ items.upsert = list
          /\ items.create = <<>> /\ items.update = <<>> /\ items.delete = <<>>
        BY DEF Nothing, CallNames
    <2> HIDE DEF items
    <2>4. \A T : <<>> \in Seq(T)
        OBVIOUS
    <2>5. CallsOK(items)
        BY <2>2, <2>3, <2>4 DEF CallsOK
    <2>6. Start(items) /\ nextId' = nextId
        BY <2>1 DEF Start, items
    <2> QED
        BY <2>3, <2>5, <2>6, StartStep
<1> QED
    BY <1>3, <1>4

LEMMA EndStep == ASSUME BulkInv, Commit \/ Rollback PROVE BulkInv'
<1>1. /\ ~ Running /\ asked' = Nothing /\ rows' \in {rows, saved} /\ saved' \in {rows, saved}
      /\ UNCHANGED <<todo, size, count, result, nextId>>
    BY DEF Commit, Rollback
<1>2. ~ Running'
    BY <1>1 DEF Running, Due
<1>3. \A id \in Ids \cup DOMAIN rows' \cup DOMAIN saved' : id \in Nat /\ id < nextId'
    BY <1>1 DEF BulkInv
<1> QED
    BY <1>1, <1>2, <1>3, NothingIsOK DEF BulkInv

LEMMA BulkInvStep == BulkInv /\ [BulkNext]_bulkVars => BulkInv'
<1> SUFFICES ASSUME BulkInv, [BulkNext]_bulkVars PROVE BulkInv'
    OBVIOUS
<1>1. CASE UNCHANGED bulkVars
    <2>1. UNCHANGED <<rows, saved, aborted, todo, size, count, result, asked, nextId>>
        BY <1>1 DEF bulkVars
    <2>2. Running' = Running
        BY <2>1 DEF Running, Due
    <2>3. LeftOver' = LeftOver /\ Created' = Created /\ Deleted' = Deleted
        BY <2>1 DEF LeftOver, Created, Deleted, Done
    <2>4. Upserted' = Upserted
        BY <2>1 DEF Upserted, Done, ValuesOf
    <2> QED
        BY <2>1, <2>2, <2>3, <2>4 DEF BulkInv
<1> QED
    BY <1>1, OperationStep, CreateBatchStep, UpdateItemStep, DeleteBatchStep, UpsertBatchStep, EndStep DEF BulkNext

(* Whatever table it finds, whatever items it is given and however they are *)
(* cut into batches: when every call of an operation has gone through, the  *)
(* rows asked for are there and counted, the deleted ones are gone, and     *)
(* each upserted business key has one row, with the last of its values.     *)
THEOREM OperationsDoAsAsked == BulkSpec => []DoneAsAsked
<1>1. BulkInv => DoneAsAsked
    <2> SUFFICES ASSUME BulkInv, ~ Running, asked # Nothing, result.failed = {}
                 PROVE  /\ ToSet(asked.delete) \cap DOMAIN rows = {}
                        /\ {item.id : item \in ToSet(asked.create)} \subseteq
                              DOMAIN rows \cup ToSet(asked.delete)
                        /\ result.create = Len(asked.create)
                        /\ \A item \in ToSet(asked.upsert) :
                              ValuesOf(item.code) = {LastOf(asked.upsert, item.code).value}
        BY DEF DoneAsAsked, ValuesOf
    <2>1. /\ LeftOver /\ Created /\ Deleted /\ Upserted
          /\ CallsOK(asked) /\ \A op \in CallNames : todo[op] = <<>>
          /\ "create" \in CallNames /\ "delete" \in CallNames /\ "upsert" \in CallNames
        BY CallIs DEF BulkInv, CallNames
    <2>2. \A op \in CallNames : Done(op) = Len(asked[op])
        BY <2>1, Lengths
    <2>3. /\ ToSet(asked.create) = {asked.create[i] : i \in 1 .. Len(asked.create)}
          /\ ToSet(asked.delete) = {asked.delete[i] : i \in 1 .. Len(asked.delete)}
          /\ ToSet(asked.upsert) = {asked.upsert[i] : i \in 1 .. Len(asked.upsert)}
          /\ DOMAIN asked.upsert = 1 .. Len(asked.upsert)
        BY <2>1 DEF CallsOK, ToSet
    <2>4. ToSet(asked.delete) \cap DOMAIN rows = {}
        BY <2>1, <2>2, <2>3 DEF Deleted
    <2>5. {item.id : item \in ToSet(asked.create)} \subseteq DOMAIN rows \cup ToSet(asked.delete)
        BY <2>1, <2>2, <2>3 DEF Created
    <2>6. result.create = Len(asked.create)
        BY <2>1 DEF Created
    <2>7. ASSUME NEW item \in ToSet(asked.upsert)
          PROVE  ValuesOf(item.code) = {LastOf(asked.upsert, item.code).value}
        <3> DEFINE items == asked.upsert
                   last == CHOOSE k \in DOMAIN items :
                              /\ items[k].code = item.code
                              /\ \A j \in k + 1..Len(items) : items[j].code # item.code
        <3>1. PICK i \in 1 .. Len(items) : items[i] = item
            BY <2>3
        <3>2. Done("upsert") = Len(items)
            BY <2>1, <2>2
        <3>3. PICK k \in 1 .. Len(items) : Latest(items, Len(items), k, item.code)
            BY <2>1, <3>1, <3>2 DEF Upserted
        <3>4. last \in 1 .. Len(items) /\ Latest(items, Len(items), last, item.code)
            BY <2>3, <3>3 DEF Latest
        <3>5. LastOf(items, item.code) = items[last]
            BY DEF LastOf
        <3>6. item.code \in Codes
            <4>1. items \in Seq([code : Codes, value : Values])
                BY <2>1 DEF CallsOK
            <4> HIDE DEF items
            <4>2. \A T : items \in Seq(T) => items[i] \in T
                OBVIOUS
            <4>3. item \in [code : Codes, value : Values]
                BY <3>1, <4>1, <4>2
            <4> QED
                BY <4>3
        <3> HIDE DEF last
        <3>7. ValuesOf(item.code) = {items[last].value}
            BY <2>1, <3>2, <3>4, <3>6 DEF Upserted
        <3> QED
            BY <3>5, <3>7
    <2> QED
        BY <2>4, <2>5, <2>6, <2>7
<1> QED
    BY <1>1, InitBulk, BulkInvStep, PTL DEF BulkSpec
=============================================================================
