----------------------------- MODULE OrderingProofs -----------------------------
(***************************************************************************)
(* That the listings are what was asked for, in the order asked for.       *)
(*                                                                         *)
(* The first part is about the comparators: what sort.SliceStable needs of *)
(* the comparison it is given, and what the comments of order.go promise   *)
(* of it, for every record, every field and both directions. Lower stands  *)
(* for strings.ToLower on the ranks of strings, of which only its type is  *)
(* assumed.                                                                *)
(*                                                                         *)
(* The others go on from there: that a sort by such a comparison returns   *)
(* what is less first and keeps equals in place; what the records, the     *)
(* order and the columns of a list command are, for any rows; what the     *)
(* merge and the services make of the catalogs, in whatever order their    *)
(* maps are walked; and, by an invariant of the list commands, that every  *)
(* listing of any catalogs is whole, enriched and in order.                *)
(***************************************************************************)
EXTENDS Listing, FoldProofs, FiniteSetTheorems, SequenceTheorems

Value == {v \in [type : Types, n : Int] : v.type = "string" => v.n \in Strings}

\* A record as newRecord and add build it: every field has a value or is nil.
IsRecord(r) == \A key : value(r, key) \in Value

SortKey == [kind : {"missing", "num", "str"}, n : Int]
KeyOf(r, key) == orderKey(value(r, key))

\* A sort key is of its type, and is missing when it is the missing one.
LEMMA OrderKeyType ==
    ASSUME LowerIsOfStrings, NEW v \in Value
    PROVE  /\ orderKey(v) \in SortKey
           /\ orderKey(v).kind = "missing" <=> orderKey(v) = orderMissing
<1>1. CASE v.type \in {"nil", "pointer"} \/ v = Str(0)
  BY <1>1 DEF orderKey, orderMissing, SortKey
<1>2. CASE ~(v.type \in {"nil", "pointer"} \/ v = Str(0)) /\ v.type = "string"
  <2>1. v.n \in Strings /\ Lower[v.n] \in Int
    BY <1>2 DEF Value, LowerIsOfStrings
  <2> QED
    BY <1>2, <2>1 DEF orderKey, orderMissing, SortKey
<1>3. CASE ~(v.type \in {"nil", "pointer"} \/ v = Str(0)) /\ v.type # "string"
  BY <1>3 DEF orderKey, orderMissing, SortKey, Value
<1> QED
  BY <1>1, <1>2, <1>3

\* The id of a record is a string.
LEMMA RecordIDType ==
    ASSUME LowerIsOfStrings, NEW r, IsRecord(r)
    PROVE  recordID(r) \in Nat
<1>1. value(r, "id") \in Value
  BY DEF IsRecord
<1> QED
  BY <1>1 DEF recordID, Value, LowerIsOfStrings

\* The order of two sort keys, apart from the records they are of.
KeyBefore(a, b, descending) ==
    /\ a # b
    /\ IF orderMissing \in {a, b} THEN b = orderMissing ELSE Below(a, b) <=> ~descending

\* The comparison of the sort keys decides, and that of the ids between equal ones.
LEMMA BeforeByKeys ==
    ASSUME NEW r, NEW s, NEW key, NEW descending
    PROVE  Before(r, s, key, descending) <=>
             IF KeyOf(r, key) = KeyOf(s, key) THEN recordID(r) < recordID(s)
             ELSE KeyBefore(KeyOf(r, key), KeyOf(s, key), descending)
BY DEF Before, lessByKey, recordLess, KeyOf, KeyBefore

\* Of two different sort keys exactly one comes before the other.
LEMMA KeyBeforeTotal ==
    ASSUME NEW a \in SortKey, NEW b \in SortKey, NEW descending \in BOOLEAN, a # b,
           a.kind = "missing" <=> a = orderMissing,
           b.kind = "missing" <=> b = orderMissing
    PROVE  KeyBefore(a, b, descending) <=> ~KeyBefore(b, a, descending)
<1>1. CASE orderMissing \in {a, b}
  BY <1>1 DEF KeyBefore
<1>2. CASE orderMissing \notin {a, b} /\ a.kind # b.kind
  BY <1>2 DEF KeyBefore, Below, SortKey
<1>3. CASE orderMissing \notin {a, b} /\ a.kind = b.kind
  <2>1. a.n # b.n /\ a.n \in Int /\ b.n \in Int
    BY <1>3 DEF SortKey
  <2>2. Below(a, b) <=> ~Below(b, a)
    BY <1>3, <2>1 DEF Below
  <2> QED
    BY <1>3, <2>2 DEF KeyBefore
<1> QED
  BY <1>1, <1>2, <1>3

\* The order of the sort keys is transitive.
LEMMA KeyBeforeTransitive ==
    ASSUME NEW a \in SortKey, NEW b \in SortKey, NEW c \in SortKey, NEW descending \in BOOLEAN,
           a.kind = "missing" <=> a = orderMissing,
           b.kind = "missing" <=> b = orderMissing,
           c.kind = "missing" <=> c = orderMissing,
           KeyBefore(a, b, descending), KeyBefore(b, c, descending)
    PROVE  KeyBefore(a, c, descending)
<1>1. a # orderMissing /\ b # orderMissing
  BY DEF KeyBefore
<1>2. CASE c = orderMissing
  BY <1>1, <1>2 DEF KeyBefore
<1>3. CASE c # orderMissing
  <2>1. (Below(a, b) <=> ~descending) /\ (Below(b, c) <=> ~descending) /\ a # b /\ b # c
    BY <1>1, <1>3 DEF KeyBefore
  <2>2. /\ a.n \in Int /\ b.n \in Int /\ c.n \in Int
        /\ a.kind \in {"num", "str"} /\ b.kind \in {"num", "str"} /\ c.kind \in {"num", "str"}
    BY <1>1, <1>3 DEF SortKey
  <2>3. (a.kind = b.kind => a.n # b.n) /\ (b.kind = c.kind => b.n # c.n)
    BY <2>1 DEF SortKey
  <2>4. CASE descending
    <3>1. ~Below(a, b) /\ ~Below(b, c)
      BY <2>1, <2>4
    <3>2. ~Below(a, c) /\ a # c
      BY <3>1, <2>2, <2>3 DEF Below
    <3> QED
      BY <1>1, <1>3, <2>4, <3>2 DEF KeyBefore
  <2>5. CASE ~descending
    <3>1. Below(a, b) /\ Below(b, c)
      BY <2>1, <2>5
    <3>2. Below(a, c) /\ a # c
      BY <3>1, <2>2, <2>3 DEF Below
    <3> QED
      BY <1>1, <1>3, <2>5, <3>2 DEF KeyBefore
  <2> QED
    BY <2>4, <2>5
<1> QED
  BY <1>2, <1>3

\* The sort key of a record is of its type.
LEMMA KeyOfType ==
    ASSUME LowerIsOfStrings, NEW r, IsRecord(r), NEW key
    PROVE  /\ KeyOf(r, key) \in SortKey
           /\ KeyOf(r, key).kind = "missing" <=> KeyOf(r, key) = orderMissing
<1>1. value(r, key) \in Value
  BY DEF IsRecord
<1> QED
  BY <1>1, OrderKeyType DEF KeyOf

\* No record comes before itself, and of two records at most one comes before
\* the other: neither does exactly when they agree on the field, or lack it
\* both, and have the same id. Such records, and no others, keep the order of
\* the library (orderRecords).
THEOREM BeforeIsTotal ==
    ASSUME LowerIsOfStrings, NEW key, NEW descending \in BOOLEAN,
           NEW r, NEW s, IsRecord(r), IsRecord(s)
    PROVE  /\ ~(Before(r, s, key, descending) /\ Before(s, r, key, descending))
           /\ (~Before(r, s, key, descending) /\ ~Before(s, r, key, descending)) <=>
                (KeyOf(r, key) = KeyOf(s, key) /\ recordID(r) = recordID(s))
<1>1. recordID(r) \in Nat /\ recordID(s) \in Nat
  BY RecordIDType
<1>2. CASE KeyOf(r, key) = KeyOf(s, key)
  <2>1. /\ Before(r, s, key, descending) <=> recordID(r) < recordID(s)
        /\ Before(s, r, key, descending) <=> recordID(s) < recordID(r)
    BY <1>2, BeforeByKeys
  <2> QED
    BY <1>1, <1>2, <2>1
<1>3. CASE KeyOf(r, key) # KeyOf(s, key)
  <2>1. KeyBefore(KeyOf(r, key), KeyOf(s, key), descending)
          <=> ~KeyBefore(KeyOf(s, key), KeyOf(r, key), descending)
    BY <1>3, KeyOfType, KeyBeforeTotal
  <2> QED
    BY <1>3, <2>1, BeforeByKeys
<1> QED
  BY <1>2, <1>3

\* The comparison is transitive, in both directions, for values of one type or
\* of several: a sort that uses it ends in the same order from any other.
THEOREM BeforeIsTransitive ==
    ASSUME LowerIsOfStrings, NEW key, NEW descending \in BOOLEAN,
           NEW r, NEW s, NEW t, IsRecord(r), IsRecord(s), IsRecord(t),
           Before(r, s, key, descending), Before(s, t, key, descending)
    PROVE  Before(r, t, key, descending)
<1> DEFINE a == KeyOf(r, key)
           b == KeyOf(s, key)
           c == KeyOf(t, key)
<1>1. recordID(r) \in Nat /\ recordID(s) \in Nat /\ recordID(t) \in Nat
  BY RecordIDType
<1>2. /\ a \in SortKey /\ (a.kind = "missing" <=> a = orderMissing)
      /\ b \in SortKey /\ (b.kind = "missing" <=> b = orderMissing)
      /\ c \in SortKey /\ (c.kind = "missing" <=> c = orderMissing)
  BY KeyOfType
<1>3. /\ IF a = b THEN recordID(r) < recordID(s) ELSE KeyBefore(a, b, descending)
      /\ IF b = c THEN recordID(s) < recordID(t) ELSE KeyBefore(b, c, descending)
  BY BeforeByKeys
<1>4. (IF a = c THEN recordID(r) < recordID(t) ELSE KeyBefore(a, c, descending))
         => Before(r, t, key, descending)
  BY BeforeByKeys
<1> HIDE DEF a, b, c
<1>5. CASE a = b \/ b = c
  <2>1. CASE a = b /\ b = c
    BY <1>1, <1>3, <1>4, <2>1
  <2>2. CASE a = b /\ b # c
    BY <1>3, <1>4, <2>2
  <2>3. CASE a # b /\ b = c
    BY <1>3, <1>4, <2>3
  <2> QED
    BY <1>5, <2>1, <2>2, <2>3
<1>6. CASE a # b /\ b # c
  <2>1. KeyBefore(a, c, descending)
    BY <1>2, <1>3, <1>6, KeyBeforeTransitive
  <2> QED
    BY <2>1, <1>4 DEF KeyBefore
<1> QED
  BY <1>5, <1>6

\* A record that lacks the field, or has it empty, comes after every record that
\* has it, in either direction (the comments of orderRecords and lessByKey).
THEOREM MissingIsLast ==
    ASSUME NEW key, NEW descending, NEW r, NEW s,
           KeyOf(r, key) # orderMissing, KeyOf(s, key) = orderMissing
    PROVE  Before(r, s, key, descending) /\ ~Before(s, r, key, descending)
<1>1. KeyBefore(KeyOf(r, key), KeyOf(s, key), descending)
  BY DEF KeyBefore
<1>2. ~KeyBefore(KeyOf(s, key), KeyOf(r, key), descending)
  BY DEF KeyBefore
<1> QED
  BY <1>1, <1>2, BeforeByKeys

\* The command line's default order of the models, newest release first, is the
\* library's (the comments of sort.go: one shared rule), given that dates have
\* no letters for ToLower to change: listing without --order-by moves no row.
THEOREM OneReleaseOrder ==
    ASSUME NEW m, NEW o, m.released \in Nat, o.released \in Nat, m.id \in Nat, o.id \in Nat,
           Lower[m.released] = m.released, Lower[o.released] = o.released,
           NEW r, NEW s,
           value(r, "id") = Str(m.id), value(r, "released") = Str(m.released),
           value(s, "id") = Str(o.id), value(s, "released") = Str(o.released)
    PROVE  Before(r, s, "released", TRUE) <=> Newer(m, o)
<1>1. recordID(r) = m.id /\ recordID(s) = o.id
  BY DEF recordID, Str
<1>2. /\ KeyOf(r, "released") = IF m.released = 0 THEN orderMissing
                                ELSE [kind |-> "str", n |-> m.released]
      /\ KeyOf(s, "released") = IF o.released = 0 THEN orderMissing
                                ELSE [kind |-> "str", n |-> o.released]
  BY DEF KeyOf, orderKey, Str
<1>3. CASE m.released = o.released
  <2>1. KeyOf(r, "released") = KeyOf(s, "released")
    BY <1>2, <1>3
  <2>2. Before(r, s, "released", TRUE) <=> recordID(r) < recordID(s)
    BY <2>1, BeforeByKeys
  <2> QED
    BY <1>1, <1>3, <2>2 DEF Newer
<1>4. CASE m.released # o.released
  <2>1. KeyOf(r, "released") # KeyOf(s, "released")
    BY <1>2, <1>4 DEF orderMissing
  <2>2. KeyBefore(KeyOf(r, "released"), KeyOf(s, "released"), TRUE) <=> Newer(m, o)
    BY <1>2, <1>4, <2>1 DEF KeyBefore, Below, orderMissing, Newer
  <2> QED
    BY <2>1, <2>2, BeforeByKeys
<1> QED
  BY <1>3, <1>4

(***************************************************************************)
(* What a sort returns.                                                    *)
(***************************************************************************)

\* What a permutation of the positions up to n is.
LEMMA Permutes ==
    ASSUME NEW n \in Nat, NEW p \in Bijection(1 .. n, 1 .. n)
    PROVE  /\ p \in [1 .. n -> 1 .. n]
           /\ \A j, k \in 1 .. n : p[j] = p[k] => j = k
           /\ \A i \in 1 .. n : \E j \in 1 .. n : p[j] = i
  BY DEF Bijection, Injection, Surjection, IsInjective

\* The positions a relation puts before i.
Under(i, T, n) == {j \in 1 .. n : <<j, i>> \in T}

\* The positions up to n can be laid out along any relation that orders them
\* totally: each goes where the number of those before it says.
LEMMA TotalOrderSorts ==
    ASSUME NEW n \in Nat, NEW T,
           \A i, j \in 1 .. n : <<i, j>> \in T => <<j, i>> \notin T,
           \A i, j \in 1 .. n : i # j => <<i, j>> \in T \/ <<j, i>> \in T,
           \A i, j, k \in 1 .. n : <<i, j>> \in T /\ <<j, k>> \in T => <<i, k>> \in T
    PROVE  \E p \in Bijection(1 .. n, 1 .. n) :
               \A j, k \in 1 .. n : j < k => <<p[j], p[k]>> \in T
<1> DEFINE place == [i \in 1 .. n |-> Cardinality(Under(i, T, n)) + 1]
<1>1. IsFiniteSet(1 .. n) /\ Cardinality(1 .. n) = n
  BY FS_Interval
<1>2. ASSUME NEW i \in 1 .. n
      PROVE  /\ IsFiniteSet(Under(i, T, n)) /\ Cardinality(Under(i, T, n)) \in Nat
             /\ Cardinality(Under(i, T, n)) < n
  <2>1. Under(i, T, n) \in SUBSET (1 .. n) /\ i \notin Under(i, T, n)
    BY DEF Under
  <2>2. Under(i, T, n) # 1 .. n
    BY <2>1
  <2>3. IsFiniteSet(Under(i, T, n)) /\ Cardinality(Under(i, T, n)) =< n
        /\ Cardinality(Under(i, T, n)) # n
    BY <1>1, <2>1, <2>2, FS_Subset
  <2>4. Cardinality(Under(i, T, n)) \in Nat
    BY <2>3, FS_CardinalityType
  <2> QED
    BY <2>3, <2>4
<1>3. ASSUME NEW i \in 1 .. n, NEW j \in 1 .. n, <<i, j>> \in T
      PROVE  Cardinality(Under(i, T, n)) < Cardinality(Under(j, T, n))
  <2>1. Under(i, T, n) \in SUBSET Under(j, T, n)
    BY <1>3 DEF Under
  <2>2. i \in Under(j, T, n) /\ i \notin Under(i, T, n)
    BY <1>3 DEF Under
  <2>3. Cardinality(Under(i, T, n)) =< Cardinality(Under(j, T, n))
        /\ Cardinality(Under(i, T, n)) # Cardinality(Under(j, T, n))
    BY <1>2, <2>1, <2>2, FS_Subset
  <2> QED
    BY <1>2, <2>3
<1>4. place \in [1 .. n -> 1 .. n]
  BY <1>2
<1>5. \A i, j \in 1 .. n : <<i, j>> \in T => place[i] < place[j]
  BY <1>2, <1>3
<1> HIDE DEF place
<1>6. ASSUME NEW i \in 1 .. n, NEW j \in 1 .. n, i # j PROVE place[i] # place[j]
  <2>1. place[i] \in Nat /\ place[j] \in Nat
    BY <1>4
  <2>2. <<i, j>> \in T \/ <<j, i>> \in T
    BY <1>6
  <2> QED
    BY <1>5, <2>1, <2>2
<1>7. place \in Injection(1 .. n, 1 .. n)
  BY <1>4, <1>6 DEF Injection, IsInjective
<1>8. place \in Surjection(1 .. n, 1 .. n)
  BY <1>1, <1>7, FS_Injection
<1>9. \A k \in 1 .. n : \E i \in 1 .. n : place[i] = k
  BY <1>8 DEF Surjection
<1> DEFINE p == [k \in 1 .. n |-> CHOOSE i \in 1 .. n : place[i] = k]
<1>10. \A k \in 1 .. n : p[k] \in 1 .. n /\ place[p[k]] = k
  BY <1>9
<1>11. p \in [1 .. n -> 1 .. n]
  BY <1>10
<1> HIDE DEF p
<1>12. \A i \in 1 .. n : p[place[i]] = i
  BY <1>4, <1>6, <1>10
<1>13. \A j, k \in 1 .. n : p[j] = p[k] => j = k
  BY <1>10
<1>14. p \in Bijection(1 .. n, 1 .. n)
  BY <1>4, <1>11, <1>12, <1>13 DEF Bijection, Injection, Surjection, IsInjective
<1>15. ASSUME NEW j \in 1 .. n, NEW k \in 1 .. n, j < k PROVE <<p[j], p[k]>> \in T
  <2>1. p[j] \in 1 .. n /\ p[k] \in 1 .. n /\ p[j] # p[k]
    BY <1>10, <1>15
  <2>2. <<p[k], p[j]>> \notin T
    BY <1>5, <1>10, <1>15, <2>1
  <2> QED
    BY <2>1, <2>2
<1> QED
  BY <1>14, <1>15

\* A comparison of the values at the positions up to n, given by the pairs it
\* holds of: never both ways, and of any third value it holds one way or the
\* other. So is any order with ties.
Comparison(L, n) ==
    /\ \A i, j \in 1 .. n : <<i, j>> \in L => <<j, i>> \notin L
    /\ \A i, j, k \in 1 .. n : <<i, k>> \in L => <<i, j>> \in L \/ <<j, k>> \in L

\* A comparison lays out any rows: what sort.SliceStable promises (Stably) is never
\* asked of it in vain.
THEOREM StableSortExists ==
    ASSUME NEW n \in Nat, NEW L, Comparison(L, n)
    PROVE  \E p \in Bijection(1 .. n, 1 .. n) : Stably(p, 1 .. n, L)
<1> DEFINE T == {q \in (1 .. n) \X (1 .. n) : q \in L \/ (q[1] < q[2] /\ <<q[2], q[1]>> \notin L)}
<1>1. \A i, j \in 1 .. n : <<i, j>> \in T <=> <<i, j>> \in L \/ (i < j /\ <<j, i>> \notin L)
  OBVIOUS
<1> HIDE DEF T
<1>2. \A i, j \in 1 .. n : <<i, j>> \in T => <<j, i>> \notin T
  BY <1>1 DEF Comparison
<1>3. \A i, j \in 1 .. n : i # j => <<i, j>> \in T \/ <<j, i>> \in T
  BY <1>1
<1>4. ASSUME NEW i \in 1 .. n, NEW j \in 1 .. n, NEW k \in 1 .. n, <<i, j>> \in T, <<j, k>> \in T
      PROVE  <<i, k>> \in T
  <2>1. \/ <<i, j>> \in L
        \/ i < j /\ <<i, j>> \notin L /\ <<j, i>> \notin L
    BY <1>1, <1>4
  <2>2. \/ <<j, k>> \in L
        \/ j < k /\ <<j, k>> \notin L /\ <<k, j>> \notin L
    BY <1>1, <1>4
  <2>3. CASE <<i, j>> \in L
    <3>1. <<i, k>> \in L \/ <<k, j>> \in L
      BY <2>3 DEF Comparison
    <3>2. <<k, j>> \notin L
      BY <2>2 DEF Comparison
    <3> QED
      BY <1>1, <3>1, <3>2
  <2>4. CASE <<i, j>> \notin L /\ <<j, k>> \in L
    <3>1. <<j, i>> \in L \/ <<i, k>> \in L
      BY <2>4 DEF Comparison
    <3> QED
      BY <1>1, <2>1, <2>4, <3>1
  <2>5. CASE <<i, j>> \notin L /\ <<j, k>> \notin L
    <3>1. <<k, i>> \notin L
      BY <2>1, <2>2, <2>5 DEF Comparison
    <3>2. i < k
      BY <2>1, <2>2, <2>5
    <3> QED
      BY <1>1, <3>1, <3>2
  <2> QED
    BY <2>3, <2>4, <2>5
<1>5. PICK p \in Bijection(1 .. n, 1 .. n) : \A j, k \in 1 .. n : j < k => <<p[j], p[k]>> \in T
  BY <1>2, <1>3, <1>4, TotalOrderSorts
<1>6. \A j \in 1 .. n : p[j] \in 1 .. n
  BY Permutes
<1>7. ASSUME NEW j \in 1 .. n, NEW k \in 1 .. n, j < k
      PROVE  <<p[j], p[k]>> \in L \/ (p[j] < p[k] /\ <<p[k], p[j]>> \notin L)
  BY <1>1, <1>5, <1>6, <1>7
<1>8. Stably(p, 1 .. n, L)
  BY <1>7 DEF Stably
<1> QED
  BY <1>8

\* A permutation of positions that keeps their order leaves each where it is.
LEMMA IncreasingStays ==
    ASSUME NEW n \in Nat, NEW p \in Bijection(1 .. n, 1 .. n),
           \A j, k \in 1 .. n : j < k => p[j] < p[k]
    PROVE  \A k \in 1 .. n : p[k] = k
<1> DEFINE M == {k \in 1 .. n : p[k] # k}
<1> SUFFICES ASSUME M # {} PROVE FALSE
  OBVIOUS
<1>1. M \in SUBSET Nat
  OBVIOUS
<1>2. PICK k \in M : \A j \in M : k =< j
  <2> HIDE DEF M
  <2> QED
    BY <1>1, LeastNumber
<1>3. k \in 1 .. n /\ p[k] # k /\ p[k] \in 1 .. n
  <2>1. k \in 1 .. n /\ p[k] # k
    OBVIOUS
  <2>2. \A j \in 1 .. n : p[j] \in 1 .. n
    BY Permutes
  <2> QED
    BY <2>1, <2>2
<1>4. \A j \in 1 .. n : j < k => p[j] = j
  BY <1>2, <1>3
<1>5. p[k] > k
  <2>1. CASE p[k] < k
    <3>1. p[p[k]] = p[k]
      BY <1>3, <1>4, <2>1
    <3> QED
      BY <1>3, <2>1, <3>1, Permutes
  <2> QED
    BY <1>3, <2>1
<1>6. PICK m \in 1 .. n : p[m] = k
  BY <1>3, Permutes
<1>7. m # k /\ ~(m < k)
  BY <1>3, <1>4, <1>6
<1>8. p[k] < p[m]
  BY <1>3, <1>7
<1> QED
  BY <1>3, <1>5, <1>6, <1>8

\* What StableOrder chooses is such an order.
LEMMA StableOrderIs ==
    ASSUME NEW n \in Nat, NEW L, Comparison(L, n)
    PROVE  /\ StableOrder(1 .. n, L) \in Bijection(1 .. n, 1 .. n)
           /\ Stably(StableOrder(1 .. n, L), 1 .. n, L)
<1>1. \E p \in Bijection(1 .. n, 1 .. n) : Stably(p, 1 .. n, L)
  BY StableSortExists
<1> QED
  BY <1>1 DEF StableOrder

\* A finite set as a sequence has each element once.
LEMMA SetToSeqIs ==
    ASSUME NEW S, IsFiniteSet(S)
    PROVE  /\ Cardinality(S) \in Nat
           /\ SetToSeq(S) \in Bijection(1 .. Cardinality(S), S)
<1>1. Cardinality(S) \in Nat /\ \E f : f \in Bijection(1 .. Cardinality(S), S)
  BY FS_CardinalityType DEF ExistsBijection
<1>2. \E f \in [1 .. Cardinality(S) -> S] : IsInjective(f)
  BY <1>1 DEF Bijection, Injection
<1>3. SetToSeq(S) \in Injection(1 .. Cardinality(S), S)
  BY <1>2 DEF SetToSeq, Injection
<1>4. SetToSeq(S) \in Surjection(1 .. Cardinality(S), S)
  <2>1. IsFiniteSet(1 .. Cardinality(S)) /\ Cardinality(1 .. Cardinality(S)) = Cardinality(S)
    BY <1>1, FS_Interval
  <2> QED
    BY <1>3, <2>1, FS_Injection
<1> QED
  BY <1>1, <1>3, <1>4 DEF Bijection

\* A permutation of the positions of a sequence that has every element of a set
\* once leaves it such a sequence.
LEMMA PermutedBijection ==
    ASSUME NEW n \in Nat, NEW S, NEW s \in Bijection(1 .. n, S),
           NEW p \in Bijection(1 .. n, 1 .. n)
    PROVE  [k \in 1 .. n |-> s[p[k]]] \in Bijection(1 .. n, S)
<1> DEFINE r == [k \in 1 .. n |-> s[p[k]]]
<1>1. /\ s \in [1 .. n -> S]
      /\ \A j, k \in 1 .. n : s[j] = s[k] => j = k
      /\ \A e \in S : \E j \in 1 .. n : s[j] = e
  BY DEF Bijection, Injection, Surjection, IsInjective
<1>2. r \in [1 .. n -> S]
  <2>1. \A k \in 1 .. n : p[k] \in 1 .. n
    BY Permutes
  <2>2. \A k \in 1 .. n : s[p[k]] \in S
    BY <1>1, <2>1
  <2> QED
    BY <2>2
<1>3. ASSUME NEW j \in 1 .. n, NEW k \in 1 .. n, r[j] = r[k] PROVE j = k
  <2>1. p[j] \in 1 .. n /\ p[k] \in 1 .. n
    BY Permutes
  <2>2. p[j] = p[k]
    BY <1>1, <1>3, <2>1
  <2> QED
    BY <2>2, Permutes
<1>4. ASSUME NEW e \in S PROVE \E k \in 1 .. n : r[k] = e
  <2>1. PICK j \in 1 .. n : s[j] = e
    BY <1>1
  <2>2. PICK k \in 1 .. n : p[k] = j
    BY Permutes
  <2> QED
    BY <2>1, <2>2
<1> HIDE DEF r
<1>5. r \in Bijection(1 .. n, S)
  BY <1>2, <1>3, <1>4 DEF Bijection, Injection, Surjection, IsInjective
<1> QED
  BY <1>5 DEF r

\* The elements of a finite set of numbers, each once, in order.
LEMMA IncreasingIs ==
    ASSUME NEW S \in SUBSET Int, IsFiniteSet(S)
    PROVE  /\ Cardinality(S) \in Nat
           /\ Increasing(S) \in Bijection(1 .. Cardinality(S), S)
           /\ \A j, k \in 1 .. Cardinality(S) : j < k => Increasing(S)[j] < Increasing(S)[k]
<1> DEFINE n == Cardinality(S)
           s == SetToSeq(S)
           L == {q \in (1 .. n) \X (1 .. n) : s[q[1]] < s[q[2]]}
           p == StableOrder(1 .. n, L)
<1>1. n \in Nat /\ s \in Bijection(1 .. n, S)
  BY SetToSeqIs
<1>2. DOMAIN s = 1 .. n /\ (\A k \in 1 .. n : s[k] \in Int)
      /\ \A j, k \in 1 .. n : s[j] = s[k] => j = k
  BY <1>1 DEF Bijection, Injection, IsInjective
<1>3. Increasing(S) = [k \in 1 .. n |-> s[p[k]]]
  BY <1>2 DEF Increasing, Sorted, StableSort
<1> HIDE DEF s, n
<1>4. \A i, j \in 1 .. n : <<i, j>> \in L <=> s[i] < s[j]
  OBVIOUS
<1> HIDE DEF L
<1>5. Comparison(L, n)
  BY <1>2, <1>4 DEF Comparison
<1>6. p \in Bijection(1 .. n, 1 .. n) /\ Stably(p, 1 .. n, L)
  BY <1>1, <1>5, StableOrderIs
<1> HIDE DEF p
<1>7. Increasing(S) \in Bijection(1 .. n, S)
  BY <1>1, <1>3, <1>6, PermutedBijection
<1>8. ASSUME NEW j \in 1 .. n, NEW k \in 1 .. n, j < k PROVE s[p[j]] < s[p[k]]
  <2>1. /\ \A i \in 1 .. n : p[i] \in 1 .. n
        /\ \A h, i \in 1 .. n : p[h] = p[i] => h = i
    BY <1>1, <1>6, Permutes
  <2>2. ~(<<p[k], p[j]>> \in L)
    BY <1>5, <1>6, <1>8, <2>1 DEF Stably, Comparison
  <2> QED
    BY <1>2, <1>4, <1>8, <2>1, <2>2
<1> QED
  BY <1>1, <1>3, <1>7, <1>8 DEF n

\* The positions of what passes a test, in order.
LEMMA KeptIs ==
    ASSUME NEW n \in Nat, NEW K \in SUBSET (1 .. n)
    PROVE  /\ IsFiniteSet(K) /\ Cardinality(K) \in Nat
           /\ DOMAIN Increasing(K) = 1 .. Cardinality(K)
           /\ Increasing(K) \in Bijection(1 .. Cardinality(K), K)
           /\ \A j, k \in 1 .. Cardinality(K) : j < k => Increasing(K)[j] < Increasing(K)[k]
<1>1. IsFiniteSet(K)
  <2>1. IsFiniteSet(1 .. n)
    BY FS_Interval
  <2> QED
    BY <2>1, FS_Subset
<1>2. K \in SUBSET Int
  OBVIOUS
<1>3. /\ Cardinality(K) \in Nat
      /\ Increasing(K) \in Bijection(1 .. Cardinality(K), K)
      /\ \A j, k \in 1 .. Cardinality(K) : j < k => Increasing(K)[j] < Increasing(K)[k]
  BY <1>1, <1>2, IncreasingIs
<1> QED
  BY <1>1, <1>3 DEF Bijection, Injection

\* The models in the order of the library: no later one comes first.
LEMMA SortModelsIs ==
    ASSUME NEW n \in Nat, NEW items, DOMAIN items = 1 .. n,
           \A k \in 1 .. n : items[k].model.released \in Nat /\ items[k].model.id \in Nat
    PROVE  \E p \in Bijection(1 .. n, 1 .. n) :
              /\ sortModels(items) = [k \in 1 .. n |-> items[p[k]]]
              /\ \A j, k \in 1 .. n :
                    j < k => ~Newer(items[p[k]].model, items[p[j]].model)
<1> DEFINE L == {q \in (1 .. n) \X (1 .. n) : Newer(items[q[1]].model, items[q[2]].model)}
           p == StableOrder(1 .. n, L)
<1>1. sortModels(items) = [k \in 1 .. n |-> items[p[k]]]
  BY DEF sortModels, StableSort
<1>2. \A i, j \in 1 .. n : <<i, j>> \in L <=> Newer(items[i].model, items[j].model)
  OBVIOUS
<1> HIDE DEF L
<1>3. Comparison(L, n)
  <2>1. \A i, j \in 1 .. n : <<i, j>> \in L => <<j, i>> \notin L
    BY <1>2 DEF Newer
  <2>2. ASSUME NEW i \in 1 .. n, NEW j \in 1 .. n, NEW k \in 1 .. n, <<i, k>> \in L
        PROVE  <<i, j>> \in L \/ <<j, k>> \in L
    <3>1. Newer(items[i].model, items[k].model)
      BY <1>2, <2>2
    <3>2. Newer(items[i].model, items[j].model) \/ Newer(items[j].model, items[k].model)
      BY <3>1 DEF Newer
    <3> QED
      BY <1>2, <3>2
  <2> QED
    BY <2>1, <2>2 DEF Comparison
<1>4. p \in Bijection(1 .. n, 1 .. n) /\ Stably(p, 1 .. n, L)
  BY <1>3, StableOrderIs
<1> HIDE DEF p
<1>5. ASSUME NEW j \in 1 .. n, NEW k \in 1 .. n, j < k
      PROVE  ~Newer(items[p[k]].model, items[p[j]].model)
  <2>1. \A i \in 1 .. n : p[i] \in 1 .. n
    BY <1>4, Permutes
  <2>2. <<p[k], p[j]>> \notin L
    BY <1>3, <1>4, <1>5, <2>1 DEF Stably, Comparison
  <2> QED
    BY <1>2, <2>1, <2>2
<1> QED
  BY <1>1, <1>4, <1>5

\* sortAgents leaves the rows, in some order.
LEMMA SortAgentsIs ==
    ASSUME NEW n \in Nat, NEW items, DOMAIN items = 1 .. n,
           \A k \in 1 .. n : items[k].id \in Nat
    PROVE  \E p \in Bijection(1 .. n, 1 .. n) :
              sortAgents(items) = [k \in 1 .. n |-> items[p[k]]]
<1> DEFINE L == {q \in (1 .. n) \X (1 .. n) : items[q[1]].id < items[q[2]].id}
           p == StableOrder(1 .. n, L)
<1>1. sortAgents(items) = [k \in 1 .. n |-> items[p[k]]]
  BY DEF sortAgents, StableSort
<1>2. \A i, j \in 1 .. n : <<i, j>> \in L <=> items[i].id < items[j].id
  OBVIOUS
<1> HIDE DEF L
<1>3. Comparison(L, n)
  BY <1>2 DEF Comparison
<1>4. p \in Bijection(1 .. n, 1 .. n)
  BY <1>3, StableOrderIs
<1> QED
  BY <1>1, <1>4

\* The default view of the agents.
DefaultAgents == call.noun = "agents" /\ call.orderBy = ""

\* The found first, and otherwise as they were.
LEMMA GroupedIs ==
    ASSUME NEW n \in Nat, NEW recs, DOMAIN recs = 1 .. n, DefaultAgents
    PROVE  \E p \in Bijection(1 .. n, 1 .. n) :
              /\ Grouped(recs) = [k \in 1 .. n |-> recs[p[k]]]
              /\ \A j, k \in 1 .. n : j < k =>
                    \/ recordFound(recs[p[j]]) /\ ~recordFound(recs[p[k]])
                    \/ /\ recordFound(recs[p[j]]) <=> recordFound(recs[p[k]])
                       /\ p[j] < p[k]
<1> DEFINE L == {q \in (1 .. n) \X (1 .. n) : recordFound(recs[q[1]]) /\ ~recordFound(recs[q[2]])}
           p == StableOrder(1 .. n, L)
<1>1. Grouped(recs) = [k \in 1 .. n |-> recs[p[k]]]
  BY DEF Grouped, foundFirst, StableSort, DefaultAgents
<1>2. \A i, j \in 1 .. n : <<i, j>> \in L <=> recordFound(recs[i]) /\ ~recordFound(recs[j])
  OBVIOUS
<1> HIDE DEF L
<1>3. Comparison(L, n)
  BY <1>2 DEF Comparison
<1>4. p \in Bijection(1 .. n, 1 .. n) /\ Stably(p, 1 .. n, L)
  BY <1>3, StableOrderIs
<1> HIDE DEF p
<1>5. \A i \in 1 .. n : p[i] \in 1 .. n
  <2>1. p \in [1 .. n -> 1 .. n]
    BY <1>4 DEF Bijection, Injection
  <2> QED
    BY <2>1
<1>6. ASSUME NEW j \in 1 .. n, NEW k \in 1 .. n, j < k
      PROVE  \/ recordFound(recs[p[j]]) /\ ~recordFound(recs[p[k]])
             \/ /\ recordFound(recs[p[j]]) <=> recordFound(recs[p[k]])
                /\ p[j] < p[k]
  <2>1. <<p[j], p[k]>> \in L \/ (p[j] < p[k] /\ <<p[k], p[j]>> \notin L)
    BY <1>4, <1>6 DEF Stably
  <2> QED
    BY <1>2, <1>5, <2>1
<1> QED
  BY <1>1, <1>4, <1>6

\* orderRecords leaves the records, each once, those that come before others first,
\* and those the comparison leaves unordered as they were.
THEOREM OrderRecordsIs ==
    ASSUME LowerIsOfStrings, NEW n \in Nat, NEW recs, DOMAIN recs = 1 .. n,
           \A k \in 1 .. n : IsRecord(recs[k]), NEW key, NEW descending \in BOOLEAN
    PROVE  \E p \in Bijection(1 .. n, 1 .. n) :
              /\ orderRecords(recs, key, descending) = [k \in 1 .. n |-> recs[p[k]]]
              /\ \A j, k \in 1 .. n : j < k =>
                    \/ Before(recs[p[j]], recs[p[k]], key, descending)
                    \/ /\ p[j] < p[k]
                       /\ ~Before(recs[p[j]], recs[p[k]], key, descending)
                       /\ ~Before(recs[p[k]], recs[p[j]], key, descending)
<1> DEFINE L == {q \in (1 .. n) \X (1 .. n) : Before(recs[q[1]], recs[q[2]], key, descending)}
           p == StableOrder(1 .. n, L)
<1>1. orderRecords(recs, key, descending) = [k \in 1 .. n |-> recs[p[k]]]
  BY DEF orderRecords, StableSort
<1>2. \A i, j \in 1 .. n : <<i, j>> \in L <=> Before(recs[i], recs[j], key, descending)
  OBVIOUS
<1> HIDE DEF L
<1>3. Comparison(L, n)
  <2>1. ASSUME NEW i \in 1 .. n, NEW j \in 1 .. n, <<i, j>> \in L
        PROVE  <<j, i>> \notin L
    BY <1>2, <2>1, BeforeIsTotal
  <2>2. ASSUME NEW i \in 1 .. n, NEW j \in 1 .. n, NEW k \in 1 .. n, <<i, k>> \in L,
               <<i, j>> \notin L, <<j, k>> \notin L
        PROVE  FALSE
    <3>1. /\ Before(recs[i], recs[k], key, descending)
          /\ ~Before(recs[i], recs[j], key, descending)
          /\ ~Before(recs[j], recs[k], key, descending)
      BY <1>2, <2>2
    <3>2. ~Before(recs[j], recs[i], key, descending)
      BY <3>1, BeforeIsTransitive
    <3>3. KeyOf(recs[i], key) = KeyOf(recs[j], key) /\ recordID(recs[i]) = recordID(recs[j])
      BY <3>1, <3>2, BeforeIsTotal
    <3> QED
      BY <3>1, <3>3, BeforeByKeys
  <2> QED
    BY <2>1, <2>2 DEF Comparison
<1>4. p \in Bijection(1 .. n, 1 .. n) /\ Stably(p, 1 .. n, L)
  BY <1>3, StableOrderIs
<1> HIDE DEF p
<1>5. ASSUME NEW j \in 1 .. n, NEW k \in 1 .. n, j < k
      PROVE  \/ Before(recs[p[j]], recs[p[k]], key, descending)
             \/ /\ p[j] < p[k]
                /\ ~Before(recs[p[j]], recs[p[k]], key, descending)
                /\ ~Before(recs[p[k]], recs[p[j]], key, descending)
  <2>1. \A i \in 1 .. n : p[i] \in 1 .. n
    BY <1>4, Permutes
  <2>2. <<p[j], p[k]>> \in L \/ (p[j] < p[k] /\ <<p[k], p[j]>> \notin L)
    BY <1>4, <1>5 DEF Stably
  <2> QED
    BY <1>2, <2>1, <2>2
<1> QED
  BY <1>1, <1>4, <1>5

(***************************************************************************)
(* Records.                                                                *)
(***************************************************************************)

\* What is known of the rows of each noun.
IsModel(m) ==
    /\ m.id \in Strings /\ m.name \in Strings /\ m.context \in Int
    /\ m.input \in Int /\ m.output \in Int
    /\ m.released \in Strings /\ Lower[m.released] = m.released

IsModelRow(r) ==
    /\ r.provider \in Strings /\ r.canonical \in Ids \cup {<<>>}
    /\ IsModel(r.model)

IsAgentRow(r) == r \in [id : Strings, found : BOOLEAN, agent : Agents]

IsProviderRow(r) ==
    /\ r.id \in Strings /\ r.provider.name \in Strings
    /\ r.provider.env \in Seq(BOOLEAN) /\ IsFiniteSet(DOMAIN r.provider.models)

IsRow(r) == CASE call.noun = "agents" -> IsAgentRow(r)
              [] call.noun = "models" -> IsModelRow(r)
              [] call.noun = "providers" -> IsProviderRow(r)

\* The fields that are strings, of whatever noun.
Text == {"id", "provider", "name", "bin", "released", "canonical_id"}

\* A record that has an id, and whose fields are text or are not by their names.
IsTyped(r) ==
    /\ \A key \in DOMAIN r : /\ r[key] \in Value
                             /\ Missing(r[key]) \/ (r[key].type = "string" <=> key \in Text)
    /\ "id" \in DOMAIN r /\ r.id.type = "string"

\* What a string is as a value of a record.
LEMMA StrIs ==
    ASSUME LowerIsOfStrings, NEW s \in Strings
    PROVE  Str(s) \in Value /\ Str(s).type = "string"
BY DEF Str, Value, Types, LowerIsOfStrings

\* What a number and a length are.
LEMMA NumIs ==
    ASSUME NEW n \in Int
    PROVE  /\ Num(n) \in Value /\ Num(n).type # "string"
           /\ Sized(n) \in Value /\ Sized(n).type # "string"
BY DEF Num, Sized, Value, Types

\* What the values of the other types are.
LEMMA OthersAre ==
    /\ \A b \in BOOLEAN : Bool(b) \in Value /\ Bool(b).type # "string"
    /\ Nil \in Value /\ Missing(Nil) /\ Pointer \in Value /\ Missing(Pointer)
BY DEF Bool, Nil, Pointer, Value, Types, Missing

\* The record of an agent row is typed.
LEMMA AgentRecordIs ==
    ASSUME ConstantsAreCalls, NEW r, IsAgentRow(r)
    PROVE  IsTyped(agentRecord(r))
<1> DEFINE rec == agentRecord(r)
<1>1. /\ r.id \in Strings /\ r.agent.name \in Strings /\ r.agent.bin \in Strings
      /\ r.found \in BOOLEAN /\ r.agent.providers \in Int /\ r.agent.models \in Int
      /\ 0 \in Strings /\ LowerIsOfStrings
  BY DEF IsAgentRow, Agents, ConstantsAreCalls, LowerIsOfStrings
<1>2. /\ DOMAIN rec = {"id", "name", "bin", "found", "skills", "providers", "models"}
      /\ rec.id = Str(r.id) /\ rec.name = Str(r.agent.name)
      /\ rec.bin = Str(IF r.found THEN r.agent.bin ELSE 0) /\ rec.found = Bool(r.found)
      /\ rec.skills = Pointer /\ rec.providers = Sized(r.agent.providers)
      /\ rec.models = IF r.agent.models \in Count THEN Num(r.agent.models) ELSE Nil
  BY DEF agentRecord
<1> HIDE DEF rec
<1>3. /\ rec.id \in Value /\ rec.id.type = "string"
      /\ rec.name \in Value /\ rec.name.type = "string"
      /\ rec.bin \in Value /\ rec.bin.type = "string"
  BY <1>1, <1>2, StrIs
<1>4. /\ rec.found \in Value /\ rec.found.type # "string"
      /\ rec.skills \in Value /\ Missing(rec.skills)
      /\ rec.providers \in Value /\ rec.providers.type # "string"
      /\ rec.models \in Value /\ (rec.models.type # "string" \/ Missing(rec.models))
  BY <1>1, <1>2, NumIs, OthersAre
<1>5. IsTyped(rec)
  BY <1>2, <1>3, <1>4 DEF IsTyped, Text
<1> QED
  BY <1>5 DEF rec

\* The record of a model row is typed.
LEMMA ModelRecordIs ==
    ASSUME ConstantsAreCalls, NEW r, IsModelRow(r)
    PROVE  IsTyped(modelRecord(r))
<1> DEFINE rec == modelRecord(r)
           m == r.model
<1>1. /\ r.provider \in Strings /\ m.id \in Strings /\ m.name \in Strings /\ m.released \in Strings
      /\ m.context \in Int /\ m.input \in Int /\ m.output \in Int
      /\ r.canonical # <<>> => Rank[r.canonical] \in Strings
      /\ LowerIsOfStrings
  BY DEF IsModelRow, IsModel, ConstantsAreCalls
<1>2. /\ DOMAIN rec = {"id", "provider", "name", "context", "input", "output", "total",
                       "reasoning", "released", "canonical_id"}
      /\ rec.id = Str(m.id) /\ rec.provider = Str(r.provider) /\ rec.name = Str(m.name)
      /\ rec.released = Str(m.released)
      /\ rec.canonical_id = IF r.canonical = <<>> THEN Nil ELSE Str(Rank[r.canonical])
  BY DEF modelRecord
<1>3. /\ rec.context = Num(m.context) /\ rec.reasoning = Bool(m.reasoning)
      /\ rec.input \in {Num(m.input), Nil} /\ rec.output \in {Num(m.output), Nil}
      /\ rec.total \in {Num(m.input + m.output), Nil}
  BY DEF modelRecord, costValue, totalValue
<1> HIDE DEF rec, m
<1>4. /\ rec.id \in Value /\ rec.id.type = "string"
      /\ rec.provider \in Value /\ rec.provider.type = "string"
      /\ rec.name \in Value /\ rec.name.type = "string"
      /\ rec.released \in Value /\ rec.released.type = "string"
  BY <1>1, <1>2, StrIs
<1>5. rec.canonical_id \in Value /\ (rec.canonical_id.type = "string" \/ Missing(rec.canonical_id))
  BY <1>1, <1>2, StrIs, OthersAre
<1>6. /\ rec.context \in Value /\ rec.context.type # "string"
      /\ rec.reasoning \in Value /\ rec.reasoning.type # "string"
      /\ rec.input \in Value /\ (rec.input.type # "string" \/ Missing(rec.input))
      /\ rec.output \in Value /\ (rec.output.type # "string" \/ Missing(rec.output))
      /\ rec.total \in Value /\ (rec.total.type # "string" \/ Missing(rec.total))
  <2>1. m.input + m.output \in Int
    BY <1>1
  <2>2. Bool(m.reasoning) \in Value /\ Bool(m.reasoning).type # "string"
    BY DEF Bool, Value, Types
  <2> QED
    BY <1>1, <1>3, <2>1, <2>2, NumIs, OthersAre
<1>7. IsTyped(rec)
  BY <1>2, <1>4, <1>5, <1>6 DEF IsTyped, Text
<1> QED
  BY <1>7 DEF rec

\* The record of a provider row is typed.
LEMMA ProviderRecordIs ==
    ASSUME ConstantsAreCalls, NEW r, IsProviderRow(r)
    PROVE  IsTyped(providerRecord(r))
<1> DEFINE rec == providerRecord(r)
           p == r.provider
<1>1. /\ r.id \in Strings /\ p.name \in Strings /\ LowerIsOfStrings
      /\ Len(p.env) \in Int /\ Cardinality(DOMAIN p.models) \in Int
  BY FS_CardinalityType DEF IsProviderRow, ConstantsAreCalls
<1>2. /\ DOMAIN rec = {"id", "name", "set", "env", "present", "models"}
      /\ rec.id = Str(r.id) /\ rec.name = Str(p.name)
      /\ rec.set = providerSetField(p.env)
      /\ rec.env = Sized(Len(p.env)) /\ rec.present = Sized(Len(p.env))
      /\ rec.models = Sized(Cardinality(DOMAIN p.models))
  BY DEF providerRecord
<1> HIDE DEF rec, p
<1>3. /\ rec.id \in Value /\ rec.id.type = "string"
      /\ rec.name \in Value /\ rec.name.type = "string"
  BY <1>1, <1>2, StrIs
<1>4. rec.set \in Value /\ (rec.set.type # "string" \/ Missing(rec.set))
  <2>1. rec.set = IF p.env = <<>> THEN Nil ELSE Bool(TRUE \in ToSet(p.env))
    BY <1>2 DEF providerSetField
  <2>2. Bool(TRUE \in ToSet(p.env)) \in Value /\ Bool(TRUE \in ToSet(p.env)).type # "string"
    BY DEF Bool, Value, Types
  <2> QED
    BY <2>1, <2>2, OthersAre
<1>5. /\ rec.env \in Value /\ rec.env.type # "string"
      /\ rec.present \in Value /\ rec.present.type # "string"
      /\ rec.models \in Value /\ rec.models.type # "string"
  BY <1>1, <1>2, NumIs, OthersAre
<1>6. IsTyped(rec)
  BY <1>2, <1>3, <1>4, <1>5 DEF IsTyped, Text
<1> QED
  BY <1>6 DEF rec

\* What the invariants know of a typed record.
LEMMA TypedIsRecord ==
    ASSUME LowerIsOfStrings, NEW r, IsTyped(r)
    PROVE  /\ IsRecord(r)
           /\ \A key : value(r, key) \in Value
           /\ \A key : ~Missing(value(r, key)) => (value(r, key).type = "string" <=> key \in Text)
           /\ recordID(r) = r.id.n /\ r.id.n \in Nat
<1>1. \A key : /\ value(r, key) \in Value
               /\ ~Missing(value(r, key)) => (value(r, key).type = "string" <=> key \in Text)
  BY OthersAre DEF IsTyped, value
<1>2. recordID(r) = r.id.n
  BY DEF recordID, value, IsTyped
<1>3. recordID(r) \in Nat
  BY <1>1, RecordIDType DEF IsRecord
<1> QED
  BY <1>1, <1>2, <1>3 DEF IsRecord

\* There is a record for each row, and each is typed.
LEMMA RecordsAre ==
    ASSUME ConstantsAreCalls, call.noun \in {"agents", "models", "providers"},
           NEW n \in Nat, DOMAIN rows = 1 .. n, \A k \in 1 .. n : IsRow(rows[k])
    PROVE  DOMAIN Records = 1 .. n /\ \A k \in 1 .. n : IsTyped(Records[k])
<1>1. DOMAIN Records = 1 .. n
  BY DEF Records
<1>2. ASSUME NEW k \in 1 .. n PROVE IsTyped(Records[k])
  <2>1. CASE call.noun = "agents"
    <3>1. Records[k] = agentRecord(rows[k])
      BY <2>1 DEF Records
    <3> QED
      BY <2>1, <3>1, AgentRecordIs DEF IsRow
  <2>2. CASE call.noun = "models"
    <3>1. Records[k] = modelRecord(rows[k])
      BY <2>2 DEF Records
    <3> QED
      BY <2>2, <3>1, ModelRecordIs DEF IsRow
  <2>3. CASE call.noun = "providers"
    <3>1. Records[k] = providerRecord(rows[k])
      BY <2>3 DEF Records
    <3> QED
      BY <2>3, <3>1, ProviderRecordIs DEF IsRow
  <2> QED
    BY <2>1, <2>2, <2>3
<1> QED
  BY <1>1, <1>2

(***************************************************************************)
(* The order of the records.                                               *)
(***************************************************************************)

\* What the properties call missing is what orderKey does.
LEMMA MissingIsMissing ==
    ASSUME LowerIsOfStrings, NEW v \in Value
    PROVE  Missing(v) <=> orderKey(v) = orderMissing
BY DEF Missing, orderKey, orderMissing

\* What the properties compare values by is a number.
LEMMA SizeType ==
    ASSUME LowerIsOfStrings, NEW v \in Value
    PROVE  Size(v) \in Int
BY DEF Size, Value, LowerIsOfStrings

\* Values that are both text, or neither, compare by their sizes.
LEMMA ComparedBySize ==
    ASSUME LowerIsOfStrings, NEW v \in Value, NEW w \in Value, NEW descending \in BOOLEAN,
           ~Missing(v), ~Missing(w), v.type = "string" <=> w.type = "string"
    PROVE  /\ orderKey(v) = orderKey(w) => Size(v) = Size(w)
           /\ KeyBefore(orderKey(v), orderKey(w), descending) =>
                IF descending THEN Size(v) > Size(w) ELSE Size(v) < Size(w)
<1>1. /\ orderKey(v) = [kind |-> IF v.type = "string" THEN "str" ELSE "num", n |-> Size(v)]
      /\ orderKey(w) = [kind |-> IF w.type = "string" THEN "str" ELSE "num", n |-> Size(w)]
  BY DEF orderKey, Size, Missing
<1>2. Size(v) \in Int /\ Size(w) \in Int
  BY SizeType
<1>3. orderMissing \notin {orderKey(v), orderKey(w)}
  BY MissingIsMissing
<1>4. /\ orderKey(v).kind = orderKey(w).kind
      /\ orderKey(v).n = Size(v) /\ orderKey(w).n = Size(w)
      /\ orderKey(v) # orderKey(w) => Size(v) # Size(w)
  BY <1>1
<1>5. Below(orderKey(v), orderKey(w)) <=> Size(v) < Size(w)
  BY <1>4 DEF Below
<1> QED
  BY <1>2, <1>3, <1>4, <1>5 DEF KeyBefore

\* What MayPrecede says of two records, whichever they are.
Asked(r, s, key, descending, earlier) ==
    LET v == value(r, key)
        w == value(s, key)
    IN \/ Missing(w) /\ ~Missing(v)
       \/ Missing(w) = Missing(v)
            /\ \/ ~Missing(v) /\ (IF descending THEN Size(v) > Size(w) ELSE Size(v) < Size(w))
               \/ /\ Missing(v) \/ Size(v) = Size(w)
                  /\ r.id.n < s.id.n \/ (r.id.n = s.id.n /\ earlier)

\* A record that comes before another, or ties with it and was before it, stands
\* as asked.
LEMMA OrderIsAsked ==
    ASSUME LowerIsOfStrings, NEW r, NEW s, IsTyped(r), IsTyped(s), NEW key,
           NEW descending \in BOOLEAN, NEW earlier,
           \/ Before(r, s, key, descending)
           \/ earlier /\ ~Before(r, s, key, descending) /\ ~Before(s, r, key, descending)
    PROVE  Asked(r, s, key, descending, earlier)
<1> DEFINE v == value(r, key)
           w == value(s, key)
<1>1. /\ IsRecord(r) /\ recordID(r) = r.id.n /\ r.id.n \in Nat
      /\ IsRecord(s) /\ recordID(s) = s.id.n /\ s.id.n \in Nat
      /\ v \in Value /\ (~Missing(v) => (v.type = "string" <=> key \in Text))
      /\ w \in Value /\ (~Missing(w) => (w.type = "string" <=> key \in Text))
  BY TypedIsRecord
<1>2. KeyOf(r, key) = orderKey(v) /\ KeyOf(s, key) = orderKey(w)
  BY DEF KeyOf
<1>3. \/ /\ orderKey(v) # orderKey(w)
         /\ KeyBefore(orderKey(v), orderKey(w), descending)
      \/ /\ orderKey(v) = orderKey(w)
         /\ r.id.n < s.id.n \/ (r.id.n = s.id.n /\ earlier)
  BY <1>1, <1>2, BeforeByKeys, BeforeIsTotal
<1> HIDE DEF v, w
<1>4. (Missing(v) <=> orderKey(v) = orderMissing) /\ (Missing(w) <=> orderKey(w) = orderMissing)
  <2>1. v \in Value /\ w \in Value
    BY <1>1
  <2> QED
    BY <2>1, MissingIsMissing
<1>5. CASE ~Missing(v) /\ ~Missing(w)
  <2>1. /\ orderKey(v) = orderKey(w) => Size(v) = Size(w)
        /\ KeyBefore(orderKey(v), orderKey(w), descending) =>
             IF descending THEN Size(v) > Size(w) ELSE Size(v) < Size(w)
    <3>1. v.type = "string" <=> w.type = "string"
      BY <1>1, <1>5
    <3>2. v \in Value /\ w \in Value
      BY <1>1
    <3> QED
      BY <1>5, <3>1, <3>2, ComparedBySize
  <2>2. \/ IF descending THEN Size(v) > Size(w) ELSE Size(v) < Size(w)
        \/ /\ Size(v) = Size(w)
           /\ r.id.n < s.id.n \/ (r.id.n = s.id.n /\ earlier)
    BY <1>3, <2>1
  <2>3. Missing(v) = Missing(w)
    BY <1>5 DEF Missing
  <2> QED
    BY <1>5, <2>2, <2>3 DEF Asked, v, w
<1>6. CASE Missing(v) \/ Missing(w)
  <2>1. CASE orderKey(v) = orderKey(w)
    <3>1. Missing(v) /\ Missing(w)
      BY <1>4, <1>6, <2>1
    <3> QED
      BY <1>3, <2>1, <3>1 DEF Asked, v, w
  <2>2. CASE orderKey(v) # orderKey(w)
    <3>1. orderKey(w) = orderMissing /\ orderKey(v) # orderMissing
      BY <1>3, <1>4, <1>6, <2>2 DEF KeyBefore
    <3> QED
      BY <1>4, <3>1 DEF Asked, v, w
  <2> QED
    BY <2>1, <2>2
<1> QED
  BY <1>5, <1>6

\* The direction is the one the fields of the noun, and the call, give.
LEMMA Direction ==
    ASSUME call.noun \in {"agents", "models", "providers"}, Key \in FieldSet.all
    PROVE  (Key \in FieldSet.descend) <=> (Key = "released")
<1>1. CASE call.noun = "agents"
  BY <1>1 DEF FieldSet, agentFieldSet
<1>2. CASE call.noun = "models"
  BY <1>2 DEF FieldSet, modelFieldSet
<1>3. CASE call.noun = "providers"
  BY <1>3 DEF FieldSet, providerFieldSet
<1> QED
  BY <1>1, <1>2, <1>3

\* applyOrder leaves the records, each once, and any two as asked.
LEMMA ApplyOrderIs ==
    ASSUME ConstantsAreCalls, call.noun \in {"agents", "models", "providers"},
           call.reverse \in BOOLEAN, Key \in FieldSet.all,
           NEW n \in Nat, DOMAIN rows = 1 .. n, \A k \in 1 .. n : IsRow(rows[k])
    PROVE  \E p \in Bijection(1 .. n, 1 .. n) :
              /\ applyOrder(Records) = [k \in 1 .. n |-> Records[p[k]]]
              /\ \A j, k \in 1 .. n : j < k => MayPrecede(p[j], p[k])
<1>0. PICK down \in BOOLEAN : down = ((Key \in FieldSet.descend) # call.reverse)
  OBVIOUS
<1>1. LowerIsOfStrings
  BY DEF ConstantsAreCalls
<1>2. DOMAIN Records = 1 .. n /\ \A k \in 1 .. n : IsTyped(Records[k])
  BY RecordsAre
<1>3. \A k \in 1 .. n : IsRecord(Records[k])
  BY <1>1, <1>2, TypedIsRecord
<1>4. down \in BOOLEAN /\ down = ((Key = "released") # call.reverse)
  BY <1>0, Direction
<1> DEFINE recs == Records
<1>5. applyOrder(Records) = orderRecords(recs, Key, down)
  BY <1>0 DEF applyOrder
<1> HIDE DEF recs
<1>6. PICK p \in Bijection(1 .. n, 1 .. n) :
         /\ orderRecords(recs, Key, down) = [k \in 1 .. n |-> recs[p[k]]]
         /\ \A j, k \in 1 .. n : j < k =>
               \/ Before(recs[p[j]], recs[p[k]], Key, down)
               \/ /\ p[j] < p[k]
                  /\ ~Before(recs[p[j]], recs[p[k]], Key, down)
                  /\ ~Before(recs[p[k]], recs[p[j]], Key, down)
  <2>1. DOMAIN recs = 1 .. n /\ \A k \in 1 .. n : IsRecord(recs[k])
    BY <1>2, <1>3 DEF recs
  <2>2. down \in BOOLEAN
    BY <1>4
  <2>3. ASSUME NEW b \in BOOLEAN PROVE \E p \in Bijection(1 .. n, 1 .. n) :
           /\ orderRecords(recs, Key, b) = [k \in 1 .. n |-> recs[p[k]]]
           /\ \A j, k \in 1 .. n : j < k =>
               \/ Before(recs[p[j]], recs[p[k]], Key, b)
               \/ /\ p[j] < p[k]
                  /\ ~Before(recs[p[j]], recs[p[k]], Key, b)
                  /\ ~Before(recs[p[k]], recs[p[j]], Key, b)
    BY <1>1, <2>1, OrderRecordsIs, SMTT(30)
  <2> QED
    BY <2>2, <2>3
<1>7. ASSUME NEW j \in 1 .. n, NEW k \in 1 .. n, j < k PROVE MayPrecede(p[j], p[k])
  <2>1. p[j] \in 1 .. n /\ p[k] \in 1 .. n
    <3>1. \A i \in 1 .. n : p[i] \in 1 .. n
      BY Permutes
    <3> QED
      BY <3>1
  <2>2. IsTyped(recs[p[j]]) /\ IsTyped(recs[p[k]])
    BY <1>2, <2>1 DEF recs
  <2>3. Asked(recs[p[j]], recs[p[k]], Key, down, p[j] < p[k])
    BY <1>1, <1>4, <1>6, <1>7, <2>2, OrderIsAsked
  <2> QED
    BY <1>4, <2>3 DEF Asked, MayPrecede, recs
<1> QED
  BY <1>5, <1>6, <1>7 DEF recs

\* No later release comes first.
ByRelease == \A j, k \in DOMAIN rows : j < k => ~Newer(rows[k].model, rows[j].model)

\* The default view of the models.
DefaultModels == call.noun = "models" /\ call.orderBy = "" /\ ~call.reverse

\* Sorting rows that are in the library's order by release again moves none.
LEMMA DefaultStays ==
    ASSUME ConstantsAreCalls, DefaultModels, NEW n \in Nat, DOMAIN rows = 1 .. n,
           \A k \in 1 .. n : IsRow(rows[k]), ByRelease
    PROVE  applyOrder(Records) = Records
<1> DEFINE recs == Records
<1>1. LowerIsOfStrings
  BY DEF ConstantsAreCalls
<1>2. DOMAIN recs = 1 .. n /\ \A k \in 1 .. n : IsRecord(recs[k])
  <2>1. DOMAIN Records = 1 .. n /\ \A k \in 1 .. n : IsTyped(Records[k])
    BY RecordsAre DEF DefaultModels
  <2> QED
    BY <1>1, <2>1, TypedIsRecord
<1>3. \A k \in 1 .. n :
         LET m == rows[k].model
         IN /\ m.released \in Nat /\ m.id \in Nat /\ Lower[m.released] = m.released
            /\ value(recs[k], "id") = Str(m.id) /\ value(recs[k], "released") = Str(m.released)
  <2> SUFFICES ASSUME NEW k \in 1 .. n
      PROVE  LET m == rows[k].model
             IN /\ m.released \in Nat /\ m.id \in Nat /\ Lower[m.released] = m.released
                /\ value(recs[k], "id") = Str(m.id) /\ value(recs[k], "released") = Str(m.released)
    OBVIOUS
  <2>1. IsModelRow(rows[k]) /\ recs[k] = modelRecord(rows[k])
    BY DEF IsRow, Records, DefaultModels
  <2>2. LET m == rows[k].model
        IN /\ m.released \in Nat /\ m.id \in Nat /\ Lower[m.released] = m.released
    BY <1>1, <2>1 DEF IsModelRow, IsModel, LowerIsOfStrings
  <2>3. /\ "id" \in DOMAIN modelRecord(rows[k]) /\ "released" \in DOMAIN modelRecord(rows[k])
        /\ modelRecord(rows[k]).id = Str(rows[k].model.id)
        /\ modelRecord(rows[k]).released = Str(rows[k].model.released)
    BY DEF modelRecord
  <2> QED
    BY <2>1, <2>2, <2>3 DEF value
<1>4. applyOrder(recs) = orderRecords(recs, "released", TRUE)
  BY DEF applyOrder, Key, FieldSet, modelFieldSet, DefaultModels
<1> HIDE DEF recs
<1>5. ASSUME NEW i \in 1 .. n, NEW j \in 1 .. n
      PROVE  Before(recs[i], recs[j], "released", TRUE) <=> Newer(rows[i].model, rows[j].model)
  BY <1>3, OneReleaseOrder
<1>6. PICK p \in Bijection(1 .. n, 1 .. n) :
         /\ orderRecords(recs, "released", TRUE) = [k \in 1 .. n |-> recs[p[k]]]
         /\ \A j, k \in 1 .. n : j < k =>
               \/ Before(recs[p[j]], recs[p[k]], "released", TRUE)
               \/ /\ p[j] < p[k]
                  /\ ~Before(recs[p[j]], recs[p[k]], "released", TRUE)
                  /\ ~Before(recs[p[k]], recs[p[j]], "released", TRUE)
  BY <1>1, <1>2, OrderRecordsIs
<1>7. /\ \A i \in 1 .. n : p[i] \in 1 .. n
      /\ \A i, j \in 1 .. n : p[i] = p[j] => i = j
  BY DEF Bijection, Injection, IsInjective
<1>8. ASSUME NEW j \in 1 .. n, NEW k \in 1 .. n, j < k PROVE p[j] < p[k]
  <2>1. p[j] \in 1 .. n /\ p[k] \in 1 .. n /\ p[j] # p[k]
    <3>1. p[j] \in 1 .. n /\ p[k] \in 1 .. n
      BY <1>7
    <3>2. j # k
      BY <1>8
    <3> QED
      BY <1>7, <3>1, <3>2
  <2>2. CASE p[k] < p[j]
    <3>1. ~Newer(rows[p[j]].model, rows[p[k]].model)
      BY <2>1, <2>2 DEF ByRelease
    <3>2. ~Before(recs[p[j]], recs[p[k]], "released", TRUE)
      BY <1>5, <2>1, <3>1
    <3> QED
      BY <1>6, <1>8, <3>2
  <2>3. p[j] \in Int /\ p[k] \in Int
    BY <2>1
  <2> QED
    BY <2>1, <2>2, <2>3
<1>9. \A k \in 1 .. n : p[k] = k
  BY <1>8, IncreasingStays
<1>10. [k \in 1 .. n |-> recs[p[k]]] = [k \in 1 .. n |-> recs[k]]
  BY <1>9
<1>11. [k \in 1 .. n |-> recs[k]] = recs
  <2>1. Records \in [DOMAIN rows -> {Records[k] : k \in DOMAIN rows}]
    BY DEF Records
  <2>2. Records = [k \in DOMAIN Records |-> Records[k]]
    BY <2>1
  <2> QED
    BY <1>2, <2>2 DEF recs
<1> QED
  BY <1>4, <1>6, <1>10, <1>11 DEF recs

\* The key leads, and every other column stays.
LEMMA OrderColumnsIs ==
    ASSUME NEW S, NEW cols \in Seq(S), NEW key \in S
    PROVE  /\ orderColumns(cols, key) \in Seq(S)
           /\ orderColumns(cols, key)[1] = key
           /\ ToSet(orderColumns(cols, key)) = {key} \cup ToSet(cols)
<1> DEFINE n == Len(cols)
           K == {k \in 1 .. n : cols[k] # key}
           kept == Increasing(K)
           rest == [k \in 1 .. Cardinality(K) |-> cols[kept[k]]]
<1>1. n \in Nat /\ DOMAIN cols = 1 .. n /\ \A k \in 1 .. n : cols[k] \in S
  OBVIOUS
<1>2. K \in SUBSET (1 .. n)
  OBVIOUS
<1> HIDE DEF n
<1>3. /\ Cardinality(K) \in Nat /\ DOMAIN kept = 1 .. Cardinality(K)
      /\ kept \in Bijection(1 .. Cardinality(K), K)
  BY <1>1, <1>2, KeptIs
<1>4. /\ \A k \in 1 .. Cardinality(K) : kept[k] \in K
      /\ \A i \in K : \E k \in 1 .. Cardinality(K) : kept[k] = i
  BY <1>3 DEF Bijection, Injection, Surjection
<1>5. orderColumns(cols, key) = <<key>> \o rest
  BY <1>1, <1>3 DEF orderColumns, Where
<1>6. \A i \in K : i \in 1 .. n /\ cols[i] # key /\ cols[i] \in S
  BY <1>1
<1>7. \A i \in 1 .. n : cols[i] # key => i \in K
  OBVIOUS
<1> DEFINE c == Cardinality(K)
<1>8. c \in Nat /\ rest = [k \in 1 .. c |-> cols[kept[k]]]
  BY <1>3
<1> HIDE DEF K, kept, c, rest
<1>9. rest \in [1 .. c -> S]
  BY <1>4, <1>6, <1>8 DEF c
<1>10. rest \in Seq(S) /\ Len(rest) = c
  BY <1>8, <1>9
<1> DEFINE all == <<key>> \o rest
<1>11. /\ all \in Seq(S) /\ DOMAIN all = 1 .. c + 1 /\ all[1] = key
       /\ \A k \in 1 .. c : all[k + 1] = rest[k]
  BY <1>8, <1>10
<1> HIDE DEF all
<1>14. key \in ToSet(all)
  <2>1. 1 \in DOMAIN all /\ all[1] = key
    BY <1>8, <1>11
  <2> QED
    BY <2>1 DEF ToSet
<1>12. ASSUME NEW i \in 1 .. n PROVE cols[i] \in ToSet(all)
  <2>1. CASE cols[i] = key
    BY <1>14, <2>1
  <2>2. CASE cols[i] # key
    <3>1. PICK k \in 1 .. c : kept[k] = i
      BY <1>4, <1>7, <2>2 DEF c
    <3>2. all[k + 1] = cols[i] /\ k + 1 \in DOMAIN all
      BY <1>8, <1>11, <3>1
    <3> QED
      BY <3>2 DEF ToSet
  <2> QED
    BY <2>1, <2>2
<1>13. ASSUME NEW i \in DOMAIN all PROVE all[i] = key \/ all[i] \in ToSet(cols)
  <2>1. CASE i = 1
    BY <1>11, <2>1
  <2>2. CASE i # 1
    <3>1. i - 1 \in 1 .. c /\ i = (i - 1) + 1
      BY <1>8, <1>11, <2>2
    <3>2. all[i] = cols[kept[i - 1]]
      BY <1>8, <1>11, <3>1
    <3>3. kept[i - 1] \in 1 .. n
      BY <1>4, <1>6, <3>1 DEF c
    <3> QED
      BY <1>1, <3>2, <3>3 DEF ToSet
  <2> QED
    BY <2>1, <2>2
<1>15. ToSet(all) = {key} \cup ToSet(cols)
  <2>1. \A e \in ToSet(cols) : e \in ToSet(all)
    BY <1>1, <1>12 DEF ToSet
  <2>2. \A e \in ToSet(all) : e = key \/ e \in ToSet(cols)
    BY <1>13 DEF ToSet
  <2> QED
    BY <1>14, <2>1, <2>2
<1> QED
  BY <1>5, <1>11, <1>15 DEF all

\* Insertion adds its element and loses none.
LEMMA InsertAtIs ==
    ASSUME NEW S, NEW s \in Seq(S), NEW k \in 1 .. Len(s) + 1, NEW e \in S
    PROVE  /\ InsertAt(s, k, e) \in Seq(S)
           /\ ToSet(InsertAt(s, k, e)) = ToSet(s) \cup {e}
<1> DEFINE n == Len(s)
           before == SubSeq(s, 1, k - 1)
           after == SubSeq(s, k, n)
           head == before \o <<e>>
           all == head \o after
<1>1. n \in Nat /\ k \in Int /\ 1 =< k /\ k =< n + 1 /\ DOMAIN s = 1 .. n
  OBVIOUS
<1>2. before \in Seq(S) /\ Len(before) = k - 1 /\ \A i \in 1 .. k - 1 : before[i] = s[i]
  <2>1. \A i \in 1 .. k - 1 : s[i] \in S
    BY <1>1
  <2> QED
    BY <1>1, <2>1, SubSeqProperties
<1>3. /\ after \in Seq(S) /\ Len(after) = n - k + 1
      /\ \A i \in 1 .. n - k + 1 : after[i] = s[k + i - 1]
  <2>1. \A i \in k .. n : s[i] \in S
    BY <1>1
  <2> QED
    BY <1>1, <2>1, SubSeqProperties
<1>4. <<e>> \in Seq(S) /\ Len(<<e>>) = 1 /\ <<e>>[1] = e
  OBVIOUS
<1> HIDE DEF n, before, after
<1>5. /\ head \in Seq(S) /\ Len(head) = k /\ head[k] = e
      /\ \A i \in 1 .. k - 1 : head[i] = s[i]
  BY <1>1, <1>2, <1>4, ConcatProperties
<1> HIDE DEF head
<1>6. /\ all \in Seq(S) /\ Len(all) = n + 1
      /\ \A i \in 1 .. n + 1 : all[i] = IF i =< k THEN head[i] ELSE after[i - k]
  <2>1. /\ all \in Seq(S) /\ Len(all) = Len(head) + Len(after)
        /\ \A i \in 1 .. Len(head) + Len(after) :
              all[i] = IF i =< Len(head) THEN head[i] ELSE after[i - Len(head)]
    BY <1>3, <1>5, ConcatProperties
  <2>2. Len(head) + Len(after) = n + 1
    BY <1>1, <1>3, <1>5
  <2> QED
    BY <1>5, <2>1, <2>2
<1> HIDE DEF all
<1>7. \A i \in 1 .. n + 1 : all[i] = IF i < k THEN s[i] ELSE IF i = k THEN e ELSE s[i - 1]
  <2> SUFFICES ASSUME NEW i \in 1 .. n + 1
      PROVE  all[i] = IF i < k THEN s[i] ELSE IF i = k THEN e ELSE s[i - 1]
    OBVIOUS
  <2>1. CASE i =< k
    BY <1>1, <1>5, <1>6, <2>1
  <2>2. CASE i > k
    <3>1. all[i] = after[i - k] /\ i - k \in 1 .. n - k + 1
      BY <1>1, <1>6, <2>2
    <3>2. k + (i - k) - 1 = i - 1
      BY <1>1
    <3> QED
      BY <1>1, <1>3, <2>2, <3>1, <3>2
  <2> QED
    BY <1>1, <2>1, <2>2
<1>8. DOMAIN all = 1 .. n + 1
  BY <1>6
<1>9. \A i \in 1 .. n : s[i] \in ToSet(all)
  <2> SUFFICES ASSUME NEW i \in 1 .. n PROVE s[i] \in ToSet(all)
    OBVIOUS
  <2>1. CASE i < k
    BY <1>1, <1>7, <1>8, <2>1 DEF ToSet
  <2>2. CASE i >= k
    <3>1. all[i + 1] = s[i] /\ i + 1 \in DOMAIN all
      BY <1>1, <1>7, <1>8, <2>2
    <3> QED
      BY <3>1 DEF ToSet
  <2> QED
    BY <1>1, <2>1, <2>2
<1>10. e \in ToSet(all)
  <2>1. all[k] = e /\ k \in DOMAIN all
    BY <1>1, <1>7, <1>8
  <2> QED
    BY <2>1 DEF ToSet
<1>11. \A i \in 1 .. n + 1 : all[i] = e \/ all[i] \in ToSet(s)
  <2> SUFFICES ASSUME NEW i \in 1 .. n + 1 PROVE all[i] = e \/ all[i] \in ToSet(s)
    OBVIOUS
  <2>1. i < k => i \in DOMAIN s
    BY <1>1
  <2>2. i > k => i - 1 \in DOMAIN s
    BY <1>1
  <2>3. i < k \/ i = k \/ i > k
    BY <1>1
  <2> QED
    BY <1>7, <2>1, <2>2, <2>3 DEF ToSet
<1>12. ToSet(all) = ToSet(s) \cup {e}
  <2>1. \A x \in ToSet(s) : x \in ToSet(all)
    BY <1>1, <1>9 DEF ToSet
  <2>2. \A x \in ToSet(all) : x = e \/ x \in ToSet(s)
    BY <1>8, <1>11 DEF ToSet
  <2> QED
    BY <1>10, <2>1, <2>2
<1> QED
  BY <1>6, <1>12 DEF all, head, before, after, n, InsertAt

\* The default columns of the models and the provider.
Columns == {"id", "provider", "name", "context", "input", "output"}

\* The columns of a listing of several providers are the defaults and "provider".
LEMMA InsertProvider ==
    LET cols == insertAfter(modelFieldSet.defaults, "id", "provider")
    IN cols \in Seq(Columns) /\ ToSet(cols) = Columns
<1> DEFINE d == <<"id", "name", "context", "input", "output">>
<1>1. modelFieldSet.defaults = d
  BY DEF modelFieldSet
<1>2. ~Contains(d, "provider")
  BY DEF Contains
<1>3. SelectInSeq(d, LAMBDA c : c = "id") = 1
  <2>1. {i \in 1 .. Len(d) : d[i] = "id"} = {1}
    OBVIOUS
  <2>2. Min({1}) = 1
    BY DEF Min
  <2> QED
    BY <2>1, <2>2 DEF SelectInSeq
<1>4. insertAfter(d, "id", "provider") = InsertAt(d, 2, "provider")
  BY <1>2, <1>3 DEF insertAfter
<1>5. d \in Seq(Columns) /\ Len(d) = 5 /\ "provider" \in Columns
  BY DEF Columns
<1>6. ToSet(d) = {"id", "name", "context", "input", "output"}
  BY DEF ToSet
<1> HIDE DEF d
<1>7. /\ InsertAt(d, 2, "provider") \in Seq(Columns)
      /\ ToSet(InsertAt(d, 2, "provider")) = ToSet(d) \cup {"provider"}
  <2>1. 2 \in 1 .. Len(d) + 1
    BY <1>5
  <2>2. \A s \in Seq(Columns) : \A k \in 1 .. Len(s) + 1 : \A e \in Columns :
           /\ InsertAt(s, k, e) \in Seq(Columns)
           /\ ToSet(InsertAt(s, k, e)) = ToSet(s) \cup {e}
    BY InsertAtIs
  <2> QED
    BY <1>5, <2>1, <2>2
<1>8. ToSet(d) \cup {"provider"} = Columns
  BY <1>6 DEF Columns
<1> QED
  BY <1>1, <1>4, <1>7, <1>8

(***************************************************************************)
(* Columns, and what is printed.                                           *)
(***************************************************************************)

\* What may be listed.
Nouns == {"agents", "models", "providers"}

\* The default columns are fields, and "provider" is none of them.
LEMMA DefaultsAre ==
    ASSUME call.noun \in Nouns
    PROVE  /\ FieldSet.defaults \in Seq(FieldSet.all)
           /\ ToSet(FieldSet.defaults) \subseteq FieldSet.all
           /\ "provider" \notin ToSet(FieldSet.defaults)
<1>1. CASE call.noun = "agents"
  <2>1. FieldSet = agentFieldSet
    BY <1>1 DEF FieldSet
  <2>2. agentFieldSet.defaults \in Seq(agentFieldSet.all)
    BY DEF agentFieldSet
  <2>3. ToSet(agentFieldSet.defaults) = {"id", "name", "providers", "models", "bin"}
    BY DEF agentFieldSet, ToSet
  <2> QED
    BY <2>1, <2>2, <2>3 DEF agentFieldSet
<1>2. CASE call.noun = "models"
  <2>1. FieldSet = modelFieldSet
    BY <1>2 DEF FieldSet
  <2>2. modelFieldSet.defaults \in Seq(modelFieldSet.all)
    BY DEF modelFieldSet
  <2>3. ToSet(modelFieldSet.defaults) = {"id", "name", "context", "input", "output"}
    BY DEF modelFieldSet, ToSet
  <2> QED
    BY <2>1, <2>2, <2>3 DEF modelFieldSet
<1>3. CASE call.noun = "providers"
  <2>1. FieldSet = providerFieldSet
    BY <1>3 DEF FieldSet
  <2>2. providerFieldSet.defaults \in Seq(providerFieldSet.all)
    BY DEF providerFieldSet
  <2>3. ToSet(providerFieldSet.defaults) = {"id", "name", "set", "env", "models"}
    BY DEF providerFieldSet, ToSet
  <2> QED
    BY <2>1, <2>2, <2>3 DEF providerFieldSet
<1> QED
  BY <1>1, <1>2, <1>3 DEF Nouns

\* The columns when the user chose none: of a sort key and a set of defaults.
LEMMA ColumnsByKey ==
    ASSUME NEW S, NEW cols \in Seq(S), NEW key \in S
    PROVE  /\ orderColumns(cols, key)[1] = key
           /\ ToSet(orderColumns(cols, key)) \subseteq S
           /\ key # "provider" =>
                (Contains(orderColumns(cols, key), "provider") <=> "provider" \in ToSet(cols))
<1> DEFINE all == orderColumns(cols, key)
<1>1. all \in Seq(S) /\ all[1] = key /\ ToSet(all) = {key} \cup ToSet(cols)
  BY OrderColumnsIs
<1>2. ToSet(cols) \subseteq S
  BY DEF ToSet
<1> HIDE DEF all
<1>3. Contains(all, "provider") <=> "provider" \in ToSet(all)
  <2>1. DOMAIN all = 1 .. Len(all)
    BY <1>1
  <2> QED
    BY <2>1 DEF Contains, ToSet
<1> QED
  BY <1>1, <1>2, <1>3 DEF all

\* The columns are those chosen, or begin with the sort key and show the provider
\* exactly when the rows have several.
LEMMA TableColumnsAre ==
    ASSUME call.noun \in Nouns, Key \in FieldSet.all, ToSet(call.fields) \subseteq FieldSet.all
    PROVE  /\ ToSet(TableColumns) \subseteq FieldSet.all
           /\ call.fields # <<>> => TableColumns = call.fields
           /\ call.fields = <<>> =>
                /\ TableColumns[1] = Key
                /\ (call.noun = "models" /\ Key # "provider") =>
                     (Contains(TableColumns, "provider") <=> distinctProviders > 1)
<1> DEFINE all == FieldSet.all
<1>1. CASE call.fields # <<>>
  BY <1>1 DEF TableColumns
<1>2. CASE call.fields = <<>> /\ call.noun = "models" /\ distinctProviders > 1
  <2> DEFINE cols == insertAfter(FieldSet.defaults, "id", "provider")
  <2>1. FieldSet = modelFieldSet
    BY <1>2 DEF FieldSet
  <2>2. cols \in Seq(Columns) /\ ToSet(cols) = Columns
    BY <2>1, InsertProvider
  <2>3. Columns \subseteq all
    BY <2>1 DEF Columns, modelFieldSet
  <2>4. cols \in Seq(all) /\ "provider" \in ToSet(cols)
    BY <2>2, <2>3, SeqMonotonic DEF Columns
  <2>5. TableColumns = orderColumns(cols, Key)
    BY <1>2 DEF TableColumns
  <2> HIDE DEF cols, all
  <2>6. Key \in all
    BY DEF all
  <2>7. /\ orderColumns(cols, Key)[1] = Key
        /\ ToSet(orderColumns(cols, Key)) \subseteq all
        /\ Key # "provider" =>
             (Contains(orderColumns(cols, Key), "provider") <=> "provider" \in ToSet(cols))
    BY <2>4, <2>6, ColumnsByKey
  <2> QED
    BY <1>2, <2>4, <2>5, <2>7 DEF all
<1>3. CASE call.fields = <<>> /\ ~(call.noun = "models" /\ distinctProviders > 1)
  <2> DEFINE cols == FieldSet.defaults
  <2>1. cols \in Seq(all) /\ "provider" \notin ToSet(cols)
    BY DefaultsAre
  <2>2. TableColumns = orderColumns(cols, Key)
    BY <1>3 DEF TableColumns
  <2> HIDE DEF cols, all
  <2>3. Key \in all
    BY DEF all
  <2>4. /\ orderColumns(cols, Key)[1] = Key
        /\ ToSet(orderColumns(cols, Key)) \subseteq all
        /\ Key # "provider" =>
             (Contains(orderColumns(cols, Key), "provider") <=> "provider" \in ToSet(cols))
    BY <2>1, <2>3, ColumnsByKey
  <2> QED
    BY <1>3, <2>1, <2>2, <2>4 DEF all
<1> QED
  BY <1>1, <1>2, <1>3

\* What is printed.
Printed ==
    /\ Key \in FieldSet.all /\ ToSet(call.fields) \subseteq FieldSet.all
    /\ table = Grouped(applyOrder(Records)) /\ columns = TableColumns

\* A table is the records, each once, any two as asked, but for the agents found.
LEMMA TableIs ==
    ASSUME ConstantsAreCalls, call.noun \in Nouns, call.reverse \in BOOLEAN, Key \in FieldSet.all,
           NEW n \in Nat, DOMAIN rows = 1 .. n, \A k \in 1 .. n : IsRow(rows[k])
    PROVE  \E p \in Bijection(1 .. n, 1 .. n) :
              /\ Grouped(applyOrder(Records)) = [k \in 1 .. n |-> Records[p[k]]]
              /\ \A j, k \in 1 .. n : j < k =>
                    IF /\ DefaultAgents
                       /\ recordFound(Records[p[j]]) # recordFound(Records[p[k]])
                    THEN recordFound(Records[p[j]])
                    ELSE MayPrecede(p[j], p[k])
<1> DEFINE recs == Records
           sorted == applyOrder(Records)
<1>1. PICK p \in Bijection(1 .. n, 1 .. n) :
         /\ applyOrder(Records) = [k \in 1 .. n |-> Records[p[k]]]
         /\ \A j, k \in 1 .. n : j < k => MayPrecede(p[j], p[k])
  BY ApplyOrderIs DEF Nouns
<1>2. sorted = [k \in 1 .. n |-> recs[p[k]]]
  BY <1>1
<1>3. p \in [1 .. n -> 1 .. n]
  BY DEF Bijection, Injection
<1> HIDE DEF recs, sorted
<1>4. CASE ~DefaultAgents
  <2>1. Grouped(sorted) = sorted
    BY <1>4 DEF Grouped, DefaultAgents
  <2> QED
    BY <1>1, <1>2, <1>4, <2>1 DEF recs, sorted
<1>5. CASE DefaultAgents
  <2>1. DOMAIN sorted = 1 .. n
    BY <1>2
  <2>2. PICK q \in Bijection(1 .. n, 1 .. n) :
           /\ Grouped(sorted) = [k \in 1 .. n |-> sorted[q[k]]]
           /\ \A j, k \in 1 .. n : j < k =>
                 \/ recordFound(sorted[q[j]]) /\ ~recordFound(sorted[q[k]])
                 \/ /\ recordFound(sorted[q[j]]) <=> recordFound(sorted[q[k]])
                    /\ q[j] < q[k]
    BY <1>5, <2>1, GroupedIs
  <2>3. q \in [1 .. n -> 1 .. n]
    BY DEF Bijection, Injection
  <2> DEFINE pq == [k \in 1 .. n |-> p[q[k]]]
  <2>4. pq \in Bijection(1 .. n, 1 .. n)
    BY PermutedBijection
  <2>5. /\ pq \in [1 .. n -> 1 .. n] /\ \A k \in 1 .. n : pq[k] = p[q[k]]
        /\ \A k \in 1 .. n : q[k] \in 1 .. n /\ sorted[q[k]] = recs[pq[k]]
    BY <1>2, <1>3, <2>3
  <2> HIDE DEF pq
  <2>6. Grouped(sorted) = [k \in 1 .. n |-> recs[pq[k]]]
    BY <2>2, <2>5
  <2>7. ASSUME NEW j \in 1 .. n, NEW k \in 1 .. n, j < k
        PROVE  IF recordFound(recs[pq[j]]) # recordFound(recs[pq[k]])
               THEN recordFound(recs[pq[j]])
               ELSE MayPrecede(pq[j], pq[k])
    <3>1. \/ recordFound(recs[pq[j]]) /\ ~recordFound(recs[pq[k]])
          \/ /\ recordFound(recs[pq[j]]) <=> recordFound(recs[pq[k]])
             /\ q[j] < q[k]
      BY <2>2, <2>5, <2>7
    <3>2. q[j] < q[k] => MayPrecede(pq[j], pq[k])
      BY <1>1, <2>5
    <3> QED
      BY <3>1, <3>2 DEF recordFound
  <2> QED
    BY <1>5, <2>4, <2>6, <2>7 DEF recs, sorted
<1> QED
  BY <1>4, <1>5

(***************************************************************************)
(* The merge.                                                              *)
(***************************************************************************)

\* What a call is about.
LEMMA CallIs ==
    ASSUME ConstantsAreCalls, call \in Calls
    PROVE  /\ call.noun \in Nouns /\ call.reverse \in BOOLEAN
           /\ call.noun = "agents" =>
                /\ IsFiniteSet(DOMAIN call.agents) /\ DOMAIN call.agents \subseteq Strings
                /\ call.agents \in [DOMAIN call.agents -> Agents]
           /\ call.noun # "agents" => IsOffer(call.offer)
           /\ call.noun = "models" => /\ DOMAIN call.agnostic \subseteq Ids
                                      /\ call.providers \in Seq(Strings)
<1>1. IsCall(call)
  BY DEF ConstantsAreCalls
<1> QED
  BY <1>1 DEF IsCall, Nouns

\* What the data of a provider are.
LEMMA OfferIs ==
    ASSUME NEW offers, IsOffer(offers), NEW p \in DOMAIN offers
    PROVE  /\ p \in Strings
           /\ offers[p] \in Providers(offers[p].models)
           /\ offers[p].models \in [DOMAIN offers[p].models -> Models]
           /\ IsFiniteSet(DOMAIN offers[p].models) /\ DOMAIN offers[p].models \subseteq Ids
BY DEF IsOffer

\* A provider and a key make an id, which is cut into them again.
LEMMA CutBack ==
    ASSUME NEW p \in Strings, NEW key \in Seq(Strings), key # <<>>
    PROVE  LET id == <<p>> \o key
           IN /\ id \in Seq(Strings) /\ Len(id) > 1 /\ id # <<>>
              /\ Cut(id).provider = p /\ Cut(id).key = key
<1> DEFINE id == <<p>> \o key
<1>1. <<p>> \in Seq(Strings) /\ Len(<<p>>) = 1 /\ <<p>>[1] = p /\ Len(key) \in Nat \ {0}
  BY EmptySeq
<1>2. /\ id \in Seq(Strings) /\ Len(id) = 1 + Len(key)
      /\ \A i \in 1 .. 1 + Len(key) : id[i] = IF i =< 1 THEN <<p>>[i] ELSE key[i - 1]
  BY <1>1, ConcatProperties
<1> HIDE DEF id
<1>3. id # <<>> /\ Len(id) > 1
  BY <1>1, <1>2
<1>4. Head(id) = p
  BY <1>1, <1>2, <1>3
<1>5. Tail(id) \in Seq(Strings) /\ Len(Tail(id)) = Len(key)
      /\ \A i \in 1 .. Len(key) : Tail(id)[i] = key[i]
  BY <1>1, <1>2, <1>3, HeadTailProperties
<1>6. Tail(id) = key
  BY <1>5, SeqEqual
<1> QED
  BY <1>2, <1>3, <1>4, <1>6 DEF Cut, id

\* What an id is cut into makes that id again.
LEMMA CutAndBack ==
    ASSUME NEW id \in Seq(Strings), Len(id) > 1
    PROVE  /\ Cut(id).provider \in Strings /\ Cut(id).key \in Seq(Strings) /\ Cut(id).key # <<>>
           /\ id = <<Cut(id).provider>> \o Cut(id).key
<1> DEFINE t == Tail(id)
           back == <<Head(id)>> \o t
<1>1. id # <<>> /\ Len(id) \in Nat
  BY EmptySeq
<1>2. /\ Head(id) \in Strings /\ t \in Seq(Strings) /\ Len(t) = Len(id) - 1
      /\ \A i \in 1 .. Len(id) - 1 : t[i] = id[i + 1]
  BY <1>1, HeadTailProperties
<1>3. Head(id) = id[1] /\ t # <<>>
  <2>1. Len(t) # 0
    BY <1>1, <1>2
  <2>2. Head(id) = id[1]
    BY <1>1
  <2> QED
    BY <2>1, <2>2, EmptySeq
<1> HIDE DEF t
<1>4. <<Head(id)>> \in Seq(Strings) /\ Len(<<Head(id)>>) = 1 /\ <<Head(id)>>[1] = id[1]
  BY <1>2, <1>3
<1>5. /\ back \in Seq(Strings) /\ Len(back) = 1 + Len(t)
      /\ \A i \in 1 .. 1 + Len(t) : back[i] = IF i =< 1 THEN <<Head(id)>>[i] ELSE t[i - 1]
  BY <1>2, <1>4, ConcatProperties
<1> HIDE DEF back
<1>6. Len(back) = Len(id) /\ \A i \in 1 .. Len(id) : back[i] = id[i]
  BY <1>1, <1>2, <1>4, <1>5
<1>7. back = id
  BY <1>5, <1>6, SeqEqual
<1> QED
  BY <1>2, <1>3, <1>7 DEF Cut, back, t

\* A model as the merge leaves it while it has the ids in todo to reach.
EnrichedModel(c, p, key, todo) ==
    [c.offer[p].models[key] EXCEPT !.benchmarks =
        IF Composite(<<p>> \o key) /\ <<p>> \o key \in DOMAIN c.agnostic \ todo
        THEN c.agnostic[<<p>> \o key] ELSE @]

\* The offer o is the one of the call, with what has been merged so far.
IsMerged(c, o, todo) ==
    /\ DOMAIN o = DOMAIN c.offer
    /\ \A p \in DOMAIN c.offer :
         /\ "models" \in DOMAIN o[p]
         /\ DOMAIN o[p].models = DOMAIN c.offer[p].models
         /\ \A key \in DOMAIN c.offer[p].models :
               o[p].models[key] = EnrichedModel(c, p, key, todo)

\* With every id still to reach, the merge has changed nothing.
LEMMA MergedAtFirst ==
    ASSUME ConstantsAreCalls, call \in Calls, call.noun = "models"
    PROVE  IsMerged(call, call.offer, DOMAIN call.agnostic)
<1>1. IsOffer(call.offer)
  BY CallIs
<1>2. ASSUME NEW p \in DOMAIN call.offer
      PROVE  /\ "models" \in DOMAIN call.offer[p]
             /\ \A key \in DOMAIN call.offer[p].models :
                   call.offer[p].models[key] = EnrichedModel(call, p, key, DOMAIN call.agnostic)
  <2>1. /\ call.offer[p] \in Providers(call.offer[p].models)
        /\ call.offer[p].models \in [DOMAIN call.offer[p].models -> Models]
    BY <1>1, OfferIs
  <2>2. "models" \in DOMAIN call.offer[p]
    BY <2>1 DEF Providers
  <2>3. ASSUME NEW key \in DOMAIN call.offer[p].models
        PROVE  call.offer[p].models[key] = EnrichedModel(call, p, key, DOMAIN call.agnostic)
    <3> DEFINE m == call.offer[p].models[key]
    <3>1. m \in Models
      BY <2>1
    <3>2. EnrichedModel(call, p, key, DOMAIN call.agnostic) = [m EXCEPT !.benchmarks = m.benchmarks]
      BY DEF EnrichedModel
    <3> HIDE DEF m
    <3>3. [m EXCEPT !.benchmarks = m.benchmarks] = m
      BY <3>1 DEF Models
    <3> QED
      BY <3>2, <3>3 DEF m
  <2> QED
    BY <2>2, <2>3
<1> QED
  BY <1>2 DEF IsMerged

\* One more id leaves the others' models as they were, and enriches its own.
LEMMA MergedOneMore ==
    ASSUME ConstantsAreCalls, call \in Calls, call.noun = "models",
           pending \subseteq DOMAIN call.agnostic, IsMerged(call, offer, pending),
           NEW id \in pending, NEW o,
           o = IF ~Matches(id) THEN offer
               ELSE [offer EXCEPT ![Cut(id).provider].models[Cut(id).key].benchmarks =
                       call.agnostic[id]]
    PROVE  IsMerged(call, o, pending \ {id})
<1> DEFINE todo == pending \ {id}
           P == Cut(id).provider
           K == Cut(id).key
<1>1. id \in Seq(Strings) /\ id \in DOMAIN call.agnostic /\ IsOffer(call.offer)
  BY CallIs DEF ConstantsAreCalls
<1>2. ASSUME NEW p \in DOMAIN call.offer, NEW key \in DOMAIN call.offer[p].models
      PROVE  /\ Cut(<<p>> \o key).provider = p /\ Cut(<<p>> \o key).key = key
             /\ call.offer[p].models[key] \in Models
  <2>1. /\ p \in Strings /\ key \in Ids
        /\ call.offer[p].models \in [DOMAIN call.offer[p].models -> Models]
    BY <1>1, OfferIs
  <2>2. key \in Seq(Strings) /\ key # <<>>
    BY <2>1 DEF ConstantsAreCalls
  <2> QED
    BY <2>1, <2>2, CutBack
<1>3. DOMAIN offer = DOMAIN call.offer
  BY DEF IsMerged
<1>4. ASSUME NEW p \in DOMAIN call.offer
      PROVE  /\ "models" \in DOMAIN offer[p]
             /\ DOMAIN offer[p].models = DOMAIN call.offer[p].models
             /\ \A key \in DOMAIN call.offer[p].models :
                   offer[p].models[key] = EnrichedModel(call, p, key, pending)
  BY DEF IsMerged
<1>5. ASSUME NEW p \in DOMAIN call.offer, NEW key \in DOMAIN call.offer[p].models,
             <<p>> \o key # id \/ ~Composite(id)
      PROVE  EnrichedModel(call, p, key, pending) = EnrichedModel(call, p, key, todo)
  BY <1>5 DEF EnrichedModel
<1>6. CASE ~Matches(id)
  <2>1. ASSUME NEW p \in DOMAIN call.offer, NEW key \in DOMAIN call.offer[p].models
        PROVE  <<p>> \o key # id \/ ~Composite(id)
    <3>1. SUFFICES ASSUME <<p>> \o key = id PROVE ~Composite(id)
      OBVIOUS
    <3>2. Cut(id).provider = p /\ Cut(id).key = key
      BY <1>2, <3>1
    <3>3. Cut(id).provider \in DOMAIN offer /\ Cut(id).key \in DOMAIN offer[Cut(id).provider].models
      BY <1>3, <1>4, <3>2
    <3> QED
      BY <1>6, <3>3 DEF Matches
  <2>2. o = offer
    BY <1>6
  <2> QED
    BY <1>3, <1>4, <1>5, <2>1, <2>2 DEF IsMerged
<1>7. CASE Matches(id)
  <2> DEFINE b == call.agnostic[id]
  <2>1. P \in DOMAIN call.offer /\ K \in DOMAIN call.offer[P].models /\ Composite(id)
    <3>1. P \in DOMAIN offer /\ K \in DOMAIN offer[P].models /\ Composite(id)
      BY <1>7 DEF Matches
    <3> QED
      BY <1>3, <1>4, <3>1
  <2>2. id = <<P>> \o K
    BY <1>1, <2>1, CutAndBack DEF Composite
  <2>3. o = [offer EXCEPT ![P].models[K].benchmarks = b]
    BY <1>7
  <2> HIDE DEF P, K, b
  <2>4. DOMAIN o = DOMAIN call.offer
    BY <1>3, <2>3
  <2>5. ASSUME NEW p \in DOMAIN call.offer, p # P PROVE o[p] = offer[p]
    BY <1>3, <2>3, <2>5
  <2>6. o[P] = [offer[P] EXCEPT !.models[K].benchmarks = b]
    BY <1>3, <2>1, <2>3
  <2>7. o[P].models = [offer[P].models EXCEPT ![K].benchmarks = b] /\ "models" \in DOMAIN o[P]
    BY <1>4, <2>1, <2>6
  <2>8. DOMAIN o[P].models = DOMAIN call.offer[P].models
    BY <1>4, <2>1, <2>7
  <2>9. ASSUME NEW key \in DOMAIN call.offer[P].models, key # K
        PROVE  o[P].models[key] = offer[P].models[key]
    BY <1>4, <2>1, <2>7, <2>9
  <2>10. o[P].models[K] = [offer[P].models[K] EXCEPT !.benchmarks = b]
    BY <1>4, <2>1, <2>7
  <2>11. o[P].models[K] = EnrichedModel(call, P, K, todo)
    <3> DEFINE m == call.offer[P].models[K]
               was == offer[P].models[K]
    <3>1. m \in Models
      BY <1>2, <2>1
    <3>2. PICK x : was = [m EXCEPT !.benchmarks = x]
      <4> DEFINE x == IF Composite(<<P>> \o K) /\ <<P>> \o K \in DOMAIN call.agnostic \ pending
                      THEN call.agnostic[<<P>> \o K] ELSE m.benchmarks
      <4>1. was = EnrichedModel(call, P, K, pending)
        BY <1>4, <2>1
      <4>2. EnrichedModel(call, P, K, pending) = [m EXCEPT !.benchmarks = x]
        BY DEF EnrichedModel
      <4> HIDE DEF x, m, was
      <4> QED
        BY <4>1, <4>2
    <3>3. EnrichedModel(call, P, K, todo) = [m EXCEPT !.benchmarks = b]
      BY <1>1, <2>1, <2>2 DEF EnrichedModel, b
    <3> HIDE DEF m, was
    <3>4. [was EXCEPT !.benchmarks = b] = [m EXCEPT !.benchmarks = b]
      BY <3>1, <3>2 DEF Models
    <3> QED
      BY <2>10, <3>3, <3>4 DEF was
  <2>12. ASSUME NEW p \in DOMAIN call.offer, NEW key \in DOMAIN call.offer[p].models,
                p # P \/ key # K
         PROVE  <<p>> \o key # id
    <3>1. Cut(<<p>> \o key).provider = p /\ Cut(<<p>> \o key).key = key
      BY <1>2
    <3> QED
      BY <2>12, <3>1 DEF P, K
  <2>13. ASSUME NEW p \in DOMAIN call.offer
         PROVE  /\ "models" \in DOMAIN o[p]
                /\ DOMAIN o[p].models = DOMAIN call.offer[p].models
                /\ \A key \in DOMAIN call.offer[p].models :
                      o[p].models[key] = EnrichedModel(call, p, key, todo)
    <3>1. CASE p # P
      <4>1. ASSUME NEW key \in DOMAIN call.offer[p].models
            PROVE  o[p].models[key] = EnrichedModel(call, p, key, todo)
        BY <1>4, <1>5, <2>5, <2>12, <3>1
      <4> QED
        BY <1>4, <2>5, <3>1, <4>1
    <3>2. CASE p = P
      <4>1. ASSUME NEW key \in DOMAIN call.offer[P].models, key # K
            PROVE  o[P].models[key] = EnrichedModel(call, P, key, todo)
        BY <1>4, <1>5, <2>1, <2>9, <2>12, <4>1
      <4> QED
        BY <2>7, <2>8, <2>11, <3>2, <4>1
    <3> QED
      BY <3>1, <3>2
  <2> QED
    BY <2>4, <2>13 DEF IsMerged
<1> QED
  BY <1>6, <1>7

(***************************************************************************)
(* The rows of the library.                                                *)
(***************************************************************************)

\* The walk of dedupeIDs, position by position.
LEMMA DedupeIsFold ==
    ASSUME NEW n \in Nat, NEW ids, DOMAIN ids = 1 .. n
    PROVE  dedupeIDs(ids) = (CHOOSE f : Dedupes(f, ids, n))[1 .. n]
BY DEF dedupeIDs, FoldLeft, MapThenFoldSet, Dedupes, With, Prior

\* dedupeIDs keeps the ids it is given, each once, and no other.
LEMMA DedupeKeepsIds ==
    ASSUME NEW X, NEW ids \in Seq(X)
    PROVE  dedupeIDs(ids) \in Seq(X) /\ ToSet(dedupeIDs(ids)) = ToSet(ids) /\ Once(dedupeIDs(ids))
<1>1. PICK n \in Nat : DOMAIN ids = 1 .. n /\ ids \in [1 .. n -> X]
  BY Len(ids) \in Nat
<1> QED
  BY <1>1, DedupeIsFold, DedupeHas

\* csvTokens drops the empty ids and keeps the others.
LEMMA CsvTokensAre ==
    ASSUME NEW raw \in Seq(Strings)
    PROVE  csvTokens(raw) \in Seq(Strings) /\ ToSet(csvTokens(raw)) = ToSet(raw) \ {0}
<1> DEFINE n == Len(raw)
           K == {k \in 1 .. n : raw[k] # 0}
           kept == Increasing(K)
           c == Cardinality(K)
           out == [k \in 1 .. c |-> raw[kept[k]]]
<1>1. n \in Nat /\ DOMAIN raw = 1 .. n /\ \A k \in 1 .. n : raw[k] \in Strings
  OBVIOUS
<1>2. K \in SUBSET (1 .. n)
  OBVIOUS
<1> HIDE DEF n
<1>3. c \in Nat /\ DOMAIN kept = 1 .. c /\ kept \in Bijection(1 .. c, K)
  BY <1>1, <1>2, KeptIs
<1>4. /\ \A k \in 1 .. c : kept[k] \in K
      /\ \A i \in K : \E k \in 1 .. c : kept[k] = i
  BY <1>3 DEF Bijection, Injection, Surjection
<1>5. csvTokens(raw) = out
  BY <1>1, <1>3 DEF csvTokens, Where
<1>6. \A i \in K : i \in 1 .. n /\ raw[i] # 0 /\ raw[i] \in Strings
  BY <1>1
<1>7. \A i \in 1 .. n : raw[i] # 0 => i \in K
  OBVIOUS
<1> HIDE DEF K, kept, c
<1>8. \A k \in 1 .. c : out[k] = raw[kept[k]] /\ out[k] \in Strings /\ out[k] # 0
  BY <1>4, <1>6
<1>9. out \in Seq(Strings) /\ DOMAIN out = 1 .. c
  BY <1>3, <1>8
<1> HIDE DEF out
<1>10. \A e \in ToSet(out) : e \in ToSet(raw) /\ e # 0
  BY <1>1, <1>4, <1>6, <1>8, <1>9 DEF ToSet
<1>11. ASSUME NEW i \in 1 .. n, raw[i] # 0 PROVE raw[i] \in ToSet(out)
  <2>1. PICK k \in 1 .. c : kept[k] = i
    BY <1>4, <1>7, <1>11
  <2> QED
    BY <1>8, <1>9, <2>1 DEF ToSet
<1>12. ToSet(out) = ToSet(raw) \ {0}
  BY <1>1, <1>10, <1>11 DEF ToSet
<1> QED
  BY <1>5, <1>9, <1>12

\* The keys of a map with finitely many, each once.
LEMMA SortedKeysAre ==
    ASSUME LowerIsOfStrings, NEW m, IsFiniteSet(DOMAIN m), DOMAIN m \subseteq Strings
    PROVE  /\ Cardinality(DOMAIN m) \in Nat
           /\ sortedKeys(m) \in Bijection(1 .. Cardinality(DOMAIN m), DOMAIN m)
           /\ sortedKeys(m) \in Seq(Strings) /\ Once(sortedKeys(m))
           /\ ToSet(sortedKeys(m)) = DOMAIN m
<1> DEFINE D == DOMAIN m
           c == Cardinality(D)
           s == sortedKeys(m)
<1>1. D \in SUBSET Int
  <2>1. \A e \in Strings : e \in Int
    BY DEF LowerIsOfStrings
  <2>2. \A e \in D : e \in Int
    BY <2>1
  <2> HIDE DEF D
  <2> QED
    BY <2>2
<1>2. c \in Nat /\ s \in Bijection(1 .. c, D)
  BY <1>1, IncreasingIs DEF sortedKeys
<1> HIDE DEF D, c, s
<1>3. /\ s \in [1 .. c -> D]
      /\ \A j, k \in 1 .. c : s[j] = s[k] => j = k
      /\ \A e \in D : \E k \in 1 .. c : s[k] = e
  BY <1>2 DEF Bijection, Injection, Surjection, IsInjective
<1>4. s \in [1 .. c -> Strings]
  BY <1>3 DEF D
<1>5. s \in Seq(Strings) /\ DOMAIN s = 1 .. c
  BY <1>2, <1>4
<1>6. Once(s) /\ ToSet(s) = D
  BY <1>3, <1>5 DEF Once, ToSet
<1> QED
  BY <1>2, <1>5, <1>6 DEF s, c, D

\* The providers asked for, or all of them, each once.
LEMMA ScopeIs ==
    ASSUME ConstantsAreCalls, NEW asked \in Seq(Strings), call.providers = asked,
           IsFiniteSet(DOMAIN offer), DOMAIN offer \subseteq Strings
    PROVE  /\ Scope \in Seq(Strings) /\ Once(Scope)
           /\ ToSet(Scope) = IF ToSet(asked) \ {0} = {} THEN DOMAIN offer ELSE ToSet(asked) \ {0}
<1> DEFINE named == dedupeIDs(flattenProviders(asked))
<1>1. csvTokens(asked) \in Seq(Strings) /\ ToSet(csvTokens(asked)) = ToSet(asked) \ {0}
  BY CsvTokensAre
<1>2. /\ flattenProviders(asked) \in Seq(Strings)
      /\ ToSet(flattenProviders(asked)) = ToSet(asked) \ {0}
  BY <1>1, DedupeKeepsIds DEF flattenProviders
<1>3. named \in Seq(Strings) /\ Once(named) /\ ToSet(named) = ToSet(asked) \ {0}
  BY <1>2, DedupeKeepsIds
<1>4. Scope = IF named = <<>> THEN sortedKeys(offer) ELSE named
  BY DEF Scope
<1> HIDE DEF named
<1>5. named = <<>> <=> ToSet(named) = {}
  <2>1. ToSet(<<>>) = {}
    BY DEF ToSet
  <2>2. ASSUME named # <<>> PROVE ToSet(named) # {}
    <3>1. 1 \in DOMAIN named
      BY <1>3, <2>2
    <3> QED
      BY <3>1 DEF ToSet
  <2> QED
    BY <2>1, <2>2
<1>6. /\ sortedKeys(offer) \in Seq(Strings) /\ Once(sortedKeys(offer))
      /\ ToSet(sortedKeys(offer)) = DOMAIN offer
  BY SortedKeysAre DEF ConstantsAreCalls
<1> QED
  BY <1>3, <1>4, <1>5, <1>6

\* The steps of the two loops of modelsForProviders: finitely many, each once.
LEMMA InTurnIs ==
    ASSUME ConstantsAreCalls, NEW ids \in Seq(Strings), IsFiniteSet(DOMAIN offer),
           \A p \in DOMAIN offer : /\ IsFiniteSet(DOMAIN offer[p].models)
                                   /\ DOMAIN offer[p].models \subseteq Ids
    PROVE  /\ Cardinality(Steps(ids)) \in Nat
           /\ InTurn(ids) \in Bijection(1 .. Cardinality(Steps(ids)), Steps(ids))
<1> DEFINE S == Steps(ids)
           n == Cardinality(S)
           s == SetToSeq(S)
           L == {q \in (1 .. n) \X (1 .. n) : Sooner(s[q[1]], s[q[2]])}
           p == StableOrder(1 .. n, L)
<1>1. IsFiniteSet(S)
  <2> DEFINE some == {j \in DOMAIN ids : ids[j] \in DOMAIN offer}
             row(k) == {<<k, key>> : key \in DOMAIN offer[ids[k]].models}
             all == {row(k) : k \in some}
  <2>1. IsFiniteSet(some)
    <3>1. DOMAIN ids = 1 .. Len(ids) /\ Len(ids) \in Nat
      OBVIOUS
    <3>2. IsFiniteSet(DOMAIN ids)
      <4>1. IsFiniteSet(1 .. Len(ids))
        BY <3>1, FS_Interval
      <4> QED
        BY <3>1, <4>1
    <3>3. some \in SUBSET (DOMAIN ids)
      OBVIOUS
    <3> QED
      BY <3>2, <3>3, FS_Subset
  <2>2. IsFiniteSet(all)
    <3> DEFINE f == [k \in some |-> row(k)]
    <3>1. f \in Surjection(some, all)
      BY DEF Surjection
    <3> QED
      BY <2>1, <3>1, FS_Surjection
  <2>3. ASSUME NEW k \in some PROVE IsFiniteSet(row(k))
    <3> DEFINE keys == DOMAIN offer[ids[k]].models
               f == [key \in keys |-> <<k, key>>]
    <3>1. f \in Surjection(keys, row(k))
      BY DEF Surjection
    <3>2. IsFiniteSet(keys)
      OBVIOUS
    <3> QED
      BY <3>1, <3>2, FS_Surjection
  <2>4. \A T \in all : IsFiniteSet(T)
    BY <2>3
  <2>5. S = UNION all
    BY DEF Steps
  <2> QED
    BY <2>2, <2>4, <2>5, FS_UNION
<1>2. n \in Nat /\ s \in Bijection(1 .. n, S)
  BY <1>1, SetToSeqIs
<1>3. s \in [1 .. n -> S]
  BY <1>2 DEF Bijection, Injection
<1>4. InTurn(ids) = [k \in 1 .. n |-> s[p[k]]]
  BY <1>3 DEF InTurn, Sorted, StableSort
<1>5. \A e \in S : e[1] \in Nat /\ Rank[e[2]] \in Nat
  <2>1. ASSUME NEW e \in S PROVE e[1] \in Nat /\ e[2] \in Ids
    <3>1. PICK k \in DOMAIN ids, key \in Ids : e = <<k, key>>
      BY <2>1 DEF Steps
    <3> QED
      BY <3>1
  <2> QED
    BY <2>1 DEF ConstantsAreCalls, LowerIsOfStrings
<1> HIDE DEF S, s, n
<1>6. \A i, j \in 1 .. n : <<i, j>> \in L <=> Sooner(s[i], s[j])
  OBVIOUS
<1>7. \A i \in 1 .. n : s[i][1] \in Nat /\ Rank[s[i][2]] \in Nat
  BY <1>3, <1>5
<1> HIDE DEF L
<1>8. Comparison(L, n)
  <2>1. ASSUME NEW i \in 1 .. n, NEW j \in 1 .. n, <<i, j>> \in L PROVE <<j, i>> \notin L
    BY <1>6, <1>7, <2>1, SMTT(30) DEF Sooner
  <2>2. ASSUME NEW i \in 1 .. n, NEW j \in 1 .. n, NEW k \in 1 .. n, <<i, k>> \in L
        PROVE  <<i, j>> \in L \/ <<j, k>> \in L
    <3>1. Sooner(s[i], s[k])
      BY <1>6, <2>2
    <3>2. Sooner(s[i], s[j]) \/ Sooner(s[j], s[k])
      BY <1>7, <3>1 DEF Sooner
    <3> QED
      BY <1>6, <3>2
  <2> QED
    BY <2>1, <2>2 DEF Comparison
<1>9. p \in Bijection(1 .. n, 1 .. n)
  BY <1>2, <1>8, StableOrderIs
<1> HIDE DEF p
<1>10. InTurn(ids) \in Bijection(1 .. n, S)
  BY <1>2, <1>4, <1>9, PermutedBijection
<1> QED
  BY <1>2, <1>10 DEF S, n

\* The pairs of a provider in P and a key that the rows are to be of.
Pairs(P) == UNION {{<<p, key>> : key \in DOMAIN offer[p].models} : p \in P}

\* What a pair is made of.
LEMMA PairsAre ==
    ASSUME NEW P
    PROVE  /\ \A p \in P : \A key \in DOMAIN offer[p].models : <<p, key>> \in Pairs(P)
           /\ \A pair \in Pairs(P) : /\ pair = <<pair[1], pair[2]>> /\ pair[1] \in P
                                    /\ pair[2] \in DOMAIN offer[pair[1]].models
BY DEF Pairs

\* The loops of modelsForProviders reach each pair of a provider in ids once.
LEMMA PairsOnce ==
    ASSUME ConstantsAreCalls, NEW ids \in Seq(Strings), Once(ids), IsFiniteSet(DOMAIN offer),
           \A p \in DOMAIN offer : /\ IsFiniteSet(DOMAIN offer[p].models)
                                   /\ DOMAIN offer[p].models \subseteq Ids,
           NEW n \in Nat, n = Cardinality(Steps(ids)), NEW g,
           g = [i \in 1 .. n |-> <<ids[InTurn(ids)[i][1]], InTurn(ids)[i][2]>>]
    PROVE  g \in Bijection(1 .. n, Pairs(ToSet(ids) \cap DOMAIN offer))
<1> DEFINE S == Steps(ids)
           s == InTurn(ids)
           T == Pairs(ToSet(ids) \cap DOMAIN offer)
<1>1. s \in Bijection(1 .. n, S)
  BY InTurnIs
<1>2. /\ s \in [1 .. n -> S]
      /\ \A j, k \in 1 .. n : s[j] = s[k] => j = k
      /\ \A e \in S : \E k \in 1 .. n : s[k] = e
  BY <1>1 DEF Bijection, Injection, Surjection, IsInjective
<1>3. ASSUME NEW e \in S
      PROVE  /\ e[1] \in DOMAIN ids /\ ids[e[1]] \in DOMAIN offer
             /\ e[2] \in DOMAIN offer[ids[e[1]]].models
             /\ e = <<e[1], e[2]>>
  BY DEF Steps
<1>4. ASSUME NEW k \in DOMAIN ids, ids[k] \in DOMAIN offer, NEW key \in DOMAIN offer[ids[k]].models
      PROVE  <<k, key>> \in S
  BY <1>4 DEF Steps
<1> HIDE DEF S, s
<1>5. \A i \in 1 .. n : g[i] = <<ids[s[i][1]], s[i][2]>>
  BY DEF s
<1>6. ASSUME NEW i \in 1 .. n PROVE g[i] \in T
  <2>1. s[i] \in S
    BY <1>2
  <2>2. /\ s[i][1] \in DOMAIN ids /\ ids[s[i][1]] \in DOMAIN offer
        /\ s[i][2] \in DOMAIN offer[ids[s[i][1]]].models
    BY <1>3, <2>1
  <2>3. ids[s[i][1]] \in ToSet(ids) /\ s[i][2] \in Ids
    BY <2>2 DEF ToSet
  <2> DEFINE a == ids[s[i][1]]
             b == s[i][2]
  <2>4. a \in DOMAIN offer /\ b \in DOMAIN offer[a].models /\ b \in Ids /\ a \in ToSet(ids)
    BY <2>2, <2>3
  <2>5. g[i] = <<a, b>>
    BY <1>5
  <2> HIDE DEF a, b
  <2> QED
    BY <2>4, <2>5, PairsAre
<1>7. g \in [1 .. n -> T]
  BY <1>6
<1>8. ASSUME NEW i \in 1 .. n, NEW j \in 1 .. n, g[i] = g[j] PROVE i = j
  <2>1. s[i] \in S /\ s[j] \in S
    BY <1>2
  <2>2. ids[s[i][1]] = ids[s[j][1]] /\ s[i][2] = s[j][2]
    BY <1>5, <1>8
  <2>3. s[i][1] = s[j][1]
    BY <1>3, <2>1, <2>2 DEF Once
  <2>4. s[i] = s[j]
    BY <1>3, <2>1, <2>2, <2>3
  <2> QED
    BY <1>2, <2>4
<1>9. ASSUME NEW pair \in T PROVE \E i \in 1 .. n : g[i] = pair
  <2>1. /\ pair = <<pair[1], pair[2]>> /\ pair[1] \in DOMAIN offer
        /\ pair[2] \in DOMAIN offer[pair[1]].models /\ pair[1] \in ToSet(ids)
    BY PairsAre
  <2>2. PICK k \in DOMAIN ids : ids[k] = pair[1]
    BY <2>1 DEF ToSet
  <2>3. <<k, pair[2]>> \in S
    BY <1>4, <2>1, <2>2
  <2>4. PICK i \in 1 .. n : s[i] = <<k, pair[2]>>
    BY <1>2, <2>3
  <2> QED
    BY <1>5, <2>1, <2>2, <2>4
<1> HIDE DEF T
<1>10. g \in Bijection(1 .. n, T)
  BY <1>7, <1>8, <1>9, ZenonT(60) DEF Bijection, Injection, Surjection, IsInjective
<1> QED
  BY <1>10 DEF T

\* A bijection, read at a permutation of those of its positions whose values
\* are in a set, is one onto those values.
LEMMA PartBijection ==
    ASSUME NEW n \in Nat, NEW T, NEW g \in Bijection(1 .. n, T), NEW U \in SUBSET T,
           NEW c \in Nat, NEW K, K = {i \in 1 .. n : g[i] \in U}, NEW q \in Bijection(1 .. c, K)
    PROVE  [k \in 1 .. c |-> g[q[k]]] \in Bijection(1 .. c, U)
<1> DEFINE f == [k \in 1 .. c |-> g[q[k]]]
<1>1. /\ g \in [1 .. n -> T]
      /\ \A j, k \in 1 .. n : g[j] = g[k] => j = k
      /\ \A e \in T : \E k \in 1 .. n : g[k] = e
  BY DEF Bijection, Injection, Surjection, IsInjective
<1>2. /\ q \in [1 .. c -> K]
      /\ \A j, k \in 1 .. c : q[j] = q[k] => j = k
      /\ \A e \in K : \E k \in 1 .. c : q[k] = e
  BY DEF Bijection, Injection, Surjection, IsInjective
<1>3. /\ \A i \in K : i \in 1 .. n /\ g[i] \in U
      /\ \A i \in 1 .. n : g[i] \in U => i \in K
  OBVIOUS
<1>4. \A k \in 1 .. c : f[k] = g[q[k]] /\ q[k] \in K
  BY <1>2
<1>5. f \in [1 .. c -> U]
  BY <1>3, <1>4
<1> HIDE DEF f
<1>6. ASSUME NEW j \in 1 .. c, NEW k \in 1 .. c, f[j] = f[k] PROVE j = k
  BY <1>1, <1>2, <1>3, <1>4, <1>6
<1>7. ASSUME NEW e \in U PROVE \E k \in 1 .. c : f[k] = e
  <2>1. PICK i \in 1 .. n : g[i] = e
    BY <1>1
  <2>2. PICK k \in 1 .. c : q[k] = i
    BY <1>2, <1>3, <2>1
  <2> QED
    BY <1>4, <2>1, <2>2
<1>8. f \in Bijection(1 .. c, U)
  BY <1>5, <1>6, <1>7 DEF Bijection, Injection, Surjection, IsInjective
<1> QED
  BY <1>8 DEF f

\* A call of `agentdex models list`.
AboutModels == call.noun = "models"

\* The row of a pair, once the merge is done, is what EnrichedFromAgnostic asks.
LEMMA ModelRowIs ==
    ASSUME ConstantsAreCalls, call \in Calls, AboutModels, IsMerged(call, offer, {}),
           NEW p \in DOMAIN call.offer, NEW key \in DOMAIN call.offer[p].models,
           NEW r, r = ModelRow(p, key), NEW m, m = call.offer[p].models[key]
    PROVE  /\ IsModelRow(r) /\ r.provider = p /\ r.canonical \in {<<>>, <<p>> \o key}
           /\ r.model = [m EXCEPT !.benchmarks =
                            IF r.canonical # <<>> /\ Composite(r.canonical)
                            THEN call.agnostic[r.canonical] ELSE @]
           /\ r.model.id = m.id /\ r.model.name = m.name
<1> DEFINE id == <<p>> \o key
<1>1. /\ IsOffer(call.offer) /\ DOMAIN call.agnostic \subseteq Ids
  BY CallIs DEF AboutModels, Nouns
<1>2. /\ p \in Strings /\ key \in Ids /\ m \in Models
  BY <1>1, OfferIs
<1>3. id # <<>>
  <2>1. key \in Seq(Strings) /\ key # <<>>
    BY <1>2 DEF ConstantsAreCalls
  <2> QED
    BY <1>2, <2>1, CutBack
<1>4. r.provider = p /\ r.canonical = canonicalID(id) /\ r.model = offer[p].models[key]
  BY DEF ModelRow
<1>5. r.model = EnrichedModel(call, p, key, {})
  BY <1>4 DEF IsMerged
<1> HIDE DEF id
<1>6. r.canonical = IF id \in DOMAIN call.agnostic THEN id ELSE <<>>
  BY <1>4 DEF canonicalID
<1> DEFINE own == IF r.canonical # <<>> /\ Composite(r.canonical)
                  THEN call.agnostic[r.canonical] ELSE m.benchmarks
           merged == IF Composite(id) /\ id \in DOMAIN call.agnostic \ {}
                     THEN call.agnostic[id] ELSE m.benchmarks
<1>7. own = merged
  <2>1. CASE id \in DOMAIN call.agnostic
    BY <1>3, <1>6, <2>1
  <2>2. CASE id \notin DOMAIN call.agnostic
    BY <1>6, <2>2
  <2> QED
    BY <2>1, <2>2
<1>8. r.model = [m EXCEPT !.benchmarks = merged]
  BY <1>5 DEF EnrichedModel, id
<1> HIDE DEF own, merged
<1>9. /\ r.model.id = m.id /\ r.model.name = m.name /\ r.model.context = m.context
      /\ r.model.input = m.input /\ r.model.output = m.output /\ r.model.released = m.released
  BY <1>2, <1>8 DEF Models
<1>10. IsModel(r.model)
  BY <1>2, <1>9 DEF IsModel, Models
<1>11. IsModelRow(r)
  BY <1>1, <1>2, <1>4, <1>6, <1>10 DEF IsModelRow
<1>12. r.model = [m EXCEPT !.benchmarks = own]
  BY <1>7, <1>8
<1> QED
  BY <1>4, <1>6, <1>9, <1>11, <1>12 DEF own, id

\* The pairs asked for: of a provider named, when any is, and kept by the filter.
WantedBy(c) ==
    LET named == ToSet(c.providers) \ {0}
        scope == IF named = {} THEN DOMAIN c.offer ELSE named \cap DOMAIN c.offer
        kept(p) == {key \in DOMAIN c.offer[p].models :
                       LET m == c.offer[p].models[key]
                       IN c.filter = {} \/ m.id \in c.filter \/ m.name \in c.filter}
    IN UNION {{<<p, key>> : key \in kept(p)} : p \in scope}

\* What EnrichedFromAgnostic says of a row.
IsEnriched(c, r, pair) ==
    LET p == pair[1]
        key == pair[2]
        id == r.canonical
    IN /\ r.provider = p
       /\ id \in {<<>>, <<p>> \o key}
       /\ r.model =
            [c.offer[p].models[key] EXCEPT !.benchmarks =
                IF id # <<>> /\ Composite(id) THEN c.agnostic[id] ELSE @]

\* The rows that match the filter, by their positions.
LEMMA MatchingIs ==
    ASSUME NEW n \in Nat, NEW u, DOMAIN u = 1 .. n, NEW K,
           K = {k \in 1 .. n : matchesFilter(u[k].model.id, u[k].model.name)}
    PROVE  matchingModels(u) = [k \in 1 .. Cardinality(K) |-> u[Increasing(K)[k]]]
<1>1. K \in SUBSET (1 .. n)
  OBVIOUS
<1>2. DOMAIN Increasing(K) = 1 .. Cardinality(K)
  BY <1>1, KeptIs
<1>3. matchingModels(u) = [k \in DOMAIN Increasing(K) |-> u[Increasing(K)[k]]]
  BY DEF matchingModels, Where
<1> QED
  BY <1>2, <1>3

\* The pairs asked for are those of the scope that match the filter.
LEMMA WantedAre ==
    ASSUME ConstantsAreCalls, call \in Calls, AboutModels, DOMAIN offer = DOMAIN call.offer,
           \A p \in DOMAIN offer : DOMAIN offer[p].models = DOMAIN call.offer[p].models
    PROVE  LET T == Pairs(ToSet(Scope) \cap DOMAIN offer)
           IN /\ WantedBy(call) \in SUBSET T
              /\ \A pair \in T : LET m == call.offer[pair[1]].models[pair[2]]
                                 IN pair \in WantedBy(call) <=> matchesFilter(m.id, m.name)
<1> DEFINE named == ToSet(call.providers) \ {0}
           scope == IF named = {} THEN DOMAIN call.offer ELSE named \cap DOMAIN call.offer
           P == ToSet(Scope) \cap DOMAIN offer
           T == Pairs(P)
<1>1. IsOffer(call.offer) /\ call.providers \in Seq(Strings)
  BY CallIs DEF AboutModels, Nouns
<1>2. IsFiniteSet(DOMAIN offer) /\ DOMAIN offer \subseteq Strings
  BY <1>1 DEF IsOffer
<1>3. ToSet(Scope) = IF named = {} THEN DOMAIN offer ELSE named
  BY <1>1, <1>2, ScopeIs
<1>4. P = scope
  BY <1>3
<1> HIDE DEF named, P
<1>5. \A pair \in T : /\ pair = <<pair[1], pair[2]>> /\ pair[1] \in P
                      /\ pair[2] \in DOMAIN offer[pair[1]].models
  BY PairsAre
<1>6. \A p \in P : p \in DOMAIN offer
  BY DEF P
<1>7. \A p \in P : \A key \in DOMAIN offer[p].models : <<p, key>> \in T
  BY PairsAre
<1>8. \A p \in P : \A key \in DOMAIN call.offer[p].models :
         <<p, key>> \in WantedBy(call) <=>
           LET m == call.offer[p].models[key] IN matchesFilter(m.id, m.name)
  BY <1>4 DEF WantedBy, named, matchesFilter
<1>9. \A pair \in WantedBy(call) : pair[1] \in P /\ pair[2] \in DOMAIN call.offer[pair[1]].models
                           /\ pair = <<pair[1], pair[2]>>
  BY <1>4 DEF WantedBy, named, matchesFilter
<1> HIDE DEF T, scope
<1>10. WantedBy(call) \in SUBSET T
  <2>1. ASSUME NEW pair \in WantedBy(call) PROVE pair \in T
    BY <1>6, <1>7, <1>9
  <2> QED
    BY <2>1
<1>11. ASSUME NEW pair \in T
       PROVE  LET m == call.offer[pair[1]].models[pair[2]]
              IN pair \in WantedBy(call) <=> matchesFilter(m.id, m.name)
  BY <1>5, <1>6, <1>8
<1> QED
  BY <1>10, <1>11 DEF T, P

\* What ListModels answers.
LEMMA ListedAre ==
    ASSUME ConstantsAreCalls, call \in Calls, AboutModels, IsMerged(call, offer, {}),
           NEW out, out = sortModels(matchingModels(modelsForProviders(Scope)))
    PROVE  \E c \in Nat :
              /\ DOMAIN out = 1 .. c /\ \A k \in 1 .. c : IsModelRow(out[k])
              /\ \A j, k \in 1 .. c : j < k => ~Newer(out[k].model, out[j].model)
              /\ \E f \in Bijection(1 .. c, WantedBy(call)) :
                   \A k \in 1 .. c : IsEnriched(call, out[k], f[k])
<1> DEFINE ids == Scope
           steps == InTurn(ids)
           n == Cardinality(Steps(ids))
           T == Pairs(ToSet(ids) \cap DOMAIN offer)
           g == [i \in 1 .. n |-> <<ids[steps[i][1]], steps[i][2]>>]
           u == modelsForProviders(ids)
           K == {k \in 1 .. n : matchesFilter(u[k].model.id, u[k].model.name)}
           c == Cardinality(K)
           kept == Increasing(K)
           w == [k \in 1 .. c |-> u[kept[k]]]
<1>1. IsOffer(call.offer) /\ call.providers \in Seq(Strings) /\ LowerIsOfStrings
  BY CallIs DEF AboutModels, Nouns, ConstantsAreCalls
<1>2. /\ DOMAIN offer = DOMAIN call.offer
      /\ \A p \in DOMAIN offer : DOMAIN offer[p].models = DOMAIN call.offer[p].models
  BY DEF IsMerged
<1>3. /\ IsFiniteSet(DOMAIN offer) /\ DOMAIN offer \subseteq Strings
      /\ \A p \in DOMAIN offer : /\ IsFiniteSet(DOMAIN offer[p].models)
                                 /\ DOMAIN offer[p].models \subseteq Ids
  BY <1>1, <1>2, OfferIs DEF IsOffer
<1>4. ids \in Seq(Strings) /\ Once(ids)
  BY <1>1, <1>3, ScopeIs
<1>5. n \in Nat /\ steps \in Bijection(1 .. n, Steps(ids))
  BY <1>3, <1>4, InTurnIs
<1>6. g \in Bijection(1 .. n, T)
  BY <1>3, <1>4, <1>5, PairsOnce
<1>7. WantedBy(call) \in SUBSET T
      /\ \A pair \in T : LET m == call.offer[pair[1]].models[pair[2]]
                         IN pair \in WantedBy(call) <=> matchesFilter(m.id, m.name)
  BY <1>2, WantedAre
<1>8. \A pair \in T : pair[1] \in DOMAIN call.offer /\ pair[2] \in DOMAIN call.offer[pair[1]].models
  BY <1>2, PairsAre
<1>9. DOMAIN steps = 1 .. n
  BY <1>5 DEF Bijection, Injection
<1>10. /\ DOMAIN u = 1 .. n
       /\ \A i \in 1 .. n : u[i] = ModelRow(ids[steps[i][1]], steps[i][2])
  BY <1>9 DEF modelsForProviders
<1>11. \A i \in 1 .. n : g[i][1] = ids[steps[i][1]] /\ g[i][2] = steps[i][2]
  OBVIOUS
<1> HIDE DEF ids, n, T, g, u, steps
<1>12. \A i \in 1 .. n : g[i] \in T
  BY <1>6 DEF Bijection, Injection
<1>13. ASSUME NEW i \in 1 .. n
       PROVE  /\ IsModelRow(u[i]) /\ IsEnriched(call, u[i], g[i])
              /\ g[i] \in WantedBy(call) <=> matchesFilter(u[i].model.id, u[i].model.name)
  <2> DEFINE p == g[i][1]
             key == g[i][2]
             m == call.offer[p].models[key]
             r == u[i]
  <2>1. g[i] \in T /\ p \in DOMAIN call.offer /\ key \in DOMAIN call.offer[p].models
    BY <1>8, <1>12
  <2>2. r = ModelRow(p, key)
    BY <1>10, <1>11
  <2>3. g[i] \in WantedBy(call) <=> matchesFilter(m.id, m.name)
    BY <1>7, <2>1
  <2> HIDE DEF p, key, r
  <2>4. /\ IsModelRow(r) /\ r.provider = p /\ r.canonical \in {<<>>, <<p>> \o key}
        /\ r.model = [m EXCEPT !.benchmarks =
                         IF r.canonical # <<>> /\ Composite(r.canonical)
                         THEN call.agnostic[r.canonical] ELSE @]
        /\ r.model.id = m.id /\ r.model.name = m.name
    BY <2>1, <2>2, ModelRowIs
  <2>5. IsEnriched(call, r, g[i])
    BY <2>4 DEF IsEnriched, p, key
  <2> QED
    BY <2>3, <2>4, <2>5 DEF r
<1>14. /\ K \in SUBSET (1 .. n) /\ K = {i \in 1 .. n : g[i] \in WantedBy(call)}
       /\ K = {k \in 1 .. n : matchesFilter(u[k].model.id, u[k].model.name)}
  BY <1>13
<1> HIDE DEF K
<1>15. matchingModels(u) = w
  BY <1>5, <1>10, <1>14, MatchingIs
<1>16. c \in Nat /\ kept \in Bijection(1 .. c, K)
  BY <1>5, <1>14, KeptIs
<1> HIDE DEF c, kept
<1>17. \A k \in 1 .. c : kept[k] \in 1 .. n /\ w[k] = u[kept[k]]
  <2>1. \A k \in 1 .. c : kept[k] \in K
    BY <1>16 DEF Bijection, Injection
  <2> QED
    BY <1>14, <2>1
<1>18. DOMAIN w = 1 .. c
  OBVIOUS
<1> HIDE DEF w
<1>19. \A k \in 1 .. c : IsModelRow(w[k])
  BY <1>13, <1>17
<1>20. \A k \in 1 .. c : w[k].model.released \in Nat /\ w[k].model.id \in Nat
  BY <1>1, <1>19 DEF IsModelRow, IsModel, LowerIsOfStrings
<1>21. PICK q \in Bijection(1 .. c, 1 .. c) :
          /\ sortModels(w) = [k \in 1 .. c |-> w[q[k]]]
          /\ \A j, k \in 1 .. c : j < k => ~Newer(w[q[k]].model, w[q[j]].model)
  BY <1>16, <1>18, <1>20, SortModelsIs
<1>22. out = sortModels(w)
  BY <1>15 DEF u, ids
<1>23. \A k \in 1 .. c : q[k] \in 1 .. c
  BY DEF Bijection, Injection
<1>24. DOMAIN out = 1 .. c /\ \A k \in 1 .. c : out[k] = w[q[k]] /\ out[k] = u[kept[q[k]]]
  BY <1>17, <1>21, <1>22, <1>23
<1> DEFINE kq == [k \in 1 .. c |-> kept[q[k]]]
           f == [k \in 1 .. c |-> g[kq[k]]]
<1>25. kq \in Bijection(1 .. c, K)
  BY <1>16, PermutedBijection
<1> HIDE DEF kq
<1>26. f \in Bijection(1 .. c, WantedBy(call))
  BY <1>5, <1>6, <1>7, <1>14, <1>16, <1>25, PartBijection
<1>27. \A k \in 1 .. c : IsEnriched(call, out[k], f[k])
  <2> SUFFICES ASSUME NEW k \in 1 .. c PROVE IsEnriched(call, out[k], f[k])
    OBVIOUS
  <2>1. kq[k] = kept[q[k]] /\ f[k] = g[kq[k]] /\ kept[q[k]] \in 1 .. n
    BY <1>17, <1>23 DEF kq
  <2> HIDE DEF f
  <2> QED
    BY <1>13, <1>24, <2>1
<1> HIDE DEF f
<1>28. \A k \in 1 .. c : IsModelRow(out[k])
  BY <1>19, <1>23, <1>24
<1>29. \A j, k \in 1 .. c : j < k => ~Newer(out[k].model, out[j].model)
  BY <1>21, <1>24
<1> QED
  BY <1>16, <1>24, <1>26, <1>27, <1>28, <1>29

\* What detectAll gives.
AgentRows == [id : Strings, found : BOOLEAN, agent : Agents]

\* Rows that are some of others, as a filter leaves them.
LEMMA MatchingAgentsAre ==
    ASSUME NEW items \in Seq(AgentRows)
    PROVE  \E c \in Nat : /\ DOMAIN matchingAgents(items) = 1 .. c
                          /\ \A k \in 1 .. c : matchingAgents(items)[k] \in AgentRows
<1> DEFINE n == Len(items)
           K == {k \in 1 .. n : /\ call.installed => items[k].found
                                /\ matchesFilter(items[k].id, items[k].agent.name)}
           kept == Increasing(K)
           c == Cardinality(K)
<1>1. n \in Nat /\ DOMAIN items = 1 .. n /\ \A k \in 1 .. n : items[k] \in AgentRows
  OBVIOUS
<1>2. K \in SUBSET (1 .. n)
  OBVIOUS
<1> HIDE DEF n
<1>3. c \in Nat /\ DOMAIN kept = 1 .. c /\ kept \in Bijection(1 .. c, K)
  BY <1>1, <1>2, KeptIs
<1>4. matchingAgents(items) = [k \in 1 .. c |-> items[kept[k]]]
  BY <1>1, <1>3 DEF matchingAgents, Where
<1> HIDE DEF K, kept, c
<1>5. \A k \in 1 .. c : kept[k] \in 1 .. n
  BY <1>2, <1>3 DEF Bijection, Injection
<1> QED
  BY <1>1, <1>3, <1>4, <1>5

\* ListAgents answers with rows of agents.
LEMMA ListedAgentsAre ==
    ASSUME ConstantsAreCalls, NEW items \in Seq(AgentRows)
    PROVE  \E c \in Nat : /\ DOMAIN sortAgents(matchingAgents(items)) = 1 .. c
                          /\ \A k \in 1 .. c : IsAgentRow(sortAgents(matchingAgents(items))[k])
<1> DEFINE kept == matchingAgents(items)
<1>1. PICK c \in Nat : DOMAIN kept = 1 .. c /\ \A k \in 1 .. c : kept[k] \in AgentRows
  BY MatchingAgentsAre
<1> HIDE DEF kept
<1>2. \A k \in 1 .. c : kept[k].id \in Nat
  BY <1>1 DEF AgentRows, ConstantsAreCalls, LowerIsOfStrings
<1>3. PICK p \in Bijection(1 .. c, 1 .. c) : sortAgents(kept) = [k \in 1 .. c |-> kept[p[k]]]
  BY <1>1, <1>2, SortAgentsIs
<1>4. \A k \in 1 .. c : p[k] \in 1 .. c
  BY DEF Bijection, Injection
<1> QED
  BY <1>1, <1>3, <1>4, ZenonT(60) DEF kept, AgentRows, IsAgentRow

\* ListProviders answers with rows of providers.
LEMMA ListedProvidersAre ==
    ASSUME ConstantsAreCalls, IsOffer(offer), NEW out,
           out = [k \in DOMAIN matchingProviders |->
                    [id |-> matchingProviders[k], provider |-> offer[matchingProviders[k]]]]
    PROVE  \E c \in Nat : DOMAIN out = 1 .. c /\ \A k \in 1 .. c : IsProviderRow(out[k])
<1> DEFINE s == sortedKeys(offer)
           n == Cardinality(DOMAIN offer)
           K == {k \in 1 .. n : matchesFilter(s[k], offer[s[k]].name)}
           kept == Increasing(K)
           c == Cardinality(K)
           ids == matchingProviders
<1>1. n \in Nat /\ s \in [1 .. n -> DOMAIN offer] /\ DOMAIN s = 1 .. n
  <2>1. LowerIsOfStrings /\ IsFiniteSet(DOMAIN offer) /\ DOMAIN offer \subseteq Strings
    BY DEF ConstantsAreCalls, IsOffer
  <2>2. n \in Nat /\ s \in Bijection(1 .. n, DOMAIN offer)
    BY <2>1, SortedKeysAre
  <2> QED
    BY <2>2 DEF Bijection, Injection
<1>2. K \in SUBSET (1 .. n)
  OBVIOUS
<1> HIDE DEF n, s
<1>3. c \in Nat /\ DOMAIN kept = 1 .. c /\ kept \in Bijection(1 .. c, K)
  BY <1>1, <1>2, KeptIs
<1>4. ids = [k \in 1 .. c |-> s[kept[k]]]
  BY <1>1, <1>3 DEF matchingProviders, Where, s
<1> HIDE DEF K, kept, c, ids
<1>5. \A k \in 1 .. c : kept[k] \in 1 .. n
  BY <1>2, <1>3 DEF Bijection, Injection
<1>6. DOMAIN ids = 1 .. c /\ \A k \in 1 .. c : ids[k] \in DOMAIN offer
  BY <1>1, <1>4, <1>5
<1>7. out = [k \in 1 .. c |-> [id |-> ids[k], provider |-> offer[ids[k]]]]
  BY <1>6 DEF ids
<1>8. ASSUME NEW k \in 1 .. c PROVE IsProviderRow(out[k])
  <2>1. out[k].id = ids[k] /\ out[k].provider = offer[ids[k]] /\ ids[k] \in DOMAIN offer
    BY <1>6, <1>7
  <2>2. /\ ids[k] \in Strings /\ offer[ids[k]] \in Providers(offer[ids[k]].models)
        /\ IsFiniteSet(DOMAIN offer[ids[k]].models)
    BY <2>1, OfferIs
  <2>3. offer[ids[k]].name \in Strings /\ offer[ids[k]].env \in Seq(BOOLEAN)
    BY <2>2 DEF Providers
  <2> QED
    BY <2>1, <2>2, <2>3 DEF IsProviderRow
<1> QED
  BY <1>3, <1>7, <1>8

(***************************************************************************)
(* The list commands.                                                      *)
(***************************************************************************)

\* Where a command may be.
Stages == {"merge", "providers", "detect", "present", "printed", "refused", "failed"}

\* Each noun has its first stage.
StageOfNoun ==
    /\ call \in Calls /\ stage \in Stages
    /\ stage = "merge" => call.noun = "models"
    /\ stage = "providers" => call.noun = "providers"
    /\ stage = "detect" => call.noun = "agents"

\* The keys still to be reached, and the offer, which only the merge changes.
OfferSoFar ==
    /\ pending \subseteq IF call.noun = "agents" THEN DOMAIN call.agents ELSE DOMAIN call.agnostic
    /\ call.noun # "agents" => DOMAIN offer = DOMAIN call.offer
    /\ stage = "merge" => IsMerged(call, offer, pending)
    /\ stage = "providers" => offer = call.offer

\* What the library has answered is rows.
AreRows == \E n \in Nat : DOMAIN rows = 1 .. n /\ \A k \in 1 .. n : IsRow(rows[k])

\* The rows found so far, then those of the library's answer, in its order.
RowsSoFar ==
    /\ AreRows
    /\ stage = "detect" => rows \in Seq(AgentRows)
    /\ (call.noun = "models" /\ stage # "merge") => ByRelease

\* The table and the columns are made of the rows, by what is left as it is.
PrintedOrNot ==
    /\ stage = "printed" => Printed
    /\ stage # "printed" => table = <<>> /\ columns = <<>>

\* The invariant of a list command.
ListingInv == StageOfNoun /\ OfferSoFar /\ RowsSoFar /\ PrintedOrNot /\ EnrichedFromAgnostic

\* An empty answer is an answer.
LEMMA NoRows ==
    ASSUME rows = <<>>
    PROVE  AreRows
<1>1. DOMAIN rows = 1 .. 0
  OBVIOUS
<1> QED
  BY <1>1 DEF AreRows

\* It holds when a command begins.
LEMMA ListingInit ==
    ASSUME ConstantsAreCalls, ListInit
    PROVE  ListingInv
<1>1. call \in Calls /\ call.noun \in Nouns /\ rows = <<>> /\ table = <<>> /\ columns = <<>>
  BY CallIs DEF ListInit
<1>2. StageOfNoun
  BY <1>1 DEF ListInit, StageOfNoun, Stages, Nouns
<1>3. OfferSoFar
  <2>1. stage = "merge" => pending = DOMAIN call.agnostic /\ offer = call.offer
    BY <1>1, <1>2 DEF ListInit, StageOfNoun, Nouns
  <2>2. stage = "merge" => IsMerged(call, offer, pending)
    BY <1>1, <1>2, <2>1, MergedAtFirst DEF StageOfNoun
  <2>3. pending \subseteq IF call.noun = "agents" THEN DOMAIN call.agents ELSE DOMAIN call.agnostic
    BY <1>1 DEF ListInit, Nouns
  <2>4. call.noun # "agents" => offer = call.offer
    BY DEF ListInit
  <2>5. stage = "providers" => call.noun # "agents"
    BY <1>2 DEF StageOfNoun
  <2> QED
    BY <2>2, <2>3, <2>4, <2>5 DEF OfferSoFar
<1>4. RowsSoFar
  <2>1. rows \in Seq(AgentRows)
    BY <1>1
  <2>2. call.noun = "models" => stage = "merge"
    BY DEF ListInit
  <2> QED
    BY <1>1, <2>1, <2>2, NoRows DEF RowsSoFar
<1>5. stage \in {"merge", "providers", "detect"}
  BY <1>1 DEF ListInit, Nouns
<1>6. PrintedOrNot /\ EnrichedFromAgnostic
  BY <1>1, <1>5 DEF PrintedOrNot, EnrichedFromAgnostic
<1> QED
  BY <1>2, <1>3, <1>4, <1>6 DEF ListingInv

\* A step that goes on to no row, and to no table.
LEMMA MergeKeeps ==
    ASSUME ConstantsAreCalls, ListingInv, MergeOne
    PROVE  ListingInv'
<1>1. /\ stage = "merge" /\ stage' = stage /\ call' = call /\ rows' = rows
      /\ table' = table /\ columns' = columns
  BY DEF MergeOne
<1>2. call \in Calls /\ call.noun = "models" /\ pending \subseteq DOMAIN call.agnostic
      /\ IsMerged(call, offer, pending)
  BY <1>1 DEF ListingInv, StageOfNoun, OfferSoFar
<1>3. PICK id \in pending :
         /\ pending' = pending \ {id}
         /\ offer' = IF ~Matches(id) THEN offer
                     ELSE [offer EXCEPT ![Cut(id).provider].models[Cut(id).key].benchmarks =
                             call.agnostic[id]]
  BY DEF MergeOne
<1>4. IsMerged(call, offer', pending \ {id})
  BY <1>2, <1>3, MergedOneMore
<1>5. IsMerged(call, offer, pending)'
  BY <1>1, <1>3, <1>4
<1>6. StageOfNoun'
  BY <1>1 DEF ListingInv, StageOfNoun
<1>7. OfferSoFar'
  <2>1. DOMAIN offer' = DOMAIN call.offer
    BY <1>4 DEF IsMerged
  <2> QED
    BY <1>1, <1>2, <1>3, <1>5, <2>1 DEF OfferSoFar
<1>8. RowsSoFar'
  BY <1>1 DEF ListingInv, RowsSoFar, AreRows, ByRelease, IsRow
<1>9. PrintedOrNot' /\ EnrichedFromAgnostic'
  BY <1>1 DEF ListingInv, PrintedOrNot, EnrichedFromAgnostic
<1> QED
  BY <1>6, <1>7, <1>8, <1>9 DEF ListingInv

\* The rows of the models come to be as the property says.
LEMMA ListModelsKeeps ==
    ASSUME ConstantsAreCalls, ListingInv, ListModels
    PROVE  ListingInv'
<1>1. /\ stage = "merge" /\ stage' = "present" /\ pending = {} /\ call' = call
      /\ pending' = pending /\ offer' = offer /\ table' = table /\ columns' = columns
      /\ rows' = sortModels(matchingModels(modelsForProviders(Scope)))
  BY DEF ListModels
<1>2. call \in Calls /\ AboutModels /\ IsMerged(call, offer, {})
  BY <1>1 DEF ListingInv, StageOfNoun, OfferSoFar, AboutModels
<1>3. PICK c \in Nat :
         /\ DOMAIN rows' = 1 .. c /\ \A k \in 1 .. c : IsModelRow(rows'[k])
         /\ \A j, k \in 1 .. c : j < k => ~Newer(rows'[k].model, rows'[j].model)
         /\ \E f \in Bijection(1 .. c, WantedBy(call)) :
              \A k \in 1 .. c : IsEnriched(call, rows'[k], f[k])
  BY <1>1, <1>2, ListedAre
<1>4. StageOfNoun'
  BY <1>1 DEF ListingInv, StageOfNoun, Stages
<1>5. OfferSoFar'
  BY <1>1 DEF ListingInv, OfferSoFar
<1>6. RowsSoFar'
  <2>1. AreRows'
    BY <1>1, <1>2, <1>3 DEF AreRows, IsRow, AboutModels, IsModelRow, IsModel
  <2>2. ByRelease'
    BY <1>3 DEF ByRelease, Newer
  <2> QED
    BY <1>1, <2>1, <2>2 DEF RowsSoFar
<1>7. PrintedOrNot'
  BY <1>1 DEF ListingInv, PrintedOrNot
<1>8. EnrichedFromAgnostic'
  <2>1. \E f \in Bijection(DOMAIN rows', WantedBy(call)) :
           \A k \in DOMAIN rows' : IsEnriched(call, rows'[k], f[k])
    BY <1>3
  <2>2. \E f \in Bijection(DOMAIN rows', WantedBy(call')) :
           \A k \in DOMAIN rows' : IsEnriched(call', rows'[k], f[k])
    BY <1>1, <2>1
  <2> QED
    BY <2>2 DEF EnrichedFromAgnostic, WantedBy, IsEnriched, matchesFilter
<1> QED
  BY <1>4, <1>5, <1>6, <1>7, <1>8 DEF ListingInv

\* Those of the providers.
LEMMA ListProvidersKeeps ==
    ASSUME ConstantsAreCalls, ListingInv, ListProviders
    PROVE  ListingInv'
<1>1. /\ stage = "providers" /\ stage' = "present" /\ call' = call
      /\ pending' = pending /\ offer' = offer /\ table' = table /\ columns' = columns
      /\ rows' = [k \in DOMAIN matchingProviders |->
                    [id |-> matchingProviders[k], provider |-> offer[matchingProviders[k]]]]
  BY DEF ListProviders
<1>2. call \in Calls /\ call.noun = "providers" /\ offer = call.offer
  BY <1>1 DEF ListingInv, StageOfNoun, OfferSoFar
<1>3. IsOffer(offer)
  BY <1>2, CallIs
<1>4. PICK c \in Nat : DOMAIN rows' = 1 .. c /\ \A k \in 1 .. c : IsProviderRow(rows'[k])
  BY <1>1, <1>3, ListedProvidersAre
<1>5. StageOfNoun'
  BY <1>1 DEF ListingInv, StageOfNoun, Stages
<1>6. OfferSoFar'
  BY <1>1 DEF ListingInv, OfferSoFar
<1>7. RowsSoFar'
  <2>1. AreRows'
    BY <1>1, <1>2, <1>4 DEF AreRows, IsRow, IsProviderRow
  <2> QED
    BY <1>1, <1>2, <2>1 DEF RowsSoFar
<1>8. PrintedOrNot' /\ EnrichedFromAgnostic'
  BY <1>1, <1>2 DEF ListingInv, PrintedOrNot, EnrichedFromAgnostic
<1> QED
  BY <1>5, <1>6, <1>7, <1>8 DEF ListingInv

\* One more agent is looked for.
LEMMA DetectOneKeeps ==
    ASSUME ConstantsAreCalls, ListingInv, DetectOne
    PROVE  ListingInv'
<1>1. /\ stage = "detect" /\ stage' = stage /\ call' = call /\ offer' = offer
      /\ table' = table /\ columns' = columns
  BY DEF DetectOne
<1>2. call \in Calls /\ call.noun = "agents" /\ rows \in Seq(AgentRows)
      /\ pending \subseteq DOMAIN call.agents
  BY <1>1 DEF ListingInv, StageOfNoun, RowsSoFar, OfferSoFar
<1>3. PICK a \in pending, found \in BOOLEAN :
         /\ pending' = pending \ {a}
         /\ rows' = Append(rows, [id |-> a, found |-> found, agent |-> call.agents[a]])
  BY DEF DetectOne
<1>4. [id |-> a, found |-> found, agent |-> call.agents[a]] \in AgentRows
  <2>1. DOMAIN call.agents \subseteq Strings /\ call.agents \in [DOMAIN call.agents -> Agents]
    BY <1>2, CallIs
  <2> QED
    BY <1>2, <2>1 DEF AgentRows
<1>5. rows' \in Seq(AgentRows)
  BY <1>2, <1>3, <1>4
<1>6. StageOfNoun'
  BY <1>1 DEF ListingInv, StageOfNoun
<1>7. OfferSoFar'
  BY <1>1, <1>2, <1>3 DEF ListingInv, OfferSoFar
<1>8. RowsSoFar'
  <2>1. DOMAIN rows' = 1 .. Len(rows') /\ Len(rows') \in Nat
        /\ \A k \in 1 .. Len(rows') : rows'[k] \in AgentRows
    BY <1>5
  <2>2. AreRows'
    BY <1>1, <1>2, <2>1 DEF AreRows, IsRow, IsAgentRow, AgentRows
  <2> QED
    BY <1>1, <1>2, <1>5, <2>2 DEF RowsSoFar
<1>9. PrintedOrNot' /\ EnrichedFromAgnostic'
  BY <1>1, <1>2 DEF ListingInv, PrintedOrNot, EnrichedFromAgnostic
<1> QED
  BY <1>6, <1>7, <1>8, <1>9 DEF ListingInv

\* A detection that is cut short has no rows.
LEMMA InterruptedKeeps ==
    ASSUME ConstantsAreCalls, ListingInv, Interrupted
    PROVE  ListingInv'
<1>1. /\ stage = "detect" /\ stage' = "failed" /\ call' = call /\ pending' = pending
      /\ offer' = offer /\ table' = table /\ columns' = columns /\ rows' = <<>>
  BY DEF Interrupted
<1>2. call.noun = "agents"
  BY <1>1 DEF ListingInv, StageOfNoun
<1>3. StageOfNoun'
  BY <1>1 DEF ListingInv, StageOfNoun, Stages
<1>4. OfferSoFar'
  BY <1>1 DEF ListingInv, OfferSoFar
<1>5. RowsSoFar'
  <2>1. DOMAIN rows' = 1 .. 0
    BY <1>1
  <2>2. AreRows'
    BY <2>1 DEF AreRows
  <2> QED
    BY <1>1, <1>2, <2>2 DEF RowsSoFar
<1>6. PrintedOrNot' /\ EnrichedFromAgnostic'
  BY <1>1, <1>2 DEF ListingInv, PrintedOrNot, EnrichedFromAgnostic
<1> QED
  BY <1>3, <1>4, <1>5, <1>6 DEF ListingInv

\* The rows of the agents are some of those found so far.
LEMMA ListAgentsKeeps ==
    ASSUME ConstantsAreCalls, ListingInv, ListAgents
    PROVE  ListingInv'
<1>1. /\ stage = "detect" /\ stage' = "present" /\ call' = call /\ pending' = pending
      /\ offer' = offer /\ table' = table /\ columns' = columns
      /\ rows' = sortAgents(matchingAgents(rows))
  BY DEF ListAgents
<1>2. call \in Calls /\ call.noun = "agents" /\ rows \in Seq(AgentRows)
  BY <1>1 DEF ListingInv, StageOfNoun, RowsSoFar
<1>3. PICK c \in Nat : DOMAIN rows' = 1 .. c /\ \A k \in 1 .. c : IsAgentRow(rows'[k])
  BY <1>1, <1>2, ListedAgentsAre
<1>4. StageOfNoun'
  BY <1>1 DEF ListingInv, StageOfNoun, Stages
<1>5. OfferSoFar'
  BY <1>1 DEF ListingInv, OfferSoFar
<1>6. RowsSoFar'
  <2>1. AreRows'
    BY <1>1, <1>2, <1>3 DEF AreRows, IsRow, IsAgentRow
  <2> QED
    BY <1>1, <1>2, <2>1 DEF RowsSoFar
<1>7. PrintedOrNot' /\ EnrichedFromAgnostic'
  BY <1>1, <1>2 DEF ListingInv, PrintedOrNot, EnrichedFromAgnostic
<1> QED
  BY <1>4, <1>5, <1>6, <1>7 DEF ListingInv

\* What Present prints depends on the call and the rows alone.
LEMMA SameView ==
    ASSUME call' = call, rows' = rows
    PROVE  /\ Key' = Key /\ FieldSet' = FieldSet
           /\ Grouped(applyOrder(Records))' = Grouped(applyOrder(Records))
           /\ TableColumns' = TableColumns
<1>1. Key' = Key /\ FieldSet' = FieldSet
  BY DEF Key, FieldSet
<1>2. Records' = Records
  BY DEF Records
<1>3. applyOrder(Records)' = applyOrder(Records)
  BY <1>1, <1>2 DEF applyOrder
<1>4. Grouped(applyOrder(Records))' = Grouped(applyOrder(Records))
  BY <1>3 DEF Grouped
<1>5. distinctProviders' = distinctProviders
  BY DEF distinctProviders
<1>6. TableColumns' = TableColumns
  BY <1>1, <1>5 DEF TableColumns
<1> QED
  BY <1>1, <1>4, <1>6

\* The table and the columns are made of the rows as they are.
LEMMA PresentKeeps ==
    ASSUME ConstantsAreCalls, ListingInv, Present
    PROVE  ListingInv'
<1>1. stage = "present" /\ call' = call /\ pending' = pending /\ offer' = offer /\ rows' = rows
  BY DEF Present
<1>2. stage' \in {"printed", "refused"}
  BY DEF Present
<1>3. StageOfNoun'
  BY <1>1, <1>2 DEF ListingInv, StageOfNoun, Stages
<1>4. OfferSoFar'
  BY <1>1, <1>2 DEF ListingInv, OfferSoFar
<1>5. RowsSoFar'
  BY <1>1, <1>2 DEF ListingInv, RowsSoFar, AreRows, ByRelease, IsRow
<1>6. PrintedOrNot'
  <2>1. CASE Key \in FieldSet.all /\ ToSet(call.fields) \subseteq FieldSet.all
    <3>1. /\ table' = Grouped(applyOrder(Records)) /\ columns' = TableColumns /\ stage' = "printed"
      BY <2>1 DEF Present
    <3>2. Printed'
      BY <1>1, <2>1, <3>1, SameView DEF Printed
    <3> QED
      BY <3>1, <3>2 DEF PrintedOrNot
  <2>2. CASE ~(Key \in FieldSet.all /\ ToSet(call.fields) \subseteq FieldSet.all)
    BY <1>1, <2>2 DEF Present, ListingInv, PrintedOrNot
  <2> QED
    BY <2>1, <2>2
<1>7. EnrichedFromAgnostic'
  BY <1>2 DEF EnrichedFromAgnostic
<1> QED
  BY <1>3, <1>4, <1>5, <1>6, <1>7 DEF ListingInv

\* A step of nobody changes nothing.
LEMMA ListingUnchanged ==
    ASSUME ListingInv, UNCHANGED listVars
    PROVE  ListingInv'
<1>1. /\ call' = call /\ stage' = stage /\ pending' = pending /\ offer' = offer
      /\ rows' = rows /\ table' = table /\ columns' = columns
  BY DEF listVars
<1>2. StageOfNoun' /\ OfferSoFar'
  BY <1>1 DEF ListingInv, StageOfNoun, OfferSoFar
<1>3. RowsSoFar'
  BY <1>1 DEF ListingInv, RowsSoFar, AreRows, ByRelease, IsRow
<1>4. PrintedOrNot'
  BY <1>1, SameView DEF ListingInv, PrintedOrNot, Printed
<1>5. EnrichedFromAgnostic'
  <2> SUFFICES ASSUME call.noun = "models" /\ stage = "present" PROVE EnrichedFromAgnostic'
    BY <1>1 DEF EnrichedFromAgnostic
  <2>1. \E f \in Bijection(DOMAIN rows, WantedBy(call)) :
           \A k \in DOMAIN rows : IsEnriched(call, rows[k], f[k])
    BY DEF ListingInv, EnrichedFromAgnostic, WantedBy, IsEnriched, matchesFilter
  <2>2. \E f \in Bijection(DOMAIN rows', WantedBy(call')) :
           \A k \in DOMAIN rows' : IsEnriched(call', rows'[k], f[k])
    BY <1>1, <2>1
  <2> QED
    BY <2>2 DEF EnrichedFromAgnostic, WantedBy, IsEnriched, matchesFilter
<1> QED
  BY <1>2, <1>3, <1>4, <1>5 DEF ListingInv

\* The invariant that the properties are read from.
LEMMA ListingInvariant ==
    ASSUME ConstantsAreCalls
    PROVE  ListSpec => []ListingInv
<1>1. ListInit => ListingInv
  BY ListingInit
<1>2. ListingInv /\ [ListNext]_listVars => ListingInv'
  <2> SUFFICES ASSUME ListingInv, [ListNext]_listVars PROVE ListingInv'
    OBVIOUS
  <2> QED
    BY MergeKeeps, ListModelsKeeps, ListProvidersKeeps, DetectOneKeeps, InterruptedKeeps,
       ListAgentsKeeps, PresentKeeps, ListingUnchanged DEF ListNext
<1> QED
  BY <1>1, <1>2, PTL DEF ListSpec

\* What the invariant knows of the call.
LEMMA CallOfInv ==
    ASSUME ConstantsAreCalls, ListingInv
    PROVE  call \in Calls /\ call.noun \in Nouns /\ call.reverse \in BOOLEAN
BY CallIs DEF ListingInv, StageOfNoun

\* A table is the records in some order, and that order is the one asked for.
LEMMA PrintedTable ==
    ASSUME ConstantsAreCalls, ListingInv, stage = "printed"
    PROVE  \E n \in Nat : \E p \in Bijection(1 .. n, 1 .. n) :
              /\ DOMAIN Records = 1 .. n /\ \A k \in 1 .. n : IsTyped(Records[k])
              /\ DOMAIN table = 1 .. n /\ table = [k \in 1 .. n |-> Records[p[k]]]
              /\ \A j, k \in 1 .. n : j < k =>
                    IF DefaultAgents /\ recordFound(table[j]) # recordFound(table[k])
                    THEN recordFound(table[j])
                    ELSE MayPrecede(p[j], p[k])
<1>1. call.noun \in Nouns /\ call.reverse \in BOOLEAN
  BY CallOfInv
<1>2. Key \in FieldSet.all /\ table = Grouped(applyOrder(Records))
  BY DEF ListingInv, PrintedOrNot, Printed
<1>3. PICK n \in Nat : DOMAIN rows = 1 .. n /\ \A k \in 1 .. n : IsRow(rows[k])
  BY DEF ListingInv, RowsSoFar, AreRows
<1>4. PICK p \in Bijection(1 .. n, 1 .. n) :
         /\ Grouped(applyOrder(Records)) = [k \in 1 .. n |-> Records[p[k]]]
         /\ \A j, k \in 1 .. n : j < k =>
               IF DefaultAgents /\ recordFound(Records[p[j]]) # recordFound(Records[p[k]])
               THEN recordFound(Records[p[j]])
               ELSE MayPrecede(p[j], p[k])
  BY <1>1, <1>2, <1>3, TableIs
<1>5. DOMAIN Records = 1 .. n /\ \A k \in 1 .. n : IsTyped(Records[k])
  BY <1>1, <1>3, RecordsAre DEF Nouns
<1> DEFINE recs == Records
<1>6. table = [k \in 1 .. n |-> recs[p[k]]]
  BY <1>2, <1>4
<1>7. \A k \in 1 .. n : table[k] = Records[p[k]]
  BY <1>6
<1>8. ASSUME NEW j \in 1 .. n, NEW k \in 1 .. n, j < k
      PROVE  IF DefaultAgents /\ recordFound(table[j]) # recordFound(table[k])
             THEN recordFound(table[j])
             ELSE MayPrecede(p[j], p[k])
  BY <1>4, <1>7, <1>8
<1> HIDE DEF recs
<1>9. DOMAIN table = 1 .. n
  BY <1>6
<1> QED
  BY <1>5, <1>6, <1>8, <1>9 DEF recs

\* The types follow from it.
LEMMA InvIsTypeOK ==
    ASSUME ConstantsAreCalls, ListingInv
    PROVE  ListTypeOK
<1>1. stage \in {"merge", "providers", "detect", "present", "printed", "refused", "failed"}
  BY DEF ListingInv, StageOfNoun, Stages
<1>2. /\ pending \subseteq IF call.noun = "agents" THEN DOMAIN call.agents ELSE DOMAIN call.agnostic
      /\ (call.noun # "agents") => DOMAIN offer = DOMAIN call.offer
  BY DEF ListingInv, OfferSoFar
<1>3. stage # "printed" => table = <<>> /\ columns = <<>>
  BY DEF ListingInv, PrintedOrNot
<1>4. \A k \in DOMAIN table : \A f \in DOMAIN table[k] : table[k][f].type \in Types
  <2>1. CASE stage = "printed"
    <3>0. PICK n \in Nat : \E p \in Bijection(1 .. n, 1 .. n) :
             /\ \A k \in 1 .. n : IsTyped(Records[k])
             /\ DOMAIN table = 1 .. n /\ table = [k \in 1 .. n |-> Records[p[k]]]
      BY <2>1, PrintedTable
    <3>1. PICK p \in Bijection(1 .. n, 1 .. n) :
             /\ \A k \in 1 .. n : IsTyped(Records[k])
             /\ DOMAIN table = 1 .. n /\ table = [k \in 1 .. n |-> Records[p[k]]]
      BY <3>0
    <3>2. p \in [1 .. n -> 1 .. n]
      BY DEF Bijection, Injection
    <3> DEFINE recs == Records
    <3>3. \A k \in 1 .. n : IsTyped(recs[k])
      BY <3>1
    <3>4. table = [k \in 1 .. n |-> recs[p[k]]]
      BY <3>1
    <3> HIDE DEF recs
    <3>5. \A k \in DOMAIN table : IsTyped(table[k])
      BY <3>1, <3>2, <3>3, <3>4
    <3> QED
      BY <3>5 DEF IsTyped, Value
  <2> QED
    BY <1>3, <2>1
<1>5. ToSet(columns) \subseteq FieldSet.all
  <2>1. CASE stage = "printed"
    <3>1. /\ Key \in FieldSet.all /\ ToSet(call.fields) \subseteq FieldSet.all
          /\ columns = TableColumns
      BY <2>1 DEF ListingInv, PrintedOrNot, Printed
    <3> QED
      BY <3>1, CallOfInv, TableColumnsAre
  <2>2. CASE stage # "printed"
    BY <1>3, <2>2 DEF ToSet
  <2> QED
    BY <2>1, <2>2
<1> QED
  BY <1>1, <1>2, <1>3, <1>4, <1>5 DEF ListTypeOK

\* So does the order of what is printed.
LEMMA InvIsOrdered ==
    ASSUME ConstantsAreCalls, ListingInv
    PROVE  OrderedAsAsked
<1> SUFFICES ASSUME stage = "printed" PROVE OrderedAsAsked
  BY DEF OrderedAsAsked
<1>1. call.noun \in Nouns
  BY CallOfInv
<1>2. /\ Key \in FieldSet.all /\ ToSet(call.fields) \subseteq FieldSet.all
      /\ table = Grouped(applyOrder(Records)) /\ columns = TableColumns
  BY DEF ListingInv, PrintedOrNot, Printed
<1>3. \E p \in Bijection(DOMAIN table, DOMAIN Records) :
         /\ table = [k \in DOMAIN Records |-> Records[p[k]]]
         /\ \A j, k \in DOMAIN table : j < k =>
              IF call.noun = "agents" /\ call.orderBy = ""
                   /\ recordFound(table[j]) # recordFound(table[k])
              THEN recordFound(table[j])
              ELSE MayPrecede(p[j], p[k])
  <2>0. PICK n \in Nat : \E p \in Bijection(1 .. n, 1 .. n) :
           /\ DOMAIN Records = 1 .. n
           /\ DOMAIN table = 1 .. n /\ table = [k \in 1 .. n |-> Records[p[k]]]
           /\ \A j, k \in 1 .. n : j < k =>
                 IF DefaultAgents /\ recordFound(table[j]) # recordFound(table[k])
                 THEN recordFound(table[j])
                 ELSE MayPrecede(p[j], p[k])
    BY PrintedTable
  <2>1. PICK p \in Bijection(1 .. n, 1 .. n) :
           /\ DOMAIN Records = 1 .. n
           /\ DOMAIN table = 1 .. n /\ table = [k \in 1 .. n |-> Records[p[k]]]
           /\ \A j, k \in 1 .. n : j < k =>
                 IF DefaultAgents /\ recordFound(table[j]) # recordFound(table[k])
                 THEN recordFound(table[j])
                 ELSE MayPrecede(p[j], p[k])
    BY <2>0
  <2>2. p \in Bijection(DOMAIN table, DOMAIN Records)
    BY <2>1
  <2>3. table = [k \in DOMAIN Records |-> Records[p[k]]]
    BY <2>1
  <2>4. ASSUME NEW j \in DOMAIN table, NEW k \in DOMAIN table, j < k
        PROVE  IF call.noun = "agents" /\ call.orderBy = ""
                    /\ recordFound(table[j]) # recordFound(table[k])
               THEN recordFound(table[j])
               ELSE MayPrecede(p[j], p[k])
    BY <2>1, <2>4 DEF DefaultAgents
  <2> QED
    BY <2>2, <2>3, <2>4
<1>4. DefaultModels => table = Records
  <2> SUFFICES ASSUME DefaultModels PROVE table = Records
    OBVIOUS
  <2>1. PICK n \in Nat : DOMAIN rows = 1 .. n /\ \A k \in 1 .. n : IsRow(rows[k])
    BY DEF ListingInv, RowsSoFar, AreRows
  <2>2. ByRelease
    BY DEF ListingInv, RowsSoFar, DefaultModels
  <2>3. applyOrder(Records) = Records
    BY <2>1, <2>2, DefaultStays
  <2>4. Grouped(applyOrder(Records)) = applyOrder(Records)
    BY DEF Grouped, DefaultModels
  <2> QED
    BY <1>2, <2>3, <2>4
<1>5. /\ call.fields # <<>> => columns = call.fields
      /\ call.fields = <<>> =>
           /\ columns[1] = Key
           /\ (call.noun = "models" /\ Key # "provider") =>
                (Contains(columns, "provider") <=> distinctProviders > 1)
  BY <1>1, <1>2, TableColumnsAre
<1> QED
  BY <1>3, <1>4, <1>5 DEF OrderedAsAsked, DefaultModels

\* Every variable of a list command holds a value of its type, whatever the
\* catalogs and flags (the handlers of the three list commands).
THEOREM ListingTypes ==
    ASSUME ConstantsAreCalls
    PROVE  ListSpec => []ListTypeOK
<1>1. ListingInv => ListTypeOK
  BY InvIsTypeOK
<1> QED
  BY <1>1, ListingInvariant, PTL

\* The rows of the models are those asked for, each once, and a row that names a
\* canonical id has its benchmarks, in whatever order the ids are merged (merge,
\* canonicalID, ModelService.List), for any catalogs, filter and providers.
THEOREM RowsAreEnriched ==
    ASSUME ConstantsAreCalls
    PROVE  ListSpec => []EnrichedFromAgnostic
<1>1. ListingInv => EnrichedFromAgnostic
  BY DEF ListingInv
<1> QED
  BY <1>1, ListingInvariant, PTL

\* A list is printed whole and in the order asked for, ties and missing values
\* included, with the columns asked for (applyOrder and the handlers of the three
\* list commands), for any catalogs and flags.
THEOREM ListsAreOrderedAsAsked ==
    ASSUME ConstantsAreCalls
    PROVE  ListSpec => []OrderedAsAsked
<1>1. ListingInv => OrderedAsAsked
  BY InvIsOrdered
<1> QED
  BY <1>1, ListingInvariant, PTL
=============================================================================
