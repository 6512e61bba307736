------------------------------- MODULE DictProofs -------------------------------
(***************************************************************************)
(* Proofs about Dict, for every set of keys, hash function and set of      *)
(* table sizes: at every point of an incremental rehashing a lookup finds  *)
(* exactly the keys that were added and not deleted, and the rehashing     *)
(* neither gives up a table with entries nor runs over its end.  A safe    *)
(* iterator returns what stays in the dictionary, once.  SCAN returns what *)
(* stays in it too, but for the buckets its own loop skips.                *)
(***************************************************************************)
EXTENDS Dict, FiniteSetTheorems, WellFoundedInduction, TLAPS

\* One table: every entry is in the bucket of its hash, and `used' counts them.
TableInv(t) ==
    /\ IsTable(t)
    /\ \A i \in 0..(t.size - 1) : \A k \in t.b[i] : Index(k, t) = i
    /\ t.used = Cardinality(Contents(t))

\* The two tables: they share no key, hold exactly ks, and the buckets of ht[0]
\* that rehashidx has passed are empty.
DictInv(d, ks) ==
    /\ TableInv(d.ht0) /\ TableInv(d.ht1)
    /\ d.ridx \in Nat \cup {-1}
    /\ ~dictIsRehashing(d) => d.ht1.size = 0
    /\ dictIsRehashing(d) => d.ht0.size # 0 /\ d.ht1.size # 0
    /\ Contents(d.ht0) \cap Contents(d.ht1) = {}
    /\ ks = Contents(d.ht0) \cup Contents(d.ht1)
    /\ dictIsRehashing(d) =>
         \A j \in 0..(d.ht0.size - 1) : j < d.ridx => d.ht0.b[j] = {}

\* Inductive strengthening of TypeOK, FindExact and RehashSafe.
Inv == TypeOK /\ DictInv(dict, keys)

(***************************************************************************)
(* Tables.                                                                 *)
(***************************************************************************)

\* hash & sizemask is an index of the table.
LEMMA IndexType ==
    ASSUME NEW k \in Keys, NEW t, t.size \in Nat \ {0}
    PROVE  Index(k, t) \in 0..(t.size - 1)
  <1> DEFINE h == Hash[k]
             n == t.size
  <1>1. h \in Nat BY DictAssumption
  <1>2. n \in Nat \ {0} OBVIOUS
  <1> HIDE DEF h, n
  <1>3. h % n \in 0..(n - 1) BY <1>1, <1>2
  <1> QED BY <1>3 DEF Index, h, n

\* Sizes and counters are natural numbers.
LEMMA SizeType ==
    ASSUME NEW t, IsTable(t)
    PROVE  t.size \in Nat /\ t.used \in Nat
  <1>1. t.size \in TableSizes \/ t.size = 0 BY DEF IsTable
  <1>2. TableSizes \subseteq Nat BY DictAssumption
  <1>3. t.used \in Nat BY DEF IsTable
  <1>4. CASE t.size \in TableSizes BY <1>2, <1>3, <1>4
  <1>5. CASE t.size = 0 BY <1>3, <1>5
  <1> QED BY <1>1, <1>4, <1>5

\* A bucket with a key of the table, and the other way round.
LEMMA ContentsDef ==
    ASSUME NEW t, NEW k
    PROVE  k \in Contents(t) <=> \E i \in 0..(t.size - 1) : k \in t.b[i]
  BY DEF Contents

\* A table holds finitely many keys.
LEMMA ContentsFinite ==
    ASSUME NEW t, IsTable(t)
    PROVE  Contents(t) \subseteq Keys /\ IsFiniteSet(Contents(t))
  <1>1. Contents(t) \subseteq Keys BY ContentsDef DEF IsTable
  <1> QED BY <1>1, FS_Subset, DictAssumption

\* Looking into the bucket of its hash is enough to find a key.
LEMMA InTableExact ==
    ASSUME NEW t, TableInv(t), NEW k \in Keys
    PROVE  InTable(t, k) <=> k \in Contents(t)
  <1>a. IsTable(t) BY DEF TableInv
  <1>0. t.size \in Nat /\ IsTable(t) BY <1>a, SizeType
  <1>1. CASE t.size = 0
    <2>1. 0..(t.size - 1) = {} BY <1>1
    <2> QED BY <1>1, <2>1, ContentsDef DEF InTable
  <1>2. CASE t.size # 0
    <2>1. Index(k, t) \in 0..(t.size - 1) BY <1>0, <1>2, IndexType
    <2> QED BY <1>2, <2>1, ContentsDef DEF InTable, TableInv
  <1> QED BY <1>1, <1>2

\* zcalloc gives an empty table.
LEMMA NewTableInv ==
    ASSUME NEW n \in TableSizes \cup {0}
    PROVE  /\ TableInv(NewTable(n)) /\ NewTable(n).size = n
           /\ Contents(NewTable(n)) = {}
  <1> DEFINE t == NewTable(n)
  <1>1. t.size = n /\ t.used = 0 /\ t.b = [i \in 0..(n - 1) |-> {}] BY DEF NewTable, Table
  <1>2. \A i \in 0..(t.size - 1) : t.b[i] = {} BY <1>1
  <1>3. Contents(t) = {} BY <1>2, ContentsDef
  <1>4. IsTable(t) BY <1>1 DEF IsTable
  <1>5. t.used = Cardinality(Contents(t)) BY <1>1, <1>3, FS_EmptySet
  <1> QED BY <1>1, <1>2, <1>3, <1>4, <1>5 DEF TableInv

\* An entry added to the bucket of its hash.
LEMMA PutInv ==
    ASSUME NEW t, TableInv(t), t.size # 0, NEW k \in Keys, k \notin Contents(t)
    PROVE  /\ TableInv(PutIn(t, k)) /\ PutIn(t, k).size = t.size
           /\ Contents(PutIn(t, k)) = Contents(t) \cup {k}
  <1> DEFINE u == PutIn(t, k)
             x == Index(k, t)
  <1>a. IsTable(t) BY DEF TableInv
  <1>0. t.size \in Nat \ {0} /\ IsTable(t) BY <1>a, SizeType
  <1>1. x \in 0..(t.size - 1) BY <1>0, IndexType
  <1>2. u.size = t.size /\ u.used = t.used + 1 /\ u.b = [t.b EXCEPT ![x] = @ \cup {k}]
    BY DEF PutIn, Table
  <1>3. \A i \in 0..(t.size - 1) : u.b[i] = IF i = x THEN t.b[i] \cup {k} ELSE t.b[i]
    BY <1>0, <1>1, <1>2 DEF IsTable
  <1>4. Contents(u) = Contents(t) \cup {k}
    <2>0. u.size = t.size BY <1>2
    <2> HIDE DEF u, x
    <2>1. \A y : y \in Contents(u) => y \in Contents(t) \cup {k}
      BY <1>3, <2>0, ContentsDef
    <2>2. \A y : y \in Contents(t) => y \in Contents(u)
      BY <1>3, <2>0, ContentsDef
    <2>3. k \in Contents(u) BY <1>1, <1>3, <2>0, ContentsDef
    <2> QED BY <2>1, <2>2, <2>3
  <1>5. IsTable(u) BY <1>0, <1>1, <1>2 DEF IsTable
  <1>6. \A i \in 0..(u.size - 1) : \A y \in u.b[i] : Index(y, u) = i
    BY <1>0, <1>2, <1>3 DEF TableInv, Index
  <1>7. u.used = Cardinality(Contents(u))
    BY <1>0, <1>2, <1>4, ContentsFinite, FS_AddElement DEF TableInv
  <1> QED BY <1>2, <1>4, <1>5, <1>6, <1>7 DEF TableInv

\* An entry taken out of its bucket.
LEMMA TakeInv ==
    ASSUME NEW t, TableInv(t), NEW k \in Keys, k \in Contents(t)
    PROVE  /\ TableInv(TakeOut(t, k)) /\ TakeOut(t, k).size = t.size
           /\ Contents(TakeOut(t, k)) = Contents(t) \ {k}
           /\ \A i \in 0..(t.size - 1) : TakeOut(t, k).b[i] \subseteq t.b[i]
  <1> DEFINE u == TakeOut(t, k)
             x == Index(k, t)
  <1>a. IsTable(t) BY DEF TableInv
  <1>0. t.size \in Nat /\ t.used \in Nat /\ IsTable(t) BY <1>a, SizeType
  <1>1. x \in 0..(t.size - 1) /\ \A i \in 0..(t.size - 1) : k \in t.b[i] => i = x
    BY ContentsDef DEF TableInv
  <1>2. u.size = t.size /\ u.used = t.used - 1 /\ u.b = [t.b EXCEPT ![x] = @ \ {k}]
    BY DEF TakeOut, Table
  <1>3. \A i \in 0..(t.size - 1) : u.b[i] = IF i = x THEN t.b[i] \ {k} ELSE t.b[i]
    BY <1>0, <1>1, <1>2 DEF IsTable
  <1>4. Contents(u) = Contents(t) \ {k}
    <2>0. u.size = t.size BY <1>2
    <2> HIDE DEF u, x
    <2>1. \A y : y \in Contents(u) => y \in Contents(t) /\ y # k
      BY <1>1, <1>3, <2>0, ContentsDef
    <2>2. \A y : y \in Contents(t) /\ y # k => y \in Contents(u)
      BY <1>3, <2>0, ContentsDef
    <2> QED BY <2>1, <2>2
  <1>5. u.used = Cardinality(Contents(u)) /\ u.used \in Nat
    <2>1. IsFiniteSet(Contents(t)) BY <1>0, ContentsFinite
    <2>2. Cardinality(Contents(t) \ {k}) = Cardinality(Contents(t)) - 1 /\ IsFiniteSet(Contents(t) \ {k})
      BY <2>1, FS_RemoveElement
    <2>3. Cardinality(Contents(t) \ {k}) \in Nat BY <2>2, FS_CardinalityType
    <2>4. t.used = Cardinality(Contents(t)) BY DEF TableInv
    <2> QED BY <1>2, <1>4, <2>2, <2>3, <2>4
  <1>6. IsTable(u) BY <1>0, <1>1, <1>2, <1>5 DEF IsTable
  <1>7. \A i \in 0..(u.size - 1) : \A y \in u.b[i] : Index(y, u) = i
    BY <1>0, <1>2, <1>3 DEF TableInv, Index
  <1> QED BY <1>2, <1>3, <1>4, <1>5, <1>6, <1>7 DEF TableInv

(***************************************************************************)
(* The two tables.                                                         *)
(***************************************************************************)

\* Looking into the one or two tables finds exactly the keys there are.
LEMMA FindInv ==
    ASSUME NEW d, NEW ks, DictInv(d, ks), NEW k \in Keys
    PROVE  Find(d, k) <=> k \in ks
  <1>1. InTable(d.ht0, k) <=> k \in Contents(d.ht0) BY InTableExact DEF DictInv
  <1>2. InTable(d.ht1, k) <=> k \in Contents(d.ht1) BY InTableExact DEF DictInv
  <1>3. ~dictIsRehashing(d) => ~InTable(d.ht1, k) BY DEF DictInv, InTable
  <1> QED BY <1>1, <1>2, <1>3 DEF Find, DictInv

\* Moving a bucket loses nothing, repeats nothing and keeps both counters right.
LEMMA MoveInv ==
    ASSUME NEW d, NEW ks, DictInv(d, ks), dictIsRehashing(d),
           NEW i \in 0..(d.ht0.size - 1), IsNextBucket(d, i)
    PROVE  DictInv(MoveBucket(d, i), ks)
  <1> DEFINE t == d.ht0
             u == d.ht1
             m == t.b[i]
             e == MoveBucket(d, i)
             v == e.ht0
             w == e.ht1
  <1>1. TableInv(t) /\ TableInv(u) /\ IsTable(t) /\ IsTable(u) BY DEF DictInv, TableInv
  <1>2. t.size \in Nat /\ u.size \in Nat \ {0} /\ t.used \in Nat /\ u.used \in Nat
    BY <1>1, SizeType DEF DictInv
  <1>3. m \in SUBSET Keys BY <1>1 DEF IsTable
  <1>4. v.size = t.size /\ v.used = t.used - Cardinality(m) /\ v.b = [t.b EXCEPT ![i] = {}]
    BY DEF MoveBucket, Tables, Table
  <1>5. /\ w.size = u.size /\ w.used = u.used + Cardinality(m)
        /\ w.b = [j \in 0..(u.size - 1) |-> u.b[j] \cup {k \in m : Index(k, u) = j}]
    BY DEF MoveBucket, Tables, Table
  <1>6. e.ridx = i + 1 BY DEF MoveBucket, Tables
  <1>7. \A j \in 0..(t.size - 1) : v.b[j] = IF j = i THEN {} ELSE t.b[j]
    BY <1>1, <1>4 DEF IsTable
  <1>8. \A j \in 0..(u.size - 1) : w.b[j] = u.b[j] \cup {k \in m : Index(k, u) = j}
    BY <1>5
  <1>9. \A k \in m : Index(k, u) \in 0..(u.size - 1) BY <1>2, <1>3, IndexType
  <1>10. m \subseteq Contents(t) BY ContentsDef
  <1>11. \A j \in 0..(t.size - 1) : j # i => t.b[j] \cap m = {} BY <1>1 DEF TableInv
  <1> HIDE DEF v, w, e, m
  <1>12. Contents(v) = Contents(t) \ m
    <2>1. ASSUME NEW y, y \in Contents(v) PROVE y \in Contents(t) /\ y \notin m
      <3>1. PICK j \in 0..(t.size - 1) : y \in v.b[j] BY <1>4, <2>1, ContentsDef
      <3>2. j # i /\ y \in t.b[j] BY <1>7, <3>1
      <3>3. y \notin m BY <1>11, <3>2
      <3> QED BY <3>2, <3>3, ContentsDef
    <2>2. \A y : y \in Contents(t) /\ y \notin m => y \in Contents(v)
      BY <1>4, <1>7, ContentsDef DEF m
    <2> QED BY <2>1, <2>2
  <1>13. Contents(w) = Contents(u) \cup m
    <2>1. ASSUME NEW y, y \in Contents(w) PROVE y \in Contents(u) \/ y \in m
      <3>1. PICK j \in 0..(u.size - 1) : y \in w.b[j] BY <1>5, <2>1, ContentsDef
      <3>2. y \in u.b[j] \/ y \in m BY <1>8, <3>1
      <3> QED BY <3>2, ContentsDef
    <2>2. \A y : y \in Contents(u) => y \in Contents(w)
      BY <1>5, <1>8, ContentsDef
    <2>3. \A y : y \in m => y \in Contents(w)
      BY <1>5, <1>8, <1>9, ContentsDef
    <2> QED BY <2>1, <2>2, <2>3
  <1>14. Contents(t) \cap Contents(u) = {} /\ ks = Contents(t) \cup Contents(u)
    BY DEF DictInv
  <1>15. /\ IsFiniteSet(Contents(t)) /\ IsFiniteSet(Contents(u)) /\ IsFiniteSet(m)
         /\ t.used = Cardinality(Contents(t)) /\ u.used = Cardinality(Contents(u))
    <2>1. IsFiniteSet(Contents(t)) /\ IsFiniteSet(Contents(u)) BY <1>1, ContentsFinite
    <2>2. IsFiniteSet(m) BY <2>1, <1>10, FS_Subset
    <2> QED BY <2>1, <2>2, <1>1 DEF TableInv
  <1>16. v.used = Cardinality(Contents(v)) /\ v.used \in Nat
    <2>1. Contents(t) \cap m = m BY <1>10
    <2>2. /\ Cardinality(Contents(t) \ m) = Cardinality(Contents(t)) - Cardinality(m)
          /\ IsFiniteSet(Contents(t) \ m)
      <3> DEFINE c == Contents(t)
      <3> HIDE DEF c
      <3>1. Cardinality(c \ m) = Cardinality(c) - Cardinality(c \cap m) /\ IsFiniteSet(c \ m)
        BY <1>15, FS_Difference DEF c
      <3> QED BY <2>1, <3>1 DEF c
    <2>3. Cardinality(Contents(t) \ m) \in Nat BY <2>2, FS_CardinalityType
    <2> QED BY <1>4, <1>12, <1>15, <2>2, <2>3 DEF m
  <1>17. w.used = Cardinality(Contents(w)) /\ w.used \in Nat
    <2>1. Contents(u) \cap m = {} BY <1>10, <1>14
    <2>2. /\ Cardinality(Contents(u) \cup m)
                = Cardinality(Contents(u)) + Cardinality(m) - Cardinality({})
          /\ IsFiniteSet(Contents(u) \cup m)
      BY <1>15, <2>1, FS_Union
    <2>3. Cardinality({}) = 0 /\ Cardinality(m) \in Nat /\ Cardinality(Contents(u)) \in Nat
      BY <1>15, FS_EmptySet, FS_CardinalityType
    <2> QED BY <1>5, <1>13, <1>15, <2>2, <2>3 DEF m
  <1>18. IsTable(v)
    <2>1. v.b \in [0..(v.size - 1) -> SUBSET Keys] BY <1>1, <1>4 DEF IsTable
    <2> QED BY <1>1, <1>4, <1>16, <2>1 DEF IsTable
  <1>19. IsTable(w)
    <2>1. w.b \in [0..(w.size - 1) -> SUBSET Keys]
      <3>1. \A j \in 0..(u.size - 1) : u.b[j] \cup {k \in m : Index(k, u) = j} \in SUBSET Keys
        BY <1>1, <1>3 DEF IsTable, m
      <3> QED BY <1>5, <3>1 DEF m
    <2> QED BY <1>1, <1>5, <1>17, <2>1 DEF IsTable
  <1>20. \A j \in 0..(v.size - 1) : \A k \in v.b[j] : Index(k, v) = j
    BY <1>1, <1>4, <1>7 DEF TableInv, Index
  <1>21. \A j \in 0..(w.size - 1) : \A k \in w.b[j] : Index(k, w) = j
    BY <1>1, <1>5, <1>8 DEF TableInv, Index
  <1>22. TableInv(v) /\ TableInv(w) BY <1>16, <1>17, <1>18, <1>19, <1>20, <1>21 DEF TableInv
  <1>23. \A j \in 0..(v.size - 1) : j < i + 1 => v.b[j] = {}
    <2>1. \A j \in 0..(t.size - 1) : j < d.ridx => t.b[j] = {} BY DEF DictInv
    <2>2. \A j \in 0..(t.size - 1) : d.ridx <= j /\ j < i => t.b[j] = {}
      BY DEF IsNextBucket, DictInv
    <2>3. d.ridx \in Int BY DEF DictInv
    <2> QED BY <1>2, <1>4, <1>7, <2>1, <2>2, <2>3
  <1>24. Contents(v) \cap Contents(w) = {} /\ ks = Contents(v) \cup Contents(w)
    BY <1>10, <1>12, <1>13, <1>14
  <1>25. v.size # 0 /\ w.size # 0 BY <1>4, <1>5 DEF DictInv
  <1>26. e.ridx \in Nat /\ dictIsRehashing(e) BY <1>2, <1>6 DEF dictIsRehashing
  <1> QED BY <1>6, <1>22, <1>23, <1>24, <1>25, <1>26 DEF DictInv, v, w, e

\* When ht[0]'s counter is 0 the table is empty.
LEMMA UsedZero ==
    ASSUME NEW t, TableInv(t), t.used = 0
    PROVE  Contents(t) = {}
  <1>1. IsFiniteSet(Contents(t)) BY ContentsFinite DEF TableInv
  <1> QED BY <1>1, FS_EmptySet DEF TableInv

\* dictRehash: a bucket is moved, or an empty ht[0] is replaced.
LEMMA RehashInv ==
    ASSUME NEW d, NEW ks, DictInv(d, ks), NEW e \in dictRehash(d)
    PROVE  DictInv(e, ks)
  <1>1. CASE ~dictIsRehashing(d) BY <1>1 DEF dictRehash
  <1>2. CASE dictIsRehashing(d) /\ d.ht0.used = 0
    <2>1. e.ht0 = d.ht1 /\ e.ht1 = NoTable /\ e.ridx = -1 BY <1>2 DEF dictRehash, Tables
    <2>2. Contents(d.ht0) = {} BY <1>2, UsedZero DEF DictInv
    <2>3. TableInv(NoTable) /\ NoTable.size = 0 /\ Contents(NoTable) = {}
      BY NewTableInv DEF NoTable
    <2> QED BY <2>1, <2>2, <2>3 DEF DictInv, dictIsRehashing
  <1>3. CASE dictIsRehashing(d) /\ d.ht0.used # 0
    <2>1. PICK i \in 0..(d.ht0.size - 1) : IsNextBucket(d, i) /\ e = MoveBucket(d, i)
      BY <1>3 DEF dictRehash
    <2> QED BY <1>3, <2>1, MoveInv
  <1> QED BY <1>1, <1>2, <1>3

\* The same while iterators may suspend the rehashing.
LEMMA StepInv ==
    ASSUME NEW d, NEW ks, DictInv(d, ks), NEW e \in _dictRehashStep(d)
    PROVE  DictInv(e, ks)
  BY RehashInv DEF _dictRehashStep

\* dictExpand: a new empty table.
LEMMA ExpandInv ==
    ASSUME NEW d, NEW ks, DictInv(d, ks), NEW n, NEW e \in dictExpand(d, n)
    PROVE  DictInv(e, ks)
  <1>1. CASE dictIsRehashing(d) \/ d.ht0.used > n BY <1>1 DEF dictExpand
  <1>2. CASE ~(dictIsRehashing(d) \/ d.ht0.used > n)
    <2>1. PICK s \in TableSizes :
            e = IF d.ht0.size = 0 THEN Tables(NewTable(s), d.ht1, d.ridx)
                                  ELSE Tables(d.ht0, NewTable(s), 0)
      BY <1>2 DEF dictExpand
    <2>2. TableInv(NewTable(s)) /\ NewTable(s).size = s /\ Contents(NewTable(s)) = {}
      BY NewTableInv
    <2>3. s # 0 BY DictAssumption
    <2>4. ~dictIsRehashing(d) /\ d.ht1.size = 0 /\ Contents(d.ht1) = {}
      <3>1. d.ht1.size = 0 BY <1>2 DEF DictInv
      <3>2. 0..(d.ht1.size - 1) = {} BY <3>1
      <3> QED BY <1>2, <3>1, <3>2, ContentsDef
    <2>5. CASE d.ht0.size = 0
      <3>1. e.ht0 = NewTable(s) /\ e.ht1 = d.ht1 /\ e.ridx = d.ridx BY <2>1, <2>5 DEF Tables
      <3>2. 0..(d.ht0.size - 1) = {} BY <2>5
      <3>3. Contents(d.ht0) = {} BY <3>2, ContentsDef
      <3>4. ~dictIsRehashing(e) BY <2>4, <3>1 DEF dictIsRehashing
      <3> QED BY <2>2, <2>4, <3>1, <3>3, <3>4 DEF DictInv
    <2>6. CASE d.ht0.size # 0
      <3>1. e.ht0 = d.ht0 /\ e.ht1 = NewTable(s) /\ e.ridx = 0 BY <2>1, <2>6 DEF Tables
      <3>2. \A j \in 0..(e.ht0.size - 1) : ~(j < e.ridx) BY <3>1
      <3>3. e.ht1.size # 0 BY <2>2, <2>3, <3>1
      <3>4. e.ridx \in Nat /\ dictIsRehashing(e) BY <3>1 DEF dictIsRehashing
      <3> QED BY <2>2, <2>4, <2>6, <3>1, <3>2, <3>3, <3>4 DEF DictInv
    <2> QED BY <2>5, <2>6
  <1> QED BY <1>1, <1>2

\* _dictExpandIfNeeded, after which there is a table to insert into.
LEMMA ExpandIfNeededInv ==
    ASSUME NEW d, NEW ks, DictInv(d, ks), NEW e \in _dictExpandIfNeeded(d)
    PROVE  DictInv(e, ks) /\ e.ht0.size # 0
  <1>0. d.ht0.used \in Nat /\ d.ht0.size \in Nat BY SizeType DEF DictInv, TableInv
  <1>1. CASE dictIsRehashing(d) BY <1>1 DEF _dictExpandIfNeeded, DictInv
  <1>2. CASE ~dictIsRehashing(d) /\ d.ht0.size = 0
    <2>1. e \in dictExpand(d, InitialSize) BY <1>2 DEF _dictExpandIfNeeded
    <2>2. DictInv(e, ks) BY <2>1, ExpandInv
    <2>3. d.ht0.used = 0
      <3>1. 0..(d.ht0.size - 1) = {} BY <1>2
      <3>2. Contents(d.ht0) = {} BY <3>1, ContentsDef
      <3> QED BY <3>2, FS_EmptySet DEF DictInv, TableInv
    <2>4. InitialSize \in Nat BY DictAssumption
    <2>5. ~(d.ht0.used > InitialSize) BY <2>3, <2>4
    <2>6. PICK s \in TableSizes : e = Tables(NewTable(s), d.ht1, d.ridx)
      BY <1>2, <2>1, <2>5 DEF dictExpand
    <2>7. e.ht0.size = s /\ s # 0 BY <2>6, DictAssumption DEF Tables, NewTable, Table
    <2> QED BY <2>2, <2>7
  <1>3. CASE ~dictIsRehashing(d) /\ d.ht0.size # 0
    <2>1. CASE e \in dictExpand(d, d.ht0.used * 2)
      <3>1. DictInv(e, ks) BY <2>1, ExpandInv
      <3>2. e = d \/ \E s \in TableSizes : e = Tables(d.ht0, NewTable(s), 0)
        BY <1>3, <2>1 DEF dictExpand
      <3>3. e.ht0 = d.ht0 BY <3>2 DEF Tables
      <3> QED BY <1>3, <3>1, <3>3
    <2>2. CASE e = d BY <1>3, <2>2
    <2> QED BY <1>3, <2>1, <2>2 DEF _dictExpandIfNeeded
  <1> QED BY <1>1, <1>2, <1>3

\* The insertion of dictAddRaw: into ht[1] while rehashing, else into ht[0].
LEMMA InsertInv ==
    ASSUME NEW e, NEW ks, DictInv(e, ks), e.ht0.size # 0, NEW k \in Keys, ~Find(e, k)
    PROVE  /\ dictIsRehashing(e) => DictInv(Tables(e.ht0, PutIn(e.ht1, k), e.ridx), ks \cup {k})
           /\ ~dictIsRehashing(e) => DictInv(Tables(PutIn(e.ht0, k), e.ht1, e.ridx), ks \cup {k})
  <1>1. k \notin Contents(e.ht0) /\ k \notin Contents(e.ht1) BY FindInv DEF DictInv
  <1>2. ASSUME dictIsRehashing(e)
        PROVE  DictInv(Tables(e.ht0, PutIn(e.ht1, k), e.ridx), ks \cup {k})
    <2> DEFINE f == Tables(e.ht0, PutIn(e.ht1, k), e.ridx)
    <2>1. f.ht0 = e.ht0 /\ f.ht1 = PutIn(e.ht1, k) /\ f.ridx = e.ridx BY DEF Tables
    <2>2. /\ TableInv(PutIn(e.ht1, k)) /\ PutIn(e.ht1, k).size = e.ht1.size
          /\ Contents(PutIn(e.ht1, k)) = Contents(e.ht1) \cup {k}
      BY <1>1, <1>2, PutInv DEF DictInv
    <2> HIDE DEF f
    <2>3. dictIsRehashing(f) BY <1>2, <2>1 DEF dictIsRehashing
    <2>4. /\ Contents(f.ht0) \cap Contents(f.ht1) = {}
          /\ ks \cup {k} = Contents(f.ht0) \cup Contents(f.ht1)
      BY <1>1, <2>1, <2>2 DEF DictInv
    <2>5. DictInv(f, ks \cup {k}) BY <1>2, <2>1, <2>2, <2>3, <2>4 DEF DictInv
    <2> QED BY <2>5 DEF f
  <1>3. ASSUME ~dictIsRehashing(e)
        PROVE  DictInv(Tables(PutIn(e.ht0, k), e.ht1, e.ridx), ks \cup {k})
    <2> DEFINE f == Tables(PutIn(e.ht0, k), e.ht1, e.ridx)
    <2>1. f.ht0 = PutIn(e.ht0, k) /\ f.ht1 = e.ht1 /\ f.ridx = e.ridx BY DEF Tables
    <2>2. /\ TableInv(PutIn(e.ht0, k)) /\ PutIn(e.ht0, k).size = e.ht0.size
          /\ Contents(PutIn(e.ht0, k)) = Contents(e.ht0) \cup {k}
      BY <1>1, PutInv DEF DictInv
    <2> HIDE DEF f
    <2>3. ~dictIsRehashing(f) BY <1>3, <2>1 DEF dictIsRehashing
    <2>4. /\ Contents(f.ht0) \cap Contents(f.ht1) = {}
          /\ ks \cup {k} = Contents(f.ht0) \cup Contents(f.ht1)
      BY <1>1, <2>1, <2>2 DEF DictInv
    <2>5. DictInv(f, ks \cup {k}) BY <1>3, <2>1, <2>2, <2>3, <2>4 DEF DictInv
    <2> QED BY <2>5 DEF f
  <1> QED BY <1>2, <1>3

\* The unlinking of dictGenericDelete, in the table where the key is.
LEMMA RemoveInv ==
    ASSUME NEW d, NEW ks, DictInv(d, ks), NEW k \in Keys
    PROVE  /\ InTable(d.ht0, k) => DictInv(Tables(TakeOut(d.ht0, k), d.ht1, d.ridx), ks \ {k})
           /\ ~InTable(d.ht0, k) /\ Find(d, k) =>
                DictInv(Tables(d.ht0, TakeOut(d.ht1, k), d.ridx), ks \ {k})
           /\ ~Find(d, k) => DictInv(d, ks \ {k})
  <1>0. TableInv(d.ht0) /\ TableInv(d.ht1) BY DEF DictInv
  <1>1. ASSUME InTable(d.ht0, k)
        PROVE  DictInv(Tables(TakeOut(d.ht0, k), d.ht1, d.ridx), ks \ {k})
    <2> DEFINE f == Tables(TakeOut(d.ht0, k), d.ht1, d.ridx)
    <2>0. k \in Contents(d.ht0) BY <1>0, <1>1, InTableExact
    <2>1. f.ht0 = TakeOut(d.ht0, k) /\ f.ht1 = d.ht1 /\ f.ridx = d.ridx BY DEF Tables
    <2>2. /\ TableInv(f.ht0) /\ f.ht0.size = d.ht0.size
          /\ Contents(f.ht0) = Contents(d.ht0) \ {k}
          /\ \A i \in 0..(d.ht0.size - 1) : f.ht0.b[i] \subseteq d.ht0.b[i]
      BY <1>0, <2>0, <2>1, TakeInv
    <2> HIDE DEF f
    <2>3. dictIsRehashing(f) <=> dictIsRehashing(d) BY <2>1 DEF dictIsRehashing
    <2>4. /\ Contents(f.ht0) \cap Contents(f.ht1) = {}
          /\ ks \ {k} = Contents(f.ht0) \cup Contents(f.ht1)
      BY <2>0, <2>1, <2>2 DEF DictInv
    <2>5. dictIsRehashing(d) => \A j \in 0..(d.ht0.size - 1) : j < d.ridx => f.ht0.b[j] = {}
      BY <2>2 DEF DictInv
    <2>6. DictInv(f, ks \ {k}) BY <2>1, <2>2, <2>3, <2>4, <2>5 DEF DictInv
    <2> QED BY <2>6 DEF f
  <1>2. ASSUME ~InTable(d.ht0, k), Find(d, k)
        PROVE  DictInv(Tables(d.ht0, TakeOut(d.ht1, k), d.ridx), ks \ {k})
    <2> DEFINE f == Tables(d.ht0, TakeOut(d.ht1, k), d.ridx)
    <2>0. k \in Contents(d.ht1) /\ k \notin Contents(d.ht0)
      BY <1>0, <1>2, InTableExact DEF Find
    <2>1. f.ht0 = d.ht0 /\ f.ht1 = TakeOut(d.ht1, k) /\ f.ridx = d.ridx BY DEF Tables
    <2>2. /\ TableInv(f.ht1) /\ f.ht1.size = d.ht1.size
          /\ Contents(f.ht1) = Contents(d.ht1) \ {k}
      BY <1>0, <2>0, <2>1, TakeInv
    <2> HIDE DEF f
    <2>3. dictIsRehashing(f) <=> dictIsRehashing(d) BY <2>1 DEF dictIsRehashing
    <2>4. /\ Contents(f.ht0) \cap Contents(f.ht1) = {}
          /\ ks \ {k} = Contents(f.ht0) \cup Contents(f.ht1)
      BY <2>0, <2>1, <2>2 DEF DictInv
    <2>5. DictInv(f, ks \ {k}) BY <2>1, <2>2, <2>3, <2>4 DEF DictInv
    <2> QED BY <2>5 DEF f
  <1>3. ASSUME ~Find(d, k) PROVE DictInv(d, ks \ {k})
    <2>1. ks \ {k} = ks BY <1>3, FindInv
    <2> QED BY <2>1
  <1> QED BY <1>1, <1>2, <1>3

\* The unbounded search for the next bucket to move ends inside the table.
LEMMA NextBucketExists ==
    ASSUME NEW d, NEW ks, DictInv(d, ks), dictIsRehashing(d), d.ht0.used # 0
    PROVE  \E i \in 0..(d.ht0.size - 1) : IsNextBucket(d, i)
  <1> DEFINE T == {i \in 0..(d.ht0.size - 1) : d.ht0.b[i] # {}}
             R == OpToRel(<, Nat)
  <1>1. d.ht0.size \in Nat /\ d.ridx \in Nat
    BY SizeType DEF DictInv, TableInv, dictIsRehashing
  <1>2. Contents(d.ht0) # {}
    BY FS_EmptySet DEF DictInv, TableInv
  <1>3. T # {} BY <1>2, ContentsDef
  <1>4. T \subseteq Nat BY <1>1
  <1>5. \E i \in T : \A j \in T : ~(<<j, i>> \in R)
    <2> HIDE DEF T, R
    <2>1. IsWellFoundedOn(R, Nat) BY NatLessThanWellFounded DEF R
    <2> QED BY <1>3, <1>4, <2>1, WFMin
  <1>6. PICK i \in T : \A j \in T : ~(<<j, i>> \in R) BY <1>5
  <1>7. \A j \in T : ~(j < i)
    <2>1. \A j \in T : j \in Nat /\ i \in Nat BY <1>4
    <2>2. \A j \in T : j < i => <<j, i>> \in R BY <2>1 DEF OpToRel
    <2> QED BY <1>6, <2>2
  <1>8. i \in 0..(d.ht0.size - 1) /\ d.ht0.b[i] # {} BY <1>6
  <1>9. \A j \in 0..(d.ht0.size - 1) : j < i => d.ht0.b[j] = {} BY <1>7
  <1> HIDE DEF T, R
  <1>10. \A j \in 0..(d.ht0.size - 1) : j < d.ridx => d.ht0.b[j] = {} BY DEF DictInv
  <1>11. i >= d.ridx BY <1>1, <1>8, <1>10
  <1>12. \A j \in d.ridx..(i - 1) : d.ht0.b[j] = {} BY <1>1, <1>8, <1>9
  <1> QED BY <1>1, <1>8, <1>11, <1>12 DEF IsNextBucket

(***************************************************************************)
(* The specification.                                                      *)
(***************************************************************************)

\* The invariant implies the two properties.
LEMMA InvImplies == Inv => FindExact /\ RehashSafe
  <1> SUFFICES ASSUME Inv PROVE FindExact /\ RehashSafe OBVIOUS
  <1>1. DictInv(dict, keys) BY DEF Inv
  <1>2. FindExact BY <1>1, FindInv DEF FindExact
  <1>3. RehashSafe
    <2> SUFFICES ASSUME dictIsRehashing(dict)
                 PROVE  IF dict.ht0.used = 0 THEN Contents(dict.ht0) = {}
                        ELSE \E i \in 0..(dict.ht0.size - 1) : IsNextBucket(dict, i)
      BY DEF RehashSafe
    <2>1. CASE dict.ht0.used = 0 BY <1>1, <2>1, UsedZero DEF DictInv
    <2>2. CASE dict.ht0.used # 0 BY <1>1, <2>2, NextBucketExists
    <2> QED BY <2>1, <2>2
  <1> QED BY <1>2, <1>3

\* What TypeOK says of the tables follows from the rest.
LEMMA TablesType ==
    ASSUME NEW d, NEW ks, DictInv(d, ks)
    PROVE  /\ IsTable(d.ht0) /\ IsTable(d.ht1) /\ d.ridx \in Nat \cup {-1}
           /\ dictIsRehashing(d) => d.ht0.size # 0 /\ d.ht1.size # 0
           /\ ks \subseteq Keys
  <1>1. IsTable(d.ht0) /\ IsTable(d.ht1) BY DEF DictInv, TableInv
  <1>2. Contents(d.ht0) \subseteq Keys /\ Contents(d.ht1) \subseteq Keys BY <1>1, ContentsFinite
  <1> QED BY <1>1, <1>2 DEF DictInv

\* An empty dictionary with no tables.
LEMMA EmptyInv == DictInv(Tables(NoTable, NoTable, -1), {})
  <1> DEFINE d == Tables(NoTable, NoTable, -1)
  <1>1. TableInv(NoTable) /\ NoTable.size = 0 /\ Contents(NoTable) = {}
    BY NewTableInv DEF NoTable
  <1>2. d.ht0 = NoTable /\ d.ht1 = NoTable /\ d.ridx = -1 BY DEF Tables
  <1> HIDE DEF d
  <1>3. ~dictIsRehashing(d) BY <1>2 DEF dictIsRehashing
  <1>4. DictInv(d, {}) BY <1>1, <1>2, <1>3 DEF DictInv
  <1> QED BY <1>4 DEF d

\* _dictInit: the empty dictionary, no iterator open, satisfies the invariant.
LEMMA InitInv == Init => Inv
  <1> SUFFICES ASSUME Init PROVE Inv OBVIOUS
  <1>1. DictInv(dict, keys) BY EmptyInv DEF Init
  <1>2. iter \in [Iters -> Iterator] BY DEF Init, NoIter, Iterator
  <1>3. {i \in Iters : iter[i].phase = "on"} = {} BY DEF Init, NoIter
  <1>4. iterators = Cardinality({i \in Iters : iter[i].phase = "on"})
    BY <1>3, FS_EmptySet DEF Init
  <1>5. TypeOK BY <1>1, <1>2, <1>4, TablesType DEF TypeOK, Init
  <1> QED BY <1>1, <1>5 DEF Inv

\* The part of TypeOK about the iterators.
IterOK ==
    /\ iter \in [Iters -> Iterator]
    /\ iterators = Cardinality({i \in Iters : iter[i].phase = "on"})

\* Operations on the dictionary.
LEMMA DictStep ==
    ASSUME Inv, [Next]_vars
    PROVE  DictInv(dict', keys')
  <1>0. DictInv(dict, keys) BY DEF Inv
  <1>1. ASSUME NEW k \in Keys, dictAddRaw(k) PROVE DictInv(dict', keys')
    <2>1. PICK d \in _dictRehashStep(dict) : \E e \in _dictExpandIfNeeded(d) :
            dict' = CASE Find(e, k) -> e
                      [] ~Find(e, k) /\ dictIsRehashing(e) -> Tables(e.ht0, PutIn(e.ht1, k), e.ridx)
                      [] OTHER -> Tables(PutIn(e.ht0, k), e.ht1, e.ridx)
      BY <1>1 DEF dictAddRaw
    <2>2. PICK e \in _dictExpandIfNeeded(d) :
            dict' = CASE Find(e, k) -> e
                      [] ~Find(e, k) /\ dictIsRehashing(e) -> Tables(e.ht0, PutIn(e.ht1, k), e.ridx)
                      [] OTHER -> Tables(PutIn(e.ht0, k), e.ht1, e.ridx)
      BY <2>1
    <2>3. DictInv(d, keys) BY <1>0, StepInv
    <2>4. DictInv(e, keys) /\ e.ht0.size # 0 BY <2>3, ExpandIfNeededInv
    <2>5. keys' = keys \cup {k} BY <1>1 DEF dictAddRaw
    <2>6. CASE Find(e, k)
      <3>1. dict' = e BY <2>2, <2>6
      <3>2. keys' = keys BY <2>4, <2>5, <2>6, FindInv
      <3> QED BY <2>4, <3>1, <3>2
    <2>7. CASE ~Find(e, k) /\ dictIsRehashing(e)
      <3>1. dict' = Tables(e.ht0, PutIn(e.ht1, k), e.ridx) BY <2>2, <2>7
      <3> QED BY <2>4, <2>5, <2>7, <3>1, InsertInv
    <2>8. CASE ~Find(e, k) /\ ~dictIsRehashing(e)
      <3>1. dict' = Tables(PutIn(e.ht0, k), e.ht1, e.ridx) BY <2>2, <2>8
      <3> QED BY <2>4, <2>5, <2>8, <3>1, InsertInv
    <2> QED BY <2>6, <2>7, <2>8
  <1>2. ASSUME NEW k \in Keys, dictGenericDelete(k) PROVE DictInv(dict', keys')
    <2>1. PICK d \in _dictRehashStep(dict) :
            dict' = CASE InTable(d.ht0, k) -> Tables(TakeOut(d.ht0, k), d.ht1, d.ridx)
                      [] ~InTable(d.ht0, k) /\ Find(d, k) -> Tables(d.ht0, TakeOut(d.ht1, k), d.ridx)
                      [] OTHER -> d
      BY <1>2 DEF dictGenericDelete
    <2>2. DictInv(d, keys) BY <1>0, StepInv
    <2>3. keys' = keys \ {k} BY <1>2 DEF dictGenericDelete, Forget
    <2>4. CASE InTable(d.ht0, k)
      <3>1. dict' = Tables(TakeOut(d.ht0, k), d.ht1, d.ridx) BY <2>1, <2>4
      <3> QED BY <2>2, <2>3, <2>4, <3>1, RemoveInv
    <2>5. CASE ~InTable(d.ht0, k) /\ Find(d, k)
      <3>1. dict' = Tables(d.ht0, TakeOut(d.ht1, k), d.ridx) BY <2>1, <2>5
      <3> QED BY <2>2, <2>3, <2>5, <3>1, RemoveInv
    <2>6. CASE ~InTable(d.ht0, k) /\ ~Find(d, k)
      <3>1. dict' = d BY <2>1, <2>6
      <3> QED BY <2>2, <2>3, <2>6, <3>1, RemoveInv
    <2> QED BY <2>4, <2>5, <2>6
  <1>3. CASE dictFind BY <1>0, <1>3, StepInv DEF dictFind
  <1>4. CASE dictEmpty
    <2>1. keys' = {} BY <1>4 DEF dictEmpty, Forget
    <2> QED BY <1>4, <2>1, EmptyInv DEF dictEmpty
  <1>5. CASE dictResize BY <1>0, <1>5, ExpandInv DEF dictResize
  <1>6. CASE dictRehashMilliseconds BY <1>0, <1>6, RehashInv DEF dictRehashMilliseconds
  <1>7. CASE UNCHANGED <<dict, keys>> BY <1>0, <1>7
  <1>8. updateDictResizePolicy => UNCHANGED <<dict, keys>> BY DEF updateDictResizePolicy
  <1>9. \A i \in Iters : StartIter(i) \/ dictNext(i) \/ dictReleaseIterator(i) => UNCHANGED <<dict, keys>>
    BY DEF StartIter, dictNext, dictReleaseIterator
  <1>10. ScanStart \/ ScanStep \/ UNCHANGED vars => UNCHANGED <<dict, keys>>
    BY DEF ScanStart, ScanStep, vars
  <1> QED BY <1>1, <1>2, <1>3, <1>4, <1>5, <1>6, <1>7, <1>8, <1>9, <1>10 DEF Next

\* Iterators are counted as they are opened and closed.
LEMMA IterStep ==
    ASSUME Inv, [Next]_vars
    PROVE  IterOK'
  <1> DEFINE On == {i \in Iters : iter[i].phase = "on"}
  <1>0. IterOK /\ DictInv(dict, keys) BY DEF Inv, TypeOK, IterOK
  <1>1. keys \subseteq Keys /\ IsTable(dict.ht0) /\ IsTable(dict.ht1) BY <1>0, TablesType
  <1>2. IsFiniteSet(On) /\ iterators = Cardinality(On)
    <2>1. On \in SUBSET Iters OBVIOUS
    <2>2. IsFiniteSet(On) BY <2>1, DictAssumption, FS_Subset
    <2> QED BY <1>0, <2>2 DEF IterOK
  <1>3. CASE UNCHANGED <<iter, iterators>> BY <1>0, <1>3 DEF IterOK
  <1>4. ASSUME NEW ks, Forget(ks), UNCHANGED iterators PROVE IterOK'
    <2>1. iter' = [i \in Iters |-> [iter[i] EXCEPT !.owed = @ \ ks, !.seen = @ \ ks]]
      BY <1>4 DEF Forget
    <2>2. iter' \in [Iters -> Iterator] BY <1>0, <2>1 DEF IterOK, Iterator
    <2>3. \A i \in Iters : iter'[i].phase = iter[i].phase BY <1>0, <2>1 DEF IterOK, Iterator
    <2>4. {i \in Iters : iter'[i].phase = "on"} = On BY <2>3
    <2> QED BY <1>2, <1>4, <2>2, <2>4 DEF IterOK
  <1>5. ASSUME NEW i \in Iters, StartIter(i) PROVE IterOK'
    <2>1. iter' \in [Iters -> Iterator] BY <1>0, <1>1, <1>5 DEF IterOK, StartIter, NoIter, Iterator
    <2>2. {j \in Iters : iter'[j].phase = "on"} = On \cup {i}
      BY <1>0, <1>5 DEF IterOK, StartIter, NoIter, Iterator
    <2>3. i \notin On BY <1>5 DEF StartIter
    <2>4. Cardinality(On \cup {i}) = Cardinality(On) + 1 BY <1>2, <2>3, FS_AddElement
    <2> QED BY <1>2, <1>5, <2>1, <2>2, <2>4 DEF IterOK, StartIter
  <1>6. ASSUME NEW i \in Iters, iter[i].phase = "on",
               NEW r \in Iterator, r.phase # "on",
               iter' = [iter EXCEPT ![i] = r], iterators' = iterators - 1
        PROVE  IterOK'
    <2>1. iter' \in [Iters -> Iterator] BY <1>0, <1>6 DEF IterOK
    <2>2. {j \in Iters : iter'[j].phase = "on"} = On \ {i} BY <1>0, <1>6 DEF IterOK
    <2>3. Cardinality(On \ {i}) = Cardinality(On) - 1 BY <1>2, <1>6, FS_RemoveElement
    <2> QED BY <1>2, <1>6, <2>1, <2>2, <2>3 DEF IterOK
  <1>7. ASSUME NEW i \in Iters, iter[i].phase = "on", NEW r \in Iterator, r.phase = "on",
               iter' = [iter EXCEPT ![i] = r], iterators' = iterators
        PROVE  IterOK'
    <2>1. iter' \in [Iters -> Iterator] BY <1>0, <1>7 DEF IterOK
    <2>2. {j \in Iters : iter'[j].phase = "on"} = On BY <1>0, <1>7 DEF IterOK
    <2> QED BY <1>2, <1>7, <2>1, <2>2 DEF IterOK
  <1>8. ASSUME NEW i \in Iters, dictReleaseIterator(i) PROVE IterOK'
    <2>1. NoIter \in Iterator /\ NoIter.phase # "on" BY DEF NoIter, Iterator
    <2> QED BY <1>6, <1>8, <2>1 DEF dictReleaseIterator
  <1>9. ASSUME NEW i \in Iters, dictNext(i) PROVE IterOK'
    <2> DEFINE it == iter[i]
    <2>0. it \in Iterator /\ it.phase = "on" BY <1>0, <1>9 DEF IterOK, dictNext
    <2>1. ASSUME NEW r \in Iterator, r.phase = "on", NEW k \in Keys, NEW rest \in SUBSET Keys
          PROVE  Return(r, k, rest) \in Iterator /\ Return(r, k, rest).phase = "on"
      BY <2>1 DEF Return, Iterator
    <2>2. CASE it.rest # {} /\ UNCHANGED iterators
               /\ \E k \in it.rest : iter' = [iter EXCEPT ![i] = Return(it, k, it.rest \ {k})]
      <3>1. PICK k \in it.rest : iter' = [iter EXCEPT ![i] = Return(it, k, it.rest \ {k})]
        BY <2>2
      <3>2. it.rest \in SUBSET Keys BY <2>0 DEF Iterator
      <3> QED BY <1>7, <2>0, <2>1, <2>2, <3>1, <3>2
    <2>3. ASSUME NEW p \in Ahead(it), NEW k \in Bucket(p[1], p[2]), UNCHANGED iterators,
                 iter' = [iter EXCEPT ![i] = Return([it EXCEPT !.table = p[1], !.index = p[2]],
                                                    k, Bucket(p[1], p[2]) \ {k})]
          PROVE  IterOK'
      <3>1. p \in Slots BY DEF Ahead
      <3>2. \/ \E j \in 0..(dict.ht0.size - 1) : p = <<0, j>>
            \/ \E j \in 0..(dict.ht1.size - 1) : p = <<1, j>>
        BY <3>1 DEF Slots
      <3>3. dict.ht0.size \in Nat /\ dict.ht1.size \in Nat BY <1>1, SizeType
      <3>4. p[1] \in {0, 1} /\ p[2] \in Nat BY <3>2, <3>3
      <3>5. Bucket(p[1], p[2]) \in SUBSET Keys
        <4>1. ASSUME NEW j \in 0..(dict.ht0.size - 1), p = <<0, j>>
              PROVE  Bucket(p[1], p[2]) \in SUBSET Keys
          <5>1. Bucket(p[1], p[2]) = dict.ht0.b[j] BY <4>1 DEF Bucket
          <5> QED BY <1>1, <5>1 DEF IsTable
        <4>2. ASSUME NEW j \in 0..(dict.ht1.size - 1), p = <<1, j>>
              PROVE  Bucket(p[1], p[2]) \in SUBSET Keys
          <5>1. Bucket(p[1], p[2]) = dict.ht1.b[j] BY <4>2 DEF Bucket
          <5> QED BY <1>1, <5>1 DEF IsTable
        <4> QED BY <3>2, <4>1, <4>2
      <3>6. [it EXCEPT !.table = p[1], !.index = p[2]] \in Iterator
            /\ [it EXCEPT !.table = p[1], !.index = p[2]].phase = "on"
        BY <2>0, <3>4 DEF Iterator
      <3> QED BY <1>7, <2>0, <2>1, <2>3, <3>5, <3>6
    <2>4. CASE /\ iter' = [iter EXCEPT ![i] = [NoIter EXCEPT !.phase = "done", !.owed = it.owed]]
               /\ iterators' = iterators - 1
      <3> DEFINE r == [NoIter EXCEPT !.phase = "done", !.owed = it.owed]
      <3>1. r \in Iterator /\ r.phase # "on" BY <2>0 DEF NoIter, Iterator
      <3> QED BY <1>6, <2>0, <2>4, <3>1
    <2> QED BY <1>9, <2>2, <2>3, <2>4 DEF dictNext
  <1>10. dictFind \/ dictResize \/ dictRehashMilliseconds \/ updateDictResizePolicy
         \/ ScanStart \/ ScanStep \/ UNCHANGED vars => UNCHANGED <<iter, iterators>>
    BY DEF dictFind, dictResize, dictRehashMilliseconds, updateDictResizePolicy,
           ScanStart, ScanStep, vars
  <1>11. \A k \in Keys : dictAddRaw(k) => UNCHANGED <<iter, iterators>> BY DEF dictAddRaw
  <1>12. ASSUME NEW k \in Keys, dictGenericDelete(k) PROVE IterOK'
    BY <1>4, <1>12 DEF dictGenericDelete
  <1>13. CASE dictEmpty BY <1>4, <1>13 DEF dictEmpty
  <1> QED BY <1>3, <1>5, <1>8, <1>9, <1>10, <1>11, <1>12, <1>13 DEF Next

\* Every operation of dict.c preserves the invariant.
LEMMA NextInv == Inv /\ [Next]_vars => Inv'
  <1> SUFFICES ASSUME Inv, [Next]_vars PROVE Inv' OBVIOUS
  <1>1. DictInv(dict', keys') BY DictStep
  <1>2. IterOK' BY IterStep
  <1>3. canResize' \in BOOLEAN
    BY DEF Inv, TypeOK, Next, vars, dictAddRaw, dictGenericDelete, dictFind, dictEmpty, dictResize,
           dictRehashMilliseconds, updateDictResizePolicy, StartIter, dictNext,
           dictReleaseIterator, ScanStart, ScanStep
  <1>4. TypeOK' BY <1>1, <1>2, <1>3, TablesType DEF TypeOK, IterOK, dictIsRehashing
  <1> QED BY <1>1, <1>4 DEF Inv

(***************************************************************************)
(* Safe iterators.                                                         *)
(***************************************************************************)

\* The table and the bucket a key of the dictionary is in, and the ones an
\* iterator stands at.
Place(d, k) == IF k \in Contents(d.ht0) THEN <<0, Index(k, d.ht0)>> ELSE <<1, Index(k, d.ht1)>>
At(it) == <<it.table, it.index>>

\* An open iterator: what is left of its chain is in the bucket it stands at and
\* was not returned; what it returned is not ahead of it; what it still owes is
\* left in the chain or ahead.
Walk(d, ks, it) ==
    /\ it.rest \subseteq ks /\ it.seen \subseteq ks /\ it.owed \subseteq ks
    /\ it.rest \cap it.seen = {}
    /\ \A k \in it.rest : Place(d, k) = At(it)
    /\ \A k \in it.seen : ~Before(At(it), Place(d, k))
    /\ \A k \in it.owed : k \in it.rest \/ Before(At(it), Place(d, k))

\* Inductive strengthening of IterExact.
IterInv ==
    \A i \in Iters :
        /\ iter[i].phase = "on" => Walk(dict, keys, iter[i])
        /\ iter[i].phase # "on" => iter[i].owed = {} /\ iter[i].rest = {}
        /\ ~(iter[i].twice)

\* Lookup order: positions of an iterator and buckets compare like pairs.
LEMMA BeforeOrder ==
    ASSUME NEW a \in Int, NEW b \in Int, NEW c \in Int, NEW d \in Int, NEW e \in Int, NEW f \in Int
    PROVE  /\ Before(<<a, b>>, <<c, d>>) /\ Before(<<c, d>>, <<e, f>>) => Before(<<a, b>>, <<e, f>>)
           /\ ~Before(<<a, b>>, <<a, b>>)
  BY DEF Before

\* A key of the dictionary is in one bucket, of one table.
LEMMA BucketPlace ==
    ASSUME DictInv(dict, keys), NEW p \in Slots
    PROVE  Bucket(p[1], p[2]) = {k \in keys : Place(dict, k) = p}
  <1>1. /\ TableInv(dict.ht0) /\ TableInv(dict.ht1)
        /\ Contents(dict.ht0) \cap Contents(dict.ht1) = {}
        /\ keys = Contents(dict.ht0) \cup Contents(dict.ht1)
    BY DEF DictInv
  <1>2. ASSUME NEW j \in 0..(dict.ht0.size - 1), p = <<0, j>>
        PROVE  Bucket(p[1], p[2]) = {k \in keys : Place(dict, k) = p}
    <2>1. Bucket(p[1], p[2]) = dict.ht0.b[j] BY <1>2 DEF Bucket
    <2>2. \A k \in dict.ht0.b[j] : k \in Contents(dict.ht0) /\ Index(k, dict.ht0) = j
      BY <1>1, ContentsDef DEF TableInv
    <2>3. \A k \in Contents(dict.ht0) : Index(k, dict.ht0) = j => k \in dict.ht0.b[j]
      BY <1>1, ContentsDef DEF TableInv
    <2>4. \A k \in keys : Place(dict, k) = p <=> k \in Contents(dict.ht0) /\ Index(k, dict.ht0) = j
      BY <1>2 DEF Place
    <2> QED BY <1>1, <2>1, <2>2, <2>3, <2>4
  <1>3. ASSUME NEW j \in 0..(dict.ht1.size - 1), p = <<1, j>>
        PROVE  Bucket(p[1], p[2]) = {k \in keys : Place(dict, k) = p}
    <2>1. Bucket(p[1], p[2]) = dict.ht1.b[j] BY <1>3 DEF Bucket
    <2>2. \A k \in dict.ht1.b[j] : k \in Contents(dict.ht1) /\ Index(k, dict.ht1) = j
      BY <1>1, ContentsDef DEF TableInv
    <2>3. \A k \in Contents(dict.ht1) : Index(k, dict.ht1) = j => k \in dict.ht1.b[j]
      BY <1>1, ContentsDef DEF TableInv
    <2>4. \A k \in keys : Place(dict, k) = p <=> k \notin Contents(dict.ht0) /\ Index(k, dict.ht1) = j
      BY <1>3 DEF Place
    <2> QED BY <1>1, <2>1, <2>2, <2>3, <2>4
  <1> QED BY <1>2, <1>3 DEF Slots

\* That bucket is one dictNext visits.
LEMMA PlaceIsSlot ==
    ASSUME DictInv(dict, keys), NEW k \in keys
    PROVE  Place(dict, k) \in Slots
  <1>1. /\ TableInv(dict.ht0) /\ TableInv(dict.ht1) /\ IsTable(dict.ht1)
        /\ keys = Contents(dict.ht0) \cup Contents(dict.ht1)
    BY DEF DictInv, TableInv
  <1>2. CASE k \in Contents(dict.ht0)
    <2>1. Index(k, dict.ht0) \in 0..(dict.ht0.size - 1) BY <1>1, <1>2, ContentsDef DEF TableInv
    <2> QED BY <1>2, <2>1 DEF Place, Slots
  <1>3. CASE k \notin Contents(dict.ht0)
    <2>1. Index(k, dict.ht1) \in 0..(dict.ht1.size - 1) BY <1>1, <1>3, ContentsDef DEF TableInv
    <2>2. dictIsRehashing(dict)
      <3>1. CASE dict.ht1.size = 0
        <4>1. 0..(dict.ht1.size - 1) = {} BY <3>1
        <4> QED BY <2>1, <4>1
      <3> QED BY <3>1 DEF DictInv
    <2> QED BY <1>3, <2>1, <2>2 DEF Place, Slots
  <1> QED BY <1>2, <1>3

\* A slot is a pair of numbers.
LEMMA SlotType ==
    ASSUME DictInv(dict, keys), NEW p \in Slots
    PROVE  p = <<p[1], p[2]>> /\ p[1] \in Int /\ p[2] \in Int
  <1>1. dict.ht0.size \in Nat /\ dict.ht1.size \in Nat BY SizeType DEF DictInv, TableInv
  <1> QED BY <1>1 DEF Slots

\* A table that is added moves nothing.
LEMMA ExpandPlace ==
    ASSUME NEW d, NEW ks, DictInv(d, ks), NEW n, NEW e \in dictExpand(d, n), NEW k \in ks
    PROVE  Place(e, k) = Place(d, k)
  <1>1. CASE dictIsRehashing(d) \/ d.ht0.used > n BY <1>1 DEF dictExpand
  <1>2. CASE ~(dictIsRehashing(d) \/ d.ht0.used > n)
    <2>1. PICK s \in TableSizes :
            e = IF d.ht0.size = 0 THEN Tables(NewTable(s), d.ht1, d.ridx)
                                  ELSE Tables(d.ht0, NewTable(s), 0)
      BY <1>2 DEF dictExpand
    <2>2. Contents(d.ht1) = {}
      <3>1. d.ht1.size = 0 BY <1>2 DEF DictInv
      <3>2. 0..(d.ht1.size - 1) = {} BY <3>1
      <3> QED BY <3>2, ContentsDef
    <2>3. k \in Contents(d.ht0) BY <2>2 DEF DictInv
    <2>4. d.ht0.size # 0
      <3>1. CASE d.ht0.size = 0
        <4>1. 0..(d.ht0.size - 1) = {} BY <3>1
        <4> QED BY <2>3, <4>1, ContentsDef
      <3> QED BY <3>1
    <2>5. e.ht0 = d.ht0 BY <2>1, <2>4 DEF Tables
    <2> QED BY <2>3, <2>5 DEF Place
  <1> QED BY <1>1, <1>2

\* The same when an insertion decides about it.
LEMMA ExpandIfNeededPlace ==
    ASSUME NEW d, NEW ks, DictInv(d, ks), NEW e \in _dictExpandIfNeeded(d), NEW k \in ks
    PROVE  Place(e, k) = Place(d, k)
  <1>1. e = d \/ e \in dictExpand(d, InitialSize) \/ e \in dictExpand(d, d.ht0.used * 2)
    BY DEF _dictExpandIfNeeded
  <1> QED BY <1>1, ExpandPlace

\* An insertion moves no other key.
LEMMA InsertPlace ==
    ASSUME NEW e, NEW ks, DictInv(e, ks), e.ht0.size # 0, NEW k \in Keys, ~Find(e, k), NEW x \in ks
    PROVE  /\ dictIsRehashing(e) => Place(Tables(e.ht0, PutIn(e.ht1, k), e.ridx), x) = Place(e, x)
           /\ ~dictIsRehashing(e) => Place(Tables(PutIn(e.ht0, k), e.ht1, e.ridx), x) = Place(e, x)
  <1>1. k \notin ks BY FindInv
  <1>2. k \notin Contents(e.ht0) /\ k \notin Contents(e.ht1) /\ x # k BY <1>1 DEF DictInv
  <1>3. ASSUME dictIsRehashing(e)
        PROVE  Place(Tables(e.ht0, PutIn(e.ht1, k), e.ridx), x) = Place(e, x)
    <2>1. PutIn(e.ht1, k).size = e.ht1.size BY DEF PutIn, Table
    <2> QED BY <2>1 DEF Place, Tables, Index
  <1>4. ASSUME ~dictIsRehashing(e)
        PROVE  Place(Tables(PutIn(e.ht0, k), e.ht1, e.ridx), x) = Place(e, x)
    <2>1. PutIn(e.ht0, k).size = e.ht0.size /\ Contents(PutIn(e.ht0, k)) = Contents(e.ht0) \cup {k}
      BY <1>2, PutInv DEF DictInv
    <2> QED BY <1>2, <2>1 DEF Place, Tables, Index
  <1> QED BY <1>3, <1>4

\* Nor does a deletion.
LEMMA RemovePlace ==
    ASSUME NEW d, NEW ks, DictInv(d, ks), NEW k \in Keys, NEW x \in ks \ {k}
    PROVE  /\ InTable(d.ht0, k) => Place(Tables(TakeOut(d.ht0, k), d.ht1, d.ridx), x) = Place(d, x)
           /\ Place(Tables(d.ht0, TakeOut(d.ht1, k), d.ridx), x) = Place(d, x)
  <1>1. ASSUME InTable(d.ht0, k)
        PROVE  Place(Tables(TakeOut(d.ht0, k), d.ht1, d.ridx), x) = Place(d, x)
    <2>1. TableInv(d.ht0) BY DEF DictInv
    <2>2. k \in Contents(d.ht0) BY <1>1, <2>1, InTableExact
    <2>3. TakeOut(d.ht0, k).size = d.ht0.size /\ Contents(TakeOut(d.ht0, k)) = Contents(d.ht0) \ {k}
      BY <2>1, <2>2, TakeInv
    <2> QED BY <2>3 DEF Place, Tables, Index
  <1>2. Place(Tables(d.ht0, TakeOut(d.ht1, k), d.ridx), x) = Place(d, x)
    <2>1. TakeOut(d.ht1, k).size = d.ht1.size BY DEF TakeOut, Table
    <2> QED BY <2>1 DEF Place, Tables, Index
  <1> QED BY <1>1, <1>2

\* An iterator goes on undisturbed when the keys it knows of stay where they are
\* and the ones that are gone are no longer its own.
LEMMA WalkStays ==
    ASSUME NEW d, NEW ks, NEW it, Walk(d, ks, it), NEW e, NEW kt, NEW r, At(r) = At(it),
           r.rest = it.rest, r.seen \subseteq it.seen, r.owed \subseteq it.owed,
           r.rest \subseteq kt, r.seen \subseteq kt, r.owed \subseteq kt,
           \A x \in ks \cap kt : Place(e, x) = Place(d, x)
    PROVE  Walk(e, kt, r)
  BY DEF Walk

\* When no iterator is counted none is open.
LEMMA NoneOpen ==
    ASSUME Inv, iterators = 0, NEW i \in Iters
    PROVE  iter[i].phase # "on"
  <1> DEFINE On == {j \in Iters : iter[j].phase = "on"}
  <1>1. IsFiniteSet(On) BY DictAssumption, FS_Subset
  <1>2. Cardinality(On) = 0 BY DEF Inv, TypeOK
  <1> HIDE DEF On
  <1>3. On = {} BY <1>1, <1>2, FS_EmptySet
  <1> QED BY <1>3 DEF On

\* Operations that leave the iterators alone, and the keys they know in place.
LEMMA IterUntouched ==
    ASSUME Inv, IterInv, UNCHANGED iter, keys \subseteq keys',
           iterators # 0 => \A x \in keys : Place(dict', x) = Place(dict, x)
    PROVE  IterInv'
  <1> SUFFICES ASSUME NEW i \in Iters, iter[i].phase = "on" PROVE Walk(dict', keys', iter[i])
    BY DEF IterInv
  <1>1. iterators # 0 BY NoneOpen
  <1>2. Walk(dict, keys, iter[i]) BY DEF IterInv
  <1>3. \A x \in keys \cap keys' : Place(dict', x) = Place(dict, x) BY <1>1
  <1>4. iter[i].rest \subseteq keys' /\ iter[i].seen \subseteq keys' /\ iter[i].owed \subseteq keys'
    BY <1>2 DEF Walk
  <1> QED BY <1>2, <1>3, <1>4, WalkStays

\* A deletion, of a key that is not left in the chain an iterator stands at.
LEMMA IterForgets ==
    ASSUME Inv, IterInv, NEW ks, Forget(ks),
           iterators # 0 => /\ \A i \in Iters : iter[i].rest \cap ks = {}
                            /\ \A x \in keys \ ks : Place(dict', x) = Place(dict, x)
    PROVE  IterInv'
  <1> SUFFICES ASSUME NEW i \in Iters
               PROVE  /\ iter'[i].phase = "on" => Walk(dict', keys', iter'[i])
                      /\ iter'[i].phase # "on" => iter'[i].owed = {} /\ iter'[i].rest = {}
                      /\ ~(iter'[i].twice)
    BY DEF IterInv
  <1> DEFINE it == iter[i]
             r == iter'[i]
  <1>1. it \in Iterator BY DEF Inv, TypeOK
  <1>2. r = [it EXCEPT !.owed = @ \ ks, !.seen = @ \ ks] BY DEF Forget
  <1>3. /\ r.phase = it.phase /\ r.table = it.table /\ r.index = it.index /\ r.rest = it.rest
        /\ r.twice = it.twice /\ r.owed = it.owed \ ks /\ r.seen = it.seen \ ks
    BY <1>1, <1>2 DEF Iterator
  <1>4. keys' = keys \ ks BY DEF Forget
  <1> HIDE DEF r
  <1>5. ASSUME it.phase = "on" PROVE Walk(dict', keys', r)
    <2>1. iterators # 0 BY <1>5, NoneOpen
    <2>2. Walk(dict, keys, it) BY <1>5 DEF IterInv
    <2>3. r.rest \subseteq keys' /\ r.seen \subseteq keys' /\ r.owed \subseteq keys'
      BY <1>3, <1>4, <2>1, <2>2 DEF Walk
    <2>4. \A x \in keys \cap keys' : Place(dict', x) = Place(dict, x) BY <1>4, <2>1
    <2>5. At(r) = At(it) BY <1>3 DEF At
    <2> HIDE DEF it
    <2> QED BY <1>3, <2>2, <2>3, <2>4, <2>5, WalkStays
  <1> QED BY <1>3, <1>5 DEF IterInv, r

\* dictNext returns what is left of the chain.
LEMMA NextInChain ==
    ASSUME NEW it \in Iterator, Walk(dict, keys, it), NEW k \in it.rest
    PROVE  /\ k \notin it.seen
           /\ Walk(dict, keys, Return(it, k, it.rest \ {k}))
  <1> DEFINE r == Return(it, k, it.rest \ {k})
  <1>1. /\ r.table = it.table /\ r.index = it.index /\ r.rest = it.rest \ {k}
        /\ r.owed = it.owed \ {k} /\ r.seen = it.seen \cup {k}
    BY DEF Return, Iterator
  <1>2. At(r) = At(it) BY <1>1 DEF At
  <1> HIDE DEF r
  <1>3. At(it) = <<it.table, it.index>> /\ it.table \in Int /\ it.index \in Int BY DEF At, Iterator
  <1>4. ~Before(At(it), At(it)) BY <1>3, BeforeOrder
  <1>5. Walk(dict, keys, r) BY <1>1, <1>2, <1>4 DEF Walk
  <1> QED BY <1>5 DEF r, Walk

\* dictNext goes on to the first bucket ahead that is not empty.
LEMMA NextBucket ==
    ASSUME DictInv(dict, keys), NEW it \in Iterator, Walk(dict, keys, it), it.rest = {},
           NEW p \in Ahead(it), \A q \in Ahead(it) : q = p \/ Before(p, q),
           NEW k \in Bucket(p[1], p[2])
    PROVE  /\ k \notin it.seen
           /\ Walk(dict, keys, Return([it EXCEPT !.table = p[1], !.index = p[2]],
                                      k, Bucket(p[1], p[2]) \ {k}))
  <1> DEFINE b == Bucket(p[1], p[2])
             r == Return([it EXCEPT !.table = p[1], !.index = p[2]], k, b \ {k})
  <1>1. p \in Slots /\ Before(At(it), p) BY DEF Ahead, At
  <1>2. p = <<p[1], p[2]>> /\ p[1] \in Int /\ p[2] \in Int BY <1>1, SlotType
  <1>3. b = {x \in keys : Place(dict, x) = p} BY <1>1, BucketPlace
  <1>4. /\ r.table = p[1] /\ r.index = p[2] /\ r.rest = b \ {k}
        /\ r.owed = it.owed \ {k} /\ r.seen = it.seen \cup {k}
    BY DEF Return, Iterator
  <1>5. At(r) = p BY <1>2, <1>4 DEF At
  <1> HIDE DEF r, b
  <1>6. k \in b BY DEF b
  <1>7. At(it) = <<it.table, it.index>> /\ it.table \in Int /\ it.index \in Int BY DEF At, Iterator
  <1>8. ~Before(p, p) BY <1>2, BeforeOrder
  <1>9. b \cap it.seen = {} BY <1>1, <1>3 DEF Walk
  <1>10. ASSUME NEW x \in it.seen PROVE ~Before(p, Place(dict, x))
    <2>1. x \in keys /\ ~Before(At(it), Place(dict, x)) BY DEF Walk
    <2>2. Place(dict, x) \in Slots BY <2>1, PlaceIsSlot
    <2> DEFINE q == Place(dict, x)
    <2> HIDE DEF q
    <2>3. q = <<q[1], q[2]>> /\ q[1] \in Int /\ q[2] \in Int BY <2>2, SlotType DEF q
    <2>4. Before(At(it), p) /\ Before(p, q) => Before(At(it), q)
      BY <1>2, <1>7, <2>3, BeforeOrder
    <2> QED BY <1>1, <2>1, <2>4 DEF q
  <1>11. ASSUME NEW x \in it.owed, x # k PROVE x \in b \ {k} \/ Before(p, Place(dict, x))
    <2>1. x \in keys /\ Before(At(it), Place(dict, x)) BY DEF Walk
    <2>2. Place(dict, x) \in Slots BY <2>1, PlaceIsSlot
    <2> DEFINE q == Place(dict, x)
    <2>3. x \in Bucket(q[1], q[2]) BY <2>1, <2>2, BucketPlace
    <2>4. q \in Ahead(it) BY <2>1, <2>2, <2>3 DEF Ahead, At
    <2>5. q = p \/ Before(p, q) BY <2>4
    <2> QED BY <1>3, <1>11, <2>1, <2>5
  <1>12. Walk(dict, keys, r)
    <2>1. r.rest \subseteq keys /\ r.seen \subseteq keys /\ r.owed \subseteq keys
      BY <1>3, <1>4, <1>6 DEF Walk
    <2>2. r.rest \cap r.seen = {} BY <1>4, <1>9
    <2>3. \A x \in r.rest : Place(dict, x) = At(r) BY <1>3, <1>4, <1>5
    <2>4. \A x \in r.seen : ~Before(At(r), Place(dict, x)) BY <1>3, <1>4, <1>5, <1>6, <1>8, <1>10
    <2>5. \A x \in r.owed : x \in r.rest \/ Before(At(r), Place(dict, x)) BY <1>4, <1>5, <1>11
    <2> QED BY <2>1, <2>2, <2>3, <2>4, <2>5 DEF Walk
  <1> QED BY <1>6, <1>9, <1>12 DEF r, b

\* At the end nothing is owed.
LEMMA NextAtEnd ==
    ASSUME DictInv(dict, keys), NEW it, Walk(dict, keys, it), it.rest = {}, Ahead(it) = {}
    PROVE  it.owed = {}
  <1> SUFFICES ASSUME NEW x \in it.owed PROVE FALSE OBVIOUS
  <1>1. x \in keys /\ Before(At(it), Place(dict, x)) BY DEF Walk
  <1>2. Place(dict, x) \in Slots BY <1>1, PlaceIsSlot
  <1> DEFINE q == Place(dict, x)
  <1>3. x \in Bucket(q[1], q[2]) BY <1>1, <1>2, BucketPlace
  <1>4. q \in Ahead(it) BY <1>1, <1>2, <1>3 DEF Ahead, At
  <1> QED BY <1>4

\* Before anything is iterated over nothing is owed.
LEMMA IterInit == Init => IterInv
  BY DEF Init, IterInv, NoIter

\* dictNext and the opening and closing of iterators.
LEMMA IterMoves ==
    ASSUME Inv, IterInv, NEW i \in Iters, StartIter(i) \/ dictNext(i) \/ dictReleaseIterator(i)
    PROVE  IterInv'
  <1> DEFINE it == iter[i]
  <1>0. DictInv(dict, keys) /\ iter \in [Iters -> Iterator] BY DEF Inv, TypeOK
  <1>1. UNCHANGED <<dict, keys>> BY DEF StartIter, dictNext, dictReleaseIterator
  <1>2. ASSUME NEW r, iter' = [iter EXCEPT ![i] = r], ~(r.twice),
               r.phase = "on" => Walk(dict, keys, r),
               r.phase # "on" => r.owed = {} /\ r.rest = {}
        PROVE  IterInv'
    BY <1>0, <1>1, <1>2 DEF IterInv
  <1>3. CASE StartIter(i)
    <2> DEFINE r == [NoIter EXCEPT !.phase = "on", !.owed = keys]
    <2>1. /\ r.phase = "on" /\ r.table = 0 /\ r.index = -1 /\ r.rest = {} /\ r.seen = {}
          /\ r.owed = keys /\ r.twice = FALSE
      BY DEF NoIter
    <2>2. iter' = [iter EXCEPT ![i] = r] BY <1>3 DEF StartIter
    <2> HIDE DEF r
    <2>3. At(r) = <<0, -1>> BY <2>1 DEF At
    <2>4. ASSUME NEW x \in keys PROVE Before(<<0, -1>>, Place(dict, x))
      <3>1. Place(dict, x) \in Slots BY <1>0, PlaceIsSlot
      <3>2. dict.ht0.size \in Nat /\ dict.ht1.size \in Nat
        BY <1>0, SizeType DEF DictInv, TableInv
      <3>3. \A q \in Slots : Before(<<0, -1>>, q) BY <3>2 DEF Slots, Before
      <3> QED BY <3>1, <3>3
    <2>5. Walk(dict, keys, r) BY <2>1, <2>3, <2>4 DEF Walk
    <2> QED BY <1>2, <2>1, <2>2, <2>5
  <1>4. CASE dictReleaseIterator(i)
    <2>1. NoIter.twice = FALSE /\ NoIter.phase # "on" /\ NoIter.owed = {} /\ NoIter.rest = {}
      BY DEF NoIter
    <2> QED BY <1>2, <1>4, <2>1 DEF dictReleaseIterator
  <1>5. CASE dictNext(i)
    <2>1. it \in Iterator /\ it.phase = "on" BY <1>0, <1>5 DEF dictNext
    <2>2. Walk(dict, keys, it) /\ it.twice = FALSE
      <3>1. it.twice \in BOOLEAN BY <2>1 DEF Iterator
      <3> QED BY <2>1, <3>1 DEF IterInv
    <2>3. ASSUME NEW s \in Iterator, s.phase = "on", s.twice = FALSE, NEW k, k \notin s.seen, NEW rest
          PROVE  ~(Return(s, k, rest).twice) /\ Return(s, k, rest).phase = "on"
      BY <2>3 DEF Return, Iterator
    <2>4. ASSUME NEW k \in it.rest, iter' = [iter EXCEPT ![i] = Return(it, k, it.rest \ {k})]
          PROVE  IterInv'
      <3>1. k \notin it.seen /\ Walk(dict, keys, Return(it, k, it.rest \ {k}))
        BY <2>1, <2>2, NextInChain
      <3>2. ~(Return(it, k, it.rest \ {k}).twice) /\ Return(it, k, it.rest \ {k}).phase = "on"
        BY <2>1, <2>2, <2>3, <3>1
      <3> QED BY <1>2, <2>4, <3>1, <3>2
    <2>5. ASSUME it.rest = {}, NEW p \in Ahead(it), \A r \in Ahead(it) : r = p \/ Before(p, r),
                 NEW k \in Bucket(p[1], p[2]),
                 iter' = [iter EXCEPT ![i] = Return([it EXCEPT !.table = p[1], !.index = p[2]],
                                                    k, Bucket(p[1], p[2]) \ {k})]
          PROVE  IterInv'
      <3> DEFINE s == [it EXCEPT !.table = p[1], !.index = p[2]]
                 r == Return(s, k, Bucket(p[1], p[2]) \ {k})
      <3>1. k \notin it.seen /\ Walk(dict, keys, r) BY <1>0, <2>1, <2>2, <2>5, NextBucket
      <3>2. p[1] \in {0, 1} /\ p[2] \in Nat
        <4>1. dict.ht0.size \in Nat /\ dict.ht1.size \in Nat
          BY <1>0, SizeType DEF DictInv, TableInv
        <4> QED BY <4>1 DEF Ahead, Slots
      <3>3. s \in Iterator /\ s.phase = "on" /\ s.twice = FALSE /\ s.seen = it.seen
        BY <2>1, <2>2, <3>2 DEF Iterator
      <3> HIDE DEF s
      <3>4. ~(r.twice) /\ r.phase = "on" BY <2>3, <3>1, <3>3
      <3>5. iter' = [iter EXCEPT ![i] = r] BY <2>5 DEF s
      <3> QED BY <1>2, <3>1, <3>4, <3>5
    <2>6. ASSUME it.rest = {}, Ahead(it) = {},
                 iter' = [iter EXCEPT ![i] = [NoIter EXCEPT !.phase = "done", !.owed = it.owed]]
          PROVE  IterInv'
      <3> DEFINE r == [NoIter EXCEPT !.phase = "done", !.owed = it.owed]
      <3>1. it.owed = {} BY <1>0, <2>2, <2>6, NextAtEnd
      <3>2. ~(r.twice) /\ r.phase = "done" /\ r.owed = it.owed /\ r.rest = {} BY DEF NoIter
      <3> HIDE DEF r
      <3> QED BY <1>2, <2>6, <3>1, <3>2 DEF r
    <2> QED BY <1>5, <2>4, <2>5, <2>6 DEF dictNext
  <1> QED BY <1>3, <1>4, <1>5

\* While a safe iterator is open no rehashing step is made.
LEMMA StepSuspended ==
    ASSUME NEW d, NEW e \in _dictRehashStep(d), iterators # 0
    PROVE  e = d
  BY DEF _dictRehashStep

\* Every operation keeps the iterators exact.
LEMMA IterInvStep == Inv /\ IterInv /\ [Next]_vars => IterInv'
  <1> SUFFICES ASSUME Inv, IterInv, [Next]_vars PROVE IterInv' OBVIOUS
  <1>0. DictInv(dict, keys) BY DEF Inv
  <1>1. ASSUME NEW k \in Keys, dictAddRaw(k) PROVE IterInv'
    <2>1. PICK d \in _dictRehashStep(dict) : \E e \in _dictExpandIfNeeded(d) :
            dict' = CASE Find(e, k) -> e
                      [] ~Find(e, k) /\ dictIsRehashing(e) -> Tables(e.ht0, PutIn(e.ht1, k), e.ridx)
                      [] OTHER -> Tables(PutIn(e.ht0, k), e.ht1, e.ridx)
      BY <1>1 DEF dictAddRaw
    <2>2. PICK e \in _dictExpandIfNeeded(d) :
            dict' = CASE Find(e, k) -> e
                      [] ~Find(e, k) /\ dictIsRehashing(e) -> Tables(e.ht0, PutIn(e.ht1, k), e.ridx)
                      [] OTHER -> Tables(PutIn(e.ht0, k), e.ht1, e.ridx)
      BY <2>1
    <2>3. keys' = keys \cup {k} /\ UNCHANGED iter BY <1>1 DEF dictAddRaw
    <2>4. DictInv(d, keys) BY <1>0, StepInv
    <2>5. DictInv(e, keys) /\ e.ht0.size # 0 BY <2>4, ExpandIfNeededInv
    <2>6. ASSUME iterators # 0, NEW x \in keys PROVE Place(dict', x) = Place(dict, x)
      <3>1. d = dict BY <2>6, StepSuspended
      <3>2. Place(e, x) = Place(d, x) BY <2>4, ExpandIfNeededPlace
      <3>3. Place(dict', x) = Place(e, x)
        <4>1. CASE Find(e, k) BY <2>2, <4>1
        <4>2. CASE ~Find(e, k) /\ dictIsRehashing(e) BY <2>2, <2>5, <4>2, InsertPlace
        <4>3. CASE ~Find(e, k) /\ ~dictIsRehashing(e) BY <2>2, <2>5, <4>3, InsertPlace
        <4> QED BY <4>1, <4>2, <4>3
      <3> QED BY <3>1, <3>2, <3>3
    <2> QED BY <2>3, <2>6, IterUntouched
  <1>2. ASSUME NEW k \in Keys, dictGenericDelete(k) PROVE IterInv'
    <2>1. PICK d \in _dictRehashStep(dict) :
            dict' = CASE InTable(d.ht0, k) -> Tables(TakeOut(d.ht0, k), d.ht1, d.ridx)
                      [] ~InTable(d.ht0, k) /\ Find(d, k) -> Tables(d.ht0, TakeOut(d.ht1, k), d.ridx)
                      [] OTHER -> d
      BY <1>2 DEF dictGenericDelete
    <2>2. Forget({k}) /\ \A i \in Iters : iter[i].rest \cap {k} = {}
      BY <1>2 DEF dictGenericDelete
    <2>3. ASSUME iterators # 0, NEW x \in keys \ {k} PROVE Place(dict', x) = Place(dict, x)
      <3>1. d = dict BY <2>3, StepSuspended
      <3>2. CASE InTable(d.ht0, k) BY <1>0, <2>1, <3>1, <3>2, RemovePlace
      <3>3. CASE ~InTable(d.ht0, k) /\ Find(d, k) BY <1>0, <2>1, <3>1, <3>3, RemovePlace
      <3>4. CASE ~InTable(d.ht0, k) /\ ~Find(d, k) BY <2>1, <3>1, <3>4
      <3> QED BY <3>2, <3>3, <3>4
    <2> QED BY <2>2, <2>3, IterForgets
  <1>3. CASE dictFind
    <2>1. UNCHANGED <<iter, keys>> /\ dict' \in _dictRehashStep(dict) BY <1>3 DEF dictFind
    <2>2. iterators # 0 => dict' = dict BY <2>1, StepSuspended
    <2> QED BY <2>1, <2>2, IterUntouched
  <1>4. CASE dictEmpty BY <1>4, IterForgets DEF dictEmpty
  <1>5. CASE dictResize
    <2>1. /\ UNCHANGED <<iter, keys>>
          /\ dict' \in dictExpand(dict, IF dict.ht0.used < InitialSize THEN InitialSize
                                                                      ELSE dict.ht0.used)
      BY <1>5 DEF dictResize
    <2>2. \A x \in keys : Place(dict', x) = Place(dict, x) BY <1>0, <2>1, ExpandPlace
    <2> QED BY <2>1, <2>2, IterUntouched
  <1>6. CASE dictRehashMilliseconds
    BY <1>6, IterUntouched DEF dictRehashMilliseconds
  <1>7. CASE UNCHANGED <<dict, iter, keys>> BY <1>7, IterUntouched
  <1>8. updateDictResizePolicy \/ ScanStart \/ ScanStep \/ UNCHANGED vars
          => UNCHANGED <<dict, iter, keys>>
    BY DEF updateDictResizePolicy, ScanStart, ScanStep, vars
  <1> QED BY <1>1, <1>2, <1>3, <1>4, <1>5, <1>6, <1>7, <1>8, IterMoves DEF Next

(***************************************************************************)
(* Powers of two and rev.                                                  *)
(***************************************************************************)

\* Induction over the natural numbers, for the members of a set.
LEMMA NatSetInduction ==
    ASSUME NEW T, 0 \in T, \A n \in Nat : n \in T => n + 1 \in T
    PROVE  Nat \subseteq T
  <1> DEFINE U == Nat \ T
             R == OpToRel(<, Nat)
  <1> SUFFICES ASSUME U # {} PROVE FALSE OBVIOUS
  <1>1. \E i \in U : \A j \in U : ~(<<j, i>> \in R)
    <2>1. IsWellFoundedOn(R, Nat) BY NatLessThanWellFounded
    <2>2. U \subseteq Nat OBVIOUS
    <2> HIDE DEF U, R
    <2> QED BY <2>1, <2>2, WFMin
  <1>2. PICK i \in U : \A j \in U : ~(<<j, i>> \in R) BY <1>1
  <1>3. i # 0 /\ i \in Nat OBVIOUS
  <1>4. i - 1 \in Nat /\ i - 1 < i /\ (i - 1) + 1 = i BY <1>3
  <1>5. i - 1 \in U BY <1>2, <1>4
  <1>6. <<i - 1, i>> \in R BY <1>3, <1>4 DEF OpToRel
  <1> QED BY <1>2, <1>5, <1>6

\* The recursive definition of pow2 defines a function.
LEMMA Pow2Exists == \E f : f = [i \in Nat |-> IF i = 0 THEN 1 ELSE 2 * f[i - 1]]
  <1> DEFINE Upto(n, h) == h = [i \in 0..n |-> IF i = 0 THEN 1 ELSE 2 * h[i - 1]]
             T == {n \in Nat : \E h : Upto(n, h)}
             S == {n \in Nat : \A m \in Nat : \A g, h : n <= m /\ Upto(n, g) /\ Upto(m, h) => g[n] = h[n]}
  <1>1. 0 \in T
    <2>1. Upto(0, [i \in 0..0 |-> 1]) OBVIOUS
    <2> QED BY <2>1
  <1>2. ASSUME NEW n \in Nat, n \in T PROVE n + 1 \in T
    <2>1. PICK h : Upto(n, h) BY <1>2
    <2> DEFINE g == [i \in 0..(n + 1) |-> IF i = n + 1 THEN 2 * h[n] ELSE h[i]]
    <2>2. \A i \in 0..(n + 1) : g[i] = IF i = 0 THEN 1 ELSE 2 * g[i - 1]
      <3> SUFFICES ASSUME NEW i \in 0..(n + 1) PROVE g[i] = IF i = 0 THEN 1 ELSE 2 * g[i - 1] OBVIOUS
      <3>1. CASE i = n + 1 BY <3>1
      <3>2. CASE i \in 0..n
        <4>1. g[i] = h[i] /\ (i # 0 => g[i - 1] = h[i - 1]) BY <3>2
        <4>2. h[i] = IF i = 0 THEN 1 ELSE 2 * h[i - 1] BY <2>1, <3>2
        <4> QED BY <4>1, <4>2
      <3> QED BY <3>1, <3>2
    <2>3. Upto(n + 1, g) BY <2>2
    <2> HIDE DEF Upto, g
    <2> QED BY <2>3
  <1>3. Nat \subseteq T
    <2> HIDE DEF T
    <2> QED BY <1>1, <1>2, NatSetInduction
  <1>4. 0 \in S OBVIOUS
  <1>5. ASSUME NEW n \in Nat, n \in S PROVE n + 1 \in S
    <2> SUFFICES ASSUME NEW m \in Nat, NEW g, NEW h, n + 1 <= m, Upto(n + 1, g), Upto(m, h)
                 PROVE  g[n + 1] = h[n + 1]
      OBVIOUS
    <2>1. PICK k : Upto(n, k) BY <1>3
    <2>2. g[n] = k[n] /\ h[n] = k[n]
      <3> HIDE DEF Upto
      <3>1. n <= n + 1 /\ n <= m /\ n + 1 \in Nat OBVIOUS
      <3> QED BY <1>5, <2>1, <3>1
    <2>3. g[n + 1] = 2 * g[n] /\ h[n + 1] = 2 * h[n] OBVIOUS
    <2> QED BY <2>2, <2>3
  <1>6. Nat \subseteq S
    <2> HIDE DEF S
    <2> QED BY <1>4, <1>5, NatSetInduction
  <1> DEFINE H(n) == CHOOSE h : Upto(n, h)
             f == [n \in Nat |-> H(n)[n]]
  <1>7. \A n \in Nat : Upto(n, H(n)) BY <1>3
  <1>8. ASSUME NEW n \in Nat PROVE f[n] = IF n = 0 THEN 1 ELSE 2 * f[n - 1]
    <2>0. f[n] = H(n)[n] /\ (n # 0 => f[n - 1] = H(n - 1)[n - 1]) OBVIOUS
    <2>1. Upto(n, H(n)) BY <1>7
    <2>2. CASE n = 0 BY <2>0, <2>1, <2>2
    <2>3. CASE n # 0
      <3>1. n - 1 \in Nat /\ n - 1 <= n BY <2>3
      <3>2. Upto(n - 1, H(n - 1)) BY <1>7, <3>1
      <3> HIDE DEF H
      <3>3. H(n - 1)[n - 1] = H(n)[n - 1]
        <4> HIDE DEF Upto
        <4> QED BY <1>6, <2>1, <3>1, <3>2
      <3>4. H(n)[n] = 2 * H(n)[n - 1] BY <2>1, <2>3
      <3> QED BY <2>0, <2>3, <3>3, <3>4
    <2> QED BY <2>2, <2>3
  <1>9. f = [i \in Nat |-> IF i = 0 THEN 1 ELSE 2 * f[i - 1]]
    <2> HIDE DEF H
    <2>1. \A i \in Nat : f[i] = IF i = 0 THEN 1 ELSE 2 * f[i - 1] BY <1>8
    <2> QED BY <2>1
  <1> QED BY <1>9
\* rev on numbers of one bit more.
RevStep(n, g) == [v \in 0..(pow2[n] - 1) |-> (v % 2) * pow2[n - 1] + g[v \div 2]]

\* The recursive definition of rev defines a function.
LEMMA RevExists == \E f : f = [i \in Nat |-> IF i = 0 THEN [v \in {0} |-> 0] ELSE RevStep(i, f[i - 1])]
  <1> DEFINE B == [v \in {0} |-> 0]
             Upto(n, h) == h = [i \in 0..n |-> IF i = 0 THEN B ELSE RevStep(i, h[i - 1])]
             T == {n \in Nat : \E h : Upto(n, h)}
             S == {n \in Nat : \A m \in Nat : \A g, h : n <= m /\ Upto(n, g) /\ Upto(m, h) => g[n] = h[n]}
  <1>1. 0 \in T
    <2>1. Upto(0, [i \in 0..0 |-> B]) OBVIOUS
    <2> QED BY <2>1
  <1>2. ASSUME NEW n \in Nat, n \in T PROVE n + 1 \in T
    <2>1. PICK h : Upto(n, h) BY <1>2
    <2> DEFINE g == [i \in 0..(n + 1) |-> IF i = n + 1 THEN RevStep(n + 1, h[n]) ELSE h[i]]
    <2>2. \A i \in 0..(n + 1) : g[i] = IF i = 0 THEN B ELSE RevStep(i, g[i - 1])
      <3> SUFFICES ASSUME NEW i \in 0..(n + 1) PROVE g[i] = IF i = 0 THEN B ELSE RevStep(i, g[i - 1]) OBVIOUS
      <3>1. CASE i = n + 1 BY <3>1
      <3>2. CASE i \in 0..n
        <4>1. g[i] = h[i] /\ (i # 0 => g[i - 1] = h[i - 1]) BY <3>2
        <4>2. h[i] = IF i = 0 THEN B ELSE RevStep(i, h[i - 1]) BY <2>1, <3>2
        <4> QED BY <4>1, <4>2
      <3> QED BY <3>1, <3>2
    <2>3. Upto(n + 1, g) BY <2>2
    <2> HIDE DEF Upto, g
    <2> QED BY <2>3
  <1>3. Nat \subseteq T
    <2> HIDE DEF T
    <2> QED BY <1>1, <1>2, NatSetInduction
  <1>4. 0 \in S OBVIOUS
  <1>5. ASSUME NEW n \in Nat, n \in S PROVE n + 1 \in S
    <2> SUFFICES ASSUME NEW m \in Nat, NEW g, NEW h, n + 1 <= m, Upto(n + 1, g), Upto(m, h)
                 PROVE  g[n + 1] = h[n + 1]
      OBVIOUS
    <2>1. PICK k : Upto(n, k) BY <1>3
    <2>2. g[n] = k[n] /\ h[n] = k[n]
      <3> HIDE DEF Upto
      <3>1. n <= n + 1 /\ n <= m /\ n + 1 \in Nat OBVIOUS
      <3> QED BY <1>5, <2>1, <3>1
    <2>3. g[n + 1] = RevStep(n + 1, g[n]) /\ h[n + 1] = RevStep(n + 1, h[n]) OBVIOUS
    <2> QED BY <2>2, <2>3
  <1>6. Nat \subseteq S
    <2> HIDE DEF S
    <2> QED BY <1>4, <1>5, NatSetInduction
  <1> DEFINE H(n) == CHOOSE h : Upto(n, h)
             f == [n \in Nat |-> H(n)[n]]
  <1>7. \A n \in Nat : Upto(n, H(n)) BY <1>3
  <1>8. ASSUME NEW n \in Nat PROVE f[n] = IF n = 0 THEN B ELSE RevStep(n, f[n - 1])
    <2>0. f[n] = H(n)[n] /\ (n # 0 => f[n - 1] = H(n - 1)[n - 1]) OBVIOUS
    <2>1. Upto(n, H(n)) BY <1>7
    <2>2. CASE n = 0 BY <2>0, <2>1, <2>2
    <2>3. CASE n # 0
      <3>1. n - 1 \in Nat /\ n - 1 <= n BY <2>3
      <3>2. Upto(n - 1, H(n - 1)) BY <1>7, <3>1
      <3> HIDE DEF H
      <3>3. H(n - 1)[n - 1] = H(n)[n - 1]
        <4> HIDE DEF Upto
        <4> QED BY <1>6, <2>1, <3>1, <3>2
      <3>4. H(n)[n] = RevStep(n, H(n)[n - 1]) BY <2>1, <2>3
      <3> QED BY <2>0, <2>3, <3>3, <3>4
    <2> QED BY <2>2, <2>3
  <1>9. f = [i \in Nat |-> IF i = 0 THEN B ELSE RevStep(i, f[i - 1])]
    <2> HIDE DEF H
    <2>1. \A i \in Nat : f[i] = IF i = 0 THEN B ELSE RevStep(i, f[i - 1]) BY <1>8
    <2> QED BY <2>1
  <1> QED BY <1>9

\* Powers of two: the equations of the definition.
LEMMA Pow2Is ==
    /\ pow2[0] = 1
    /\ \A n \in Nat : pow2[n] \in Nat \ {0} /\ pow2[n + 1] = 2 * pow2[n]
  <1>1. pow2 = [i \in Nat |-> IF i = 0 THEN 1 ELSE 2 * pow2[i - 1]]
    BY Pow2Exists, Zenon DEF pow2
  <1>2. pow2[0] = 1 BY <1>1
  <1>3. ASSUME NEW n \in Nat PROVE pow2[n + 1] = 2 * pow2[n]
    <2>1. n + 1 \in Nat /\ n + 1 # 0 /\ (n + 1) - 1 = n OBVIOUS
    <2>2. pow2[n + 1] = IF n + 1 = 0 THEN 1 ELSE 2 * pow2[(n + 1) - 1] BY <1>1, <2>1
    <2> QED BY <2>1, <2>2
  <1> DEFINE T == {n \in Nat : pow2[n] \in Nat \ {0}}
  <1>4. 0 \in T /\ \A n \in Nat : n \in T => n + 1 \in T BY <1>2, <1>3
  <1>5. Nat \subseteq T
    <2> HIDE DEF T
    <2> QED BY <1>4, NatSetInduction
  <1> QED BY <1>2, <1>3, <1>5

\* rev: the equations of the definition.
LEMMA RevIs ==
    /\ rev[0] = [v \in {0} |-> 0]
    /\ \A n \in Nat : rev[n + 1] = [v \in 0..(pow2[n + 1] - 1) |-> (v % 2) * pow2[n] + rev[n][v \div 2]]
  <1>1. rev = [i \in Nat |-> IF i = 0 THEN [v \in {0} |-> 0] ELSE RevStep(i, rev[i - 1])]
    BY RevExists, Zenon DEF rev, RevStep
  <1>2. rev[0] = [v \in {0} |-> 0] BY <1>1
  <1>3. ASSUME NEW n \in Nat PROVE rev[n + 1] = RevStep(n + 1, rev[n])
    <2>1. n + 1 \in Nat /\ n + 1 # 0 /\ (n + 1) - 1 = n OBVIOUS
    <2>2. rev[n + 1] = IF n + 1 = 0 THEN [v \in {0} |-> 0] ELSE RevStep(n + 1, rev[(n + 1) - 1])
      BY <1>1, <2>1
    <2> QED BY <2>1, <2>2
  <1>4. ASSUME NEW n \in Nat PROVE RevStep(n + 1, rev[n]) =
          [v \in 0..(pow2[n + 1] - 1) |-> (v % 2) * pow2[n] + rev[n][v \div 2]]
    <2>1. (n + 1) - 1 = n OBVIOUS
    <2> QED BY <2>1 DEF RevStep
  <1> QED BY <1>2, <1>3, <1>4

\* Division with remainder.
LEMMA DivMod ==
    ASSUME NEW a \in Nat, NEW m \in Nat \ {0}
    PROVE  /\ a \div m \in Nat /\ a % m \in 0..(m - 1)
           /\ a = m * (a \div m) + (a % m)
  OBVIOUS

\* It is unique.
LEMMA DivModUnique ==
    ASSUME NEW m \in Nat \ {0}, NEW q \in Nat, NEW r \in 0..(m - 1), NEW a \in Nat, a = m * q + r
    PROVE  a \div m = q /\ a % m = r
  <1> DEFINE p == a \div m
             s == a % m
  <1>1. p \in Nat /\ s \in 0..(m - 1) /\ a = m * p + s BY DivMod
  <1> HIDE DEF p, s
  <1>2. ASSUME p < q PROVE FALSE
    <2>1. PICK d \in Nat : q = p + 1 + d BY <1>1, <1>2
    <2>2. m * q = m * p + m + m * d BY <1>1, <2>1
    <2>3. m * d \in Nat /\ m * p \in Nat /\ m * q \in Nat BY <1>1
    <2> QED BY <1>1, <2>2, <2>3
  <1>3. ASSUME q < p PROVE FALSE
    <2>1. PICK d \in Nat : p = q + 1 + d BY <1>1, <1>3
    <2>2. m * p = m * q + m + m * d BY <1>1, <2>1
    <2>3. m * d \in Nat /\ m * p \in Nat /\ m * q \in Nat BY <1>1
    <2> QED BY <1>1, <2>2, <2>3
  <1>4. p = q BY <1>1, <1>2, <1>3
  <1>5. m * q \in Nat OBVIOUS
  <1>6. s = r BY <1>1, <1>4, <1>5
  <1> QED BY <1>4, <1>6 DEF p, s

\* The same, for the sum itself.
LEMMA DivModOf ==
    ASSUME NEW m \in Nat \ {0}, NEW q \in Nat, NEW r \in 0..(m - 1)
    PROVE  (m * q + r) \div m = q /\ (m * q + r) % m = r
  <1>1. m * q + r \in Nat OBVIOUS
  <1> QED BY <1>1, DivModUnique

\* Halves: the numbers of n + 1 bits.
LEMMA Halves ==
    ASSUME NEW n \in Nat, NEW v \in 0..(pow2[n + 1] - 1)
    PROVE  /\ v \in Nat /\ v % 2 \in {0, 1} /\ v = 2 * (v \div 2) + (v % 2)
           /\ v \div 2 \in 0..(pow2[n] - 1)
  <1>1. pow2[n] \in Nat \ {0} /\ pow2[n + 1] = 2 * pow2[n] BY Pow2Is
  <1>2. v \in Nat /\ v <= 2 * pow2[n] - 1 BY <1>1
  <1> QED BY <1>1, <1>2

\* rev maps the numbers of n bits to the numbers of n bits.
LEMMA RevType ==
    ASSUME NEW n \in Nat
    PROVE  rev[n] \in [0..(pow2[n] - 1) -> 0..(pow2[n] - 1)]
  <1> DEFINE T == {i \in Nat : rev[i] \in [0..(pow2[i] - 1) -> 0..(pow2[i] - 1)]}
  <1>1. 0 \in T
    <2>1. pow2[0] = 1 /\ rev[0] = [v \in {0} |-> 0] /\ 0..(1 - 1) = {0} BY Pow2Is, RevIs
    <2> QED BY <2>1
  <1>2. ASSUME NEW i \in Nat, i \in T PROVE i + 1 \in T
    <2> DEFINE P == pow2[i]
               Q == pow2[i + 1]
    <2>1. P \in Nat \ {0} /\ Q = 2 * P BY Pow2Is
    <2>2. rev[i + 1] = [v \in 0..(Q - 1) |-> (v % 2) * P + rev[i][v \div 2]] BY RevIs
    <2>3. ASSUME NEW v \in 0..(Q - 1) PROVE (v % 2) * P + rev[i][v \div 2] \in 0..(Q - 1)
      <3>1. v % 2 \in {0, 1} /\ v \div 2 \in 0..(P - 1) BY Halves
      <3>2. rev[i][v \div 2] \in 0..(P - 1) BY <1>2, <3>1
      <3> HIDE DEF P, Q
      <3> QED BY <2>1, <3>1, <3>2
    <2>4. rev[i + 1] \in [0..(Q - 1) -> 0..(Q - 1)]
      <3> HIDE DEF P, Q
      <3> QED BY <2>2, <2>3
    <2> QED BY <2>4
  <1>3. Nat \subseteq T
    <2> HIDE DEF T
    <2> QED BY <1>1, <1>2, NatSetInduction
  <1> QED BY <1>3

\* rev of a number of n + 1 bits.
LEMMA RevAt ==
    ASSUME NEW n \in Nat, NEW v \in 0..(pow2[n + 1] - 1)
    PROVE  rev[n + 1][v] = (v % 2) * pow2[n] + rev[n][v \div 2]
  BY RevIs

\* The highest bit becomes the lowest one.
LEMMA RevTop ==
    ASSUME NEW n \in Nat, NEW v \in 0..(pow2[n + 1] - 1)
    PROVE  /\ v \div pow2[n] \in {0, 1} /\ v % pow2[n] \in 0..(pow2[n] - 1)
           /\ rev[n + 1][v] = 2 * rev[n][v % pow2[n]] + (v \div pow2[n])
  <1> DEFINE T == {i \in Nat : \A w \in 0..(pow2[i + 1] - 1) :
                     /\ w \div pow2[i] \in {0, 1} /\ w % pow2[i] \in 0..(pow2[i] - 1)
                     /\ rev[i + 1][w] = 2 * rev[i][w % pow2[i]] + (w \div pow2[i])}
  <1>1. ASSUME NEW z \in Nat, z = 0 PROVE z \in T
    <2>1. pow2[z] = 1 /\ pow2[z + 1] = 2 * pow2[z] /\ rev[z] = [w \in {0} |-> 0]
      BY <1>1, Pow2Is, RevIs
    <2>2. 0..(pow2[z + 1] - 1) = {0, 1} BY <2>1
    <2>3. ASSUME NEW w \in {0, 1}
          PROVE  w \div 1 = w /\ w % 1 = 0 /\ w % 2 = w /\ w \div 2 = 0
      OBVIOUS
    <2>4. \A w \in {0, 1} : rev[z + 1][w] = (w % 2) * pow2[z] + rev[z][w \div 2]
      BY <2>2, RevAt
    <2>5. \A w \in {0, 1} : rev[z + 1][w] = w BY <2>1, <2>3, <2>4
    <2>6. rev[z][0] = 0 BY <2>1
    <2>7. ASSUME NEW w \in 0..(pow2[z + 1] - 1)
          PROVE  /\ w \div pow2[z] \in {0, 1} /\ w % pow2[z] \in 0..(pow2[z] - 1)
                 /\ rev[z + 1][w] = 2 * rev[z][w % pow2[z]] + (w \div pow2[z])
      <3>1. w \in {0, 1} BY <2>2
      <3>2. w \div pow2[z] = w /\ w % pow2[z] = 0 BY <2>1, <2>3, <3>1
      <3> QED BY <2>1, <2>5, <2>6, <3>1, <3>2
    <2> QED BY <2>7
  <1>2. ASSUME NEW i \in Nat, i \in T PROVE i + 1 \in T
    <2> DEFINE k == i + 1
               P == pow2[i]
               Q == pow2[k]
    <2>0. k \in Nat OBVIOUS
    <2>1. P \in Nat \ {0} /\ Q = 2 * P
      BY Pow2Is
    <2> SUFFICES ASSUME NEW w \in 0..(pow2[k + 1] - 1)
                 PROVE  /\ w \div Q \in {0, 1} /\ w % Q \in 0..(Q - 1)
                        /\ rev[k + 1][w] = 2 * rev[k][w % Q] + (w \div Q)
      OBVIOUS
    <2> DEFINE b == w % 2
               h == w \div 2
               t == h \div P
               u == h % P
    <2>2. w \in Nat /\ b \in {0, 1} /\ w = 2 * h + b /\ h \in 0..(Q - 1)
      <3> HIDE DEF k
      <3> QED BY <2>0, Halves
    <2>3. /\ t \in {0, 1} /\ u \in 0..(P - 1)
          /\ rev[k][h] = 2 * rev[i][u] + t
      BY <1>2, <2>2
    <2>4. h = P * t + u
      <3>1. h \in Nat BY <2>1, <2>2
      <3> HIDE DEF h, P
      <3> QED BY <2>1, <3>1, DivMod, Zenon
    <2>9. rev[k + 1][w] = b * Q + rev[k][h]
      <3> HIDE DEF k
      <3> QED BY <2>0, RevAt
    <2> HIDE DEF b, h, t, u
    <2>5. w = Q * t + (2 * u + b) /\ 2 * u + b \in 0..(Q - 1)
      <3> HIDE DEF P, Q
      <3> QED BY <2>1, <2>2, <2>3, <2>4
    <2> DEFINE y == 2 * u + b
    <2>6. w \div Q = t /\ w % Q = y
      <3>1. w = Q * t + y /\ y \in 0..(Q - 1) /\ t \in Nat /\ Q \in Nat \ {0}
        BY <2>1, <2>3, <2>5
      <3>2. w \in Nat BY <2>2
      <3> HIDE DEF Q, y
      <3>3. (Q * t + y) \div Q = t /\ (Q * t + y) % Q = y
        BY <3>1, DivModOf
      <3> QED BY <3>1, <3>3
    <2>7. y % 2 = b /\ y \div 2 = u BY <2>1, <2>2, <2>3
    <2>8. rev[k][y] = b * P + rev[i][u]
      <3>1. y \in 0..(pow2[i + 1] - 1) BY <2>5
      <3> HIDE DEF y
      <3>2. rev[i + 1][y] = (y % 2) * P + rev[i][y \div 2]
        BY <3>1, RevAt
      <3> QED BY <2>7, <3>2
    <2>10. rev[i][u] \in Nat
      <3>1. rev[i] \in [0..(P - 1) -> 0..(P - 1)] BY RevType
      <3> QED BY <2>1, <2>3, <3>1
    <2>11. b * Q + (2 * rev[i][u] + t) = 2 * (b * P + rev[i][u]) + t
      <3> HIDE DEF P, Q
      <3> QED BY <2>1, <2>2, <2>3, <2>10
    <2> QED BY <2>3, <2>5, <2>6, <2>8, <2>9, <2>11
  <1>3. Nat \subseteq T
    <2> HIDE DEF T
    <2> QED BY <1>1, <1>2, NatSetInduction
  <1> QED BY <1>3

\* rev is its own inverse.
LEMMA RevInvolution ==
    ASSUME NEW n \in Nat, NEW v \in 0..(pow2[n] - 1)
    PROVE  rev[n][rev[n][v]] = v
  <1> DEFINE T == {i \in Nat : \A w \in 0..(pow2[i] - 1) : rev[i][rev[i][w]] = w}
  <1>1. 0 \in T
    <2>1. pow2[0] = 1 /\ rev[0] = [w \in {0} |-> 0] /\ 0..(1 - 1) = {0} BY Pow2Is, RevIs
    <2> QED BY <2>1
  <1>2. ASSUME NEW i \in Nat, i \in T PROVE i + 1 \in T
    <2> DEFINE P == pow2[i]
               Q == pow2[i + 1]
    <2>1. P \in Nat \ {0} /\ Q = 2 * P BY Pow2Is
    <2> SUFFICES ASSUME NEW w \in 0..(Q - 1) PROVE rev[i + 1][rev[i + 1][w]] = w OBVIOUS
    <2> DEFINE b == w % 2
               h == w \div 2
               r == rev[i][h]
               u == rev[i + 1][w]
    <2>2. w \in Nat /\ b \in {0, 1} /\ w = 2 * h + b /\ h \in 0..(P - 1) BY Halves
    <2>3. u = b * P + r BY RevIs
    <2>4. r \in 0..(P - 1) /\ u \in 0..(Q - 1)
      <3>1. rev[i] \in [0..(P - 1) -> 0..(P - 1)] /\ rev[i + 1] \in [0..(Q - 1) -> 0..(Q - 1)]
        BY RevType
      <3> QED BY <2>2, <3>1
    <2>5. rev[i][r] = h BY <1>2, <2>2
    <2> HIDE DEF b, h, r, u
    <2>6. u \div P = b /\ u % P = r
      <3> HIDE DEF P, Q
      <3>1. u \in Nat /\ u = P * b + r BY <2>1, <2>2, <2>3, <2>4
      <3> QED BY <2>1, <2>2, <2>4, <3>1, DivModUnique
    <2>7. rev[i + 1][u] = 2 * rev[i][u % P] + (u \div P) BY <2>4, RevTop
    <2>8. rev[i + 1][u] = 2 * h + b BY <2>5, <2>6, <2>7
    <2> QED BY <2>2, <2>8 DEF u
  <1>3. Nat \subseteq T
    <2> HIDE DEF T
    <2> QED BY <1>1, <1>2, NatSetInduction
  <1> QED BY <1>3

\* The product of two powers.
LEMMA Pow2Add ==
    ASSUME NEW i \in Nat, NEW j \in Nat
    PROVE  pow2[i + j] = pow2[i] * pow2[j]
  <1> DEFINE T == {n \in Nat : pow2[i + n] = pow2[i] * pow2[n]}
  <1>0. pow2[i] \in Nat BY Pow2Is
  <1>1. 0 \in T
    <2>1. i + 0 = i /\ pow2[0] = 1 BY Pow2Is
    <2> QED BY <1>0, <2>1
  <1>2. ASSUME NEW n \in Nat, n \in T PROVE n + 1 \in T
    <2>1. i + n \in Nat /\ i + (n + 1) = (i + n) + 1 OBVIOUS
    <2>2. pow2[(i + n) + 1] = 2 * pow2[i + n] /\ pow2[n + 1] = 2 * pow2[n] /\ pow2[n] \in Nat
      BY <2>1, Pow2Is
    <2>3. pow2[i + n] = pow2[i] * pow2[n] BY <1>2
    <2>4. 2 * (pow2[i] * pow2[n]) = pow2[i] * (2 * pow2[n]) BY <1>0, <2>2
    <2> QED BY <2>1, <2>2, <2>3, <2>4
  <1>3. Nat \subseteq T
    <2> HIDE DEF T
    <2> QED BY <1>1, <1>2, NatSetInduction
  <1> QED BY <1>3

\* Division by a product.
LEMMA DivTwice ==
    ASSUME NEW a \in Nat \ {0}, NEW m \in Nat \ {0}, NEW v \in Nat
    PROVE  /\ (v % (a * m)) % a = v % a
           /\ (v \div a) % m = (v % (a * m)) \div a
           /\ (v \div a) \div m = v \div (a * m)
  <1> DEFINE t == v \div (a * m)
             r == v % (a * m)
             q == r \div a
             s == r % a
  <1>0. a * m \in Nat \ {0} OBVIOUS
  <1>1. t \in Nat /\ r \in 0..(a * m - 1) /\ v = (a * m) * t + r
    <2> DEFINE p == a * m
    <2>1. p \in Nat \ {0} BY <1>0
    <2> HIDE DEF p
    <2>2. v \div p \in Nat /\ v % p \in 0..(p - 1) /\ v = p * (v \div p) + (v % p) BY <2>1, DivMod
    <2> QED BY <2>2 DEF p
  <1> HIDE DEF t, r
  <1>2. q \in Nat /\ s \in 0..(a - 1) /\ r = a * q + s
    <2>1. r \in Nat BY <1>0, <1>1
    <2> QED BY <2>1, DivMod
  <1> HIDE DEF q, s
  <1>3. q \in 0..(m - 1)
    <2> SUFFICES ASSUME q >= m PROVE FALSE BY <1>2
    <2>1. PICK d \in Nat : q = m + d BY <1>2
    <2>2. a * q = a * m + a * d /\ a * d \in Nat BY <2>1
    <2> QED BY <1>0, <1>1, <1>2, <2>2
  <1>4. v = a * (m * t + q) + s BY <1>1, <1>2
  <1>5. m * t + q \in Nat BY <1>1, <1>2
  <1>6. v \div a = m * t + q /\ v % a = s
    <2> DEFINE z == m * t + q
    <2>1. z \in Nat /\ v = a * z + s BY <1>4, <1>5
    <2> HIDE DEF z
    <2>2. (a * z + s) \div a = z /\ (a * z + s) % a = s BY <1>2, <2>1, DivModOf
    <2> QED BY <2>1, <2>2 DEF z
  <1>7. (m * t + q) \div m = t /\ (m * t + q) % m = q BY <1>1, <1>3, DivModOf
  <1> QED BY <1>6, <1>7 DEF q, s, t, r

\* rev of a number of i + j bits: its low i bits reversed, then the others.
LEMMA RevSplit ==
    ASSUME NEW i \in Nat, NEW j \in Nat, NEW v \in 0..(pow2[i + j] - 1)
    PROVE  /\ v % pow2[i] \in 0..(pow2[i] - 1) /\ v \div pow2[i] \in 0..(pow2[j] - 1)
           /\ rev[i + j][v] = pow2[j] * rev[i][v % pow2[i]] + rev[j][v \div pow2[i]]
  <1> DEFINE A == pow2[i]
             Split(n, w) ==
               /\ w % A \in 0..(A - 1) /\ w \div A \in 0..(pow2[n] - 1)
               /\ rev[i + n][w] = pow2[n] * rev[i][w % A] + rev[n][w \div A]
             T == {n \in Nat : \A w \in 0..(pow2[i + n] - 1) : Split(n, w)}
  <1>0. A \in Nat \ {0} /\ rev[i] \in [0..(A - 1) -> 0..(A - 1)] BY Pow2Is, RevType
  <1>1. 0 \in T
    <2>1. i + 0 = i /\ pow2[0] = 1 /\ rev[0] = [w \in {0} |-> 0] /\ 0..(1 - 1) = {0}
      BY Pow2Is, RevIs
    <2> SUFFICES ASSUME NEW w \in 0..(A - 1) PROVE Split(0, w) BY <2>1
    <2> HIDE DEF A
    <2>2. w \in Nat /\ w = A * 0 + w BY <1>0
    <2>3. w \div A = 0 /\ w % A = w BY <1>0, <2>2, DivModUnique
    <2>4. rev[i][w] \in Nat BY <1>0
    <2>5. rev[0][0] = 0 BY <2>1
    <2>6. rev[i + 0][w] = pow2[0] * rev[i][w % A] + rev[0][w \div A]
      <3>1. 1 * rev[i][w] + 0 = rev[i][w] BY <2>4
      <3> QED BY <2>1, <2>3, <2>5, <3>1
    <2>7. w % A \in 0..(A - 1) BY <2>3
    <2>8. w \div A \in 0..(pow2[0] - 1) BY <2>1, <2>3
    <2> QED BY <2>6, <2>7, <2>8
  <1>2. ASSUME NEW n \in Nat, n \in T PROVE n + 1 \in T
    <2> DEFINE k == i + n
               M == pow2[n]
    <2>0. k \in Nat /\ i + (n + 1) = k + 1 OBVIOUS
    <2>1. M \in Nat \ {0} /\ pow2[k] = A * M /\ pow2[k + 1] = 2 * pow2[k] /\ pow2[n + 1] = 2 * M
      BY <2>0, Pow2Is, Pow2Add
    <2> SUFFICES ASSUME NEW w \in 0..(pow2[k + 1] - 1) PROVE Split(n + 1, w)
      BY <2>0
    <2> DEFINE t == w \div (A * M)
               u == w % (A * M)
               h == w \div A
    <2>2. t \in {0, 1} /\ u \in 0..(pow2[k] - 1) /\ rev[k + 1][w] = 2 * rev[k][u] + t
      <3> HIDE DEF k
      <3> QED BY <2>0, <2>1, RevTop
    <2>3. Split(n, u) BY <1>2, <2>2
    <2>4. w \in Nat
      <3>1. A * M \in Nat BY <1>0, <2>1
      <3>2. pow2[k + 1] \in Nat BY <2>1, <3>1
      <3> QED BY <3>2
    <2>5. u % A = w % A /\ h % M = u \div A /\ h \div M = t
      <3> HIDE DEF A, M
      <3> QED BY <1>0, <2>1, <2>4, DivTwice
    <2>6. h \in Nat /\ h = M * t + (u \div A) /\ w % A \in 0..(A - 1)
      <3>1. h \in Nat /\ w % A \in 0..(A - 1) BY <1>0, <2>4, DivMod
      <3>2. h = M * (h \div M) + (h % M)
        <4> HIDE DEF h, M
        <4> QED BY <2>1, <3>1, DivMod
      <3> QED BY <2>5, <3>1, <3>2
    <2>7. h \in 0..(pow2[n + 1] - 1)
      <3>1. u \div A \in 0..(M - 1) BY <2>3
      <3>2. M * t \in {0, M} BY <2>1, <2>2
      <3> HIDE DEF h, u, t, A, M
      <3> QED BY <2>1, <2>6, <3>1, <3>2
    <2>8. rev[n + 1][h] = 2 * rev[n][h % M] + (h \div M) BY <2>7, RevTop
    <2>9. rev[k][u] = M * rev[i][w % A] + rev[n][h % M] BY <2>3, <2>5
    <2>10. rev[i][w % A] \in Nat /\ rev[n][h % M] \in Nat
      <3>1. h % M \in 0..(M - 1) BY <2>1, <2>6, DivMod
      <3>2. rev[n] \in [0..(M - 1) -> 0..(M - 1)] BY RevType
      <3>3. 0..(M - 1) \subseteq Nat /\ 0..(A - 1) \subseteq Nat BY <1>0, <2>1
      <3> HIDE DEF h, M, A
      <3>4. rev[n][h % M] \in 0..(M - 1) /\ rev[i][w % A] \in 0..(A - 1)
        BY <1>0, <2>6, <3>1, <3>2
      <3> QED BY <3>3, <3>4
    <2>11. rev[k + 1][w] = pow2[n + 1] * rev[i][w % A] + rev[n + 1][h]
      <3> DEFINE x == rev[i][w % A]
                 y == rev[n][h % M]
      <3>1. 2 * (M * x + y) + t = (2 * M) * x + (2 * y + t)
        <4> HIDE DEF x, y, M, t
        <4> QED BY <2>1, <2>2, <2>10 DEF x, y
      <3> QED BY <2>1, <2>2, <2>5, <2>8, <2>9, <3>1
    <2> QED BY <2>0, <2>6, <2>7, <2>11
  <1>3. Nat \subseteq T
    <2> HIDE DEF T
    <2> QED BY <1>1, <1>2, NatSetInduction
  <1> QED BY <1>3

\* rev of zero, and of the largest number.
LEMMA RevEnds ==
    ASSUME NEW n \in Nat
    PROVE  rev[n][0] = 0 /\ rev[n][pow2[n] - 1] = pow2[n] - 1
  <1> DEFINE T == {i \in Nat : rev[i][0] = 0 /\ rev[i][pow2[i] - 1] = pow2[i] - 1}
  <1>1. 0 \in T
    <2>1. pow2[0] = 1 /\ rev[0] = [v \in {0} |-> 0] BY Pow2Is, RevIs
    <2> QED BY <2>1
  <1>2. ASSUME NEW i \in Nat, i \in T PROVE i + 1 \in T
    <2> DEFINE P == pow2[i]
               w == 2 * P - 1
    <2>1. P \in Nat \ {0} /\ pow2[i + 1] = 2 * P BY Pow2Is
    <2>2. w \in 0..(pow2[i + 1] - 1) /\ 0 \in 0..(pow2[i + 1] - 1) BY <2>1
    <2>3. rev[i + 1][0] = (0 % 2) * P + rev[i][0 \div 2] BY <2>2, RevAt
    <2>4. rev[i + 1][w] = (w % 2) * P + rev[i][w \div 2]
      <3> HIDE DEF w, P
      <3> QED BY <2>2, RevAt DEF P
    <2>5. w % 2 = 1 /\ w \div 2 = P - 1 /\ 0 % 2 = 0 /\ 0 \div 2 = 0
      <3> HIDE DEF P
      <3> QED BY <2>1
    <2> QED BY <1>2, <2>1, <2>3, <2>4, <2>5
  <1>3. Nat \subseteq T
    <2> HIDE DEF T
    <2> QED BY <1>1, <1>2, NatSetInduction
  <1> QED BY <1>3

(***************************************************************************)
(* The order in which a scan meets the buckets.                            *)
(***************************************************************************)

\* The place of a cursor, or of a hash, in the order of the scan.
Rank(v) == rev[CursorBits][v % CursorSize]

\* The size of a table is a power of two that a cursor can count to.
LEMMA SizeIsPower ==
    ASSUME NEW s \in TableSizes
    PROVE  \E m, j \in Nat : m + j = CursorBits /\ s = pow2[m]
  <1>1. PICK m \in 0..CursorBits : s = pow2[m] BY DictAssumption
  <1>2. m \in Nat /\ CursorBits - m \in Nat /\ m + (CursorBits - m) = CursorBits
    BY DictAssumption
  <1> QED BY <1>1, <1>2

\* The cursors, as numbers of m bits followed by j bits.
LEMMA CursorProduct ==
    ASSUME NEW m \in Nat, NEW j \in Nat, m + j = CursorBits
    PROVE  /\ pow2[m] \in Nat \ {0} /\ pow2[j] \in Nat \ {0}
           /\ CursorSize = pow2[m] * pow2[j] /\ CursorSize \in Nat \ {0}
  <1>1. pow2[m + j] = pow2[m] * pow2[j] BY Pow2Add
  <1>2. m + j \in Nat OBVIOUS
  <1>3. pow2[m] \in Nat \ {0} /\ pow2[j] \in Nat \ {0} /\ pow2[m + j] \in Nat \ {0}
    BY <1>2, Pow2Is
  <1> QED BY <1>1, <1>3 DEF CursorSize

\* The buckets of a table of pow2[m] buckets, in the order of their reversed
\* numbers, cut the ranks into groups of the same length.
LEMMA RankGroup ==
    ASSUME NEW m \in Nat, NEW j \in Nat, m + j = CursorBits, NEW v \in Nat
    PROVE  /\ Rank(v) \in 0..(CursorSize - 1) /\ Rank(v) \in Nat
           /\ Rank(v) \div pow2[j] = rev[m][v % pow2[m]]
           /\ v % pow2[m] \in 0..(pow2[m] - 1)
           /\ rev[m][v % pow2[m]] \in 0..(pow2[m] - 1)
  <1> DEFINE A == pow2[m]
             M == pow2[j]
             w == v % CursorSize
  <1>1. A \in Nat \ {0} /\ M \in Nat \ {0} /\ CursorSize = A * M /\ CursorSize \in Nat \ {0}
    BY CursorProduct
  <1>2. w \in 0..(CursorSize - 1)
    <2> HIDE DEF A, M
    <2> QED BY <1>1, DivMod
  <1>3. /\ w % A \in 0..(A - 1) /\ w \div A \in 0..(M - 1)
        /\ rev[m + j][w] = M * rev[m][w % A] + rev[j][w \div A]
    <2> HIDE DEF w
    <2> QED BY <1>2, RevSplit DEF CursorSize
  <1>4. w % A = v % A
    <2>1. (v % (A * M)) % A = v % A
      <3> HIDE DEF A, M
      <3> QED BY <1>1, DivTwice
    <2> QED BY <1>1, <2>1
  <1> DEFINE g == rev[m][v % A]
             r == rev[j][w \div A]
  <1>5. g \in 0..(A - 1) /\ r \in 0..(M - 1)
    <2>1. rev[m] \in [0..(A - 1) -> 0..(A - 1)] /\ rev[j] \in [0..(M - 1) -> 0..(M - 1)]
      BY RevType
    <2> HIDE DEF A, M, w
    <2> QED BY <1>3, <1>4, <2>1
  <1>6. Rank(v) = M * g + r BY <1>3, <1>4 DEF Rank
  <1>7. (M * g + r) \div M = g
    <2>1. g \in Nat BY <1>1, <1>5
    <2> HIDE DEF g, r, M
    <2> QED BY <1>1, <1>5, <2>1, DivModOf
  <1>8. Rank(v) \in 0..(CursorSize - 1)
    <2>1. rev[CursorBits] \in [0..(CursorSize - 1) -> 0..(CursorSize - 1)]
      BY RevType, DictAssumption DEF CursorSize
    <2> HIDE DEF w
    <2> QED BY <1>2, <2>1 DEF Rank, w
  <1>9. Rank(v) \in Nat BY <1>1, <1>8
  <1> QED BY <1>3, <1>4, <1>5, <1>6, <1>7, <1>8, <1>9

\* The ranks of a group.
LEMMA GroupRanks ==
    ASSUME NEW m \in Nat, NEW j \in Nat, m + j = CursorBits, NEW v \in Nat
    PROVE  /\ pow2[j] * rev[m][v % pow2[m]] \in Nat
           /\ pow2[j] * rev[m][v % pow2[m]] <= Rank(v)
  <1> DEFINE M == pow2[j]
             R == Rank(v)
             q == R \div M
  <1>1. M \in Nat \ {0} /\ R \in Nat /\ q = rev[m][v % pow2[m]] BY Pow2Is, RankGroup
  <1> HIDE DEF M, R
  <1>2. q \in Nat /\ R % M \in 0..(M - 1) /\ R = M * q + (R % M) BY <1>1, DivMod
  <1> HIDE DEF q
  <1>3. M * q \in Nat BY <1>1, <1>2
  <1>4. M * q <= R BY <1>1, <1>2, <1>3
  <1> QED BY <1>1, <1>3, <1>4 DEF M, R

\* Numbers of the same bucket are in the same group, and the other way round.
LEMMA SameBucket ==
    ASSUME NEW m \in Nat, NEW v \in Nat, NEW h \in Nat,
           rev[m][v % pow2[m]] = rev[m][h % pow2[m]]
    PROVE  v % pow2[m] = h % pow2[m]
  <1> DEFINE a == v % pow2[m]
             b == h % pow2[m]
  <1>1. a \in 0..(pow2[m] - 1) /\ b \in 0..(pow2[m] - 1) BY Pow2Is, DivMod
  <1> HIDE DEF a, b
  <1>2. rev[m][rev[m][a]] = a /\ rev[m][rev[m][b]] = b BY <1>1, RevInvolution
  <1>3. rev[m][a] = rev[m][b] BY DEF a, b
  <1>4. a = b BY <1>2, <1>3
  <1> QED BY <1>4 DEF a, b

\* The cursor that dictScan returns is the first one of the next group, or zero
\* after the last group.
LEMMA NextRank ==
    ASSUME NEW m \in Nat, NEW j \in Nat, m + j = CursorBits, NEW v \in Nat
    PROVE  LET g == rev[m][v % pow2[m]]
               c == NextCursor(v, pow2[m])
           IN  /\ c \in 0..(CursorSize - 1)
               /\ g + 1 < pow2[m] => c # 0 /\ Rank(c) = pow2[j] * (g + 1)
               /\ g + 1 = pow2[m] => c = 0
  <1> DEFINE A == pow2[m]
             M == pow2[j]
             C == CursorSize
             y == v % A
             g == rev[m][y]
             x == y + (C - A)
             n == Reversed(x) + 1
             z == n % C
             c == NextCursor(v, A)
  <1>1. A \in Nat \ {0} /\ M \in Nat \ {0} /\ C = A * M /\ C \in Nat \ {0}
    BY CursorProduct
  <1>2. y \in 0..(A - 1) /\ g \in 0..(A - 1) BY RankGroup
  <1>3. x = A * (M - 1) + y /\ M - 1 \in Nat
    <2> HIDE DEF A, M, C, y
    <2> QED BY <1>1, <1>2
  <1>4. x \div A = M - 1 /\ x % A = y
    <2> HIDE DEF A, M, x, y
    <2>1. (A * (M - 1) + y) \div A = M - 1 /\ (A * (M - 1) + y) % A = y
      BY <1>1, <1>2, <1>3, DivModOf
    <2> QED BY <1>3, <2>1
  <1>5. x \in 0..(C - 1)
    <2>1. A <= C
      <3> HIDE DEF A, M, C
      <3>1. C = A * (M - 1) + A /\ A * (M - 1) \in Nat BY <1>1, <1>3
      <3> QED BY <1>1, <3>1
    <2> HIDE DEF A, M, C, y
    <2> QED BY <1>1, <1>2, <2>1
  <1>6. Reversed(x) = M * g + (M - 1)
    <2>1. rev[m + j][x] = M * rev[m][x % A] + rev[j][x \div A]
      <3> HIDE DEF x
      <3> QED BY <1>5, RevSplit DEF CursorSize
    <2>2. rev[j][M - 1] = M - 1 BY RevEnds
    <2> QED BY <1>4, <2>1, <2>2 DEF Reversed
  <1>7. n = M * (g + 1)
    <2> HIDE DEF g, M, x
    <2> QED BY <1>1, <1>2, <1>6
  <1>8. rev[CursorBits] \in [0..(C - 1) -> 0..(C - 1)] BY RevType, DictAssumption DEF CursorSize
  <1>9. z \in 0..(C - 1)
    <2>1. n \in Nat
      <3> HIDE DEF g, M, n
      <3> QED BY <1>1, <1>2, <1>7
    <2> HIDE DEF n, C
    <2> QED BY <1>1, <2>1, DivMod
  <1>10. c = rev[CursorBits][z] BY DEF NextCursor, Reversed
  <1> HIDE DEF z
  <1>11. c \in 0..(C - 1)
    <2> HIDE DEF c, C
    <2> QED BY <1>8, <1>9, <1>10
  <1>12. c % C = c
    <2> HIDE DEF c, C
    <2>1. c \in Nat /\ c = C * 0 + c BY <1>1, <1>11
    <2> QED BY <1>1, <1>11, <2>1, DivModUnique
  <1>13. Rank(c) = z
    <2>1. rev[CursorBits][rev[CursorBits][z]] = z
      BY <1>9, RevInvolution, DictAssumption DEF CursorSize
    <2> HIDE DEF c
    <2> QED BY <1>10, <1>12, <2>1 DEF Rank
  <1>14. ASSUME g + 1 < A PROVE c # 0 /\ Rank(c) = M * (g + 1)
    <2>1. n \in 0..(C - 1) /\ n # 0
      <3> HIDE DEF n, g, M, A, C
      <3>1. PICK d \in Nat : A = g + 1 + d /\ d # 0 BY <1>1, <1>2, <1>14
      <3>2. C = n + M * d BY <1>1, <1>2, <1>7, <3>1
      <3>3. M * d \in Nat \ {0} /\ n \in Nat \ {0} BY <1>1, <1>2, <1>7, <3>1
      <3> QED BY <3>2, <3>3
    <2>2. z = n
      <3>1. n \in Nat /\ n = C * 0 + n BY <1>1, <2>1
      <3> HIDE DEF n, C
      <3> QED BY <1>1, <2>1, <3>1, DivModUnique DEF z
    <2>3. rev[CursorBits][0] = 0 BY RevEnds, DictAssumption
    <2>4. c # 0
      <3> SUFFICES ASSUME c = 0 PROVE FALSE OBVIOUS
      <3>1. 0 % C = 0 BY <1>12
      <3>2. Rank(c) = 0
        <4> HIDE DEF c
        <4> QED BY <2>3, <3>1 DEF Rank
      <3> QED BY <1>13, <2>1, <2>2, <3>2
    <2> QED BY <1>7, <1>13, <2>2, <2>4
  <1>15. ASSUME g + 1 = A PROVE c = 0
    <2>1. n = C
      <3> HIDE DEF n, g, M, A, C
      <3> QED BY <1>1, <1>7, <1>15
    <2>2. C % C = 0
      <3>1. C = C * 1 + 0 /\ 0 \in 0..(C - 1) BY <1>1
      <3> HIDE DEF C
      <3> QED BY <1>1, <3>1, DivModUnique
    <2>3. rev[CursorBits][0] = 0 BY RevEnds, DictAssumption
    <2> QED BY <1>10, <2>1, <2>2, <2>3 DEF z
  <1> QED BY <1>11, <1>14, <1>15

(***************************************************************************)
(* A scan.                                                                 *)
(***************************************************************************)

\* What stays in the table has not been passed by the cursor.
ScanInv ==
    /\ scan \in [phase : {"idle", "on", "done"}, cursor : 0..(CursorSize - 1),
                 owed : SUBSET keys, cut : BOOLEAN]
    /\ scan.phase = "on" /\ ~scan.cut =>
         \A k \in scan.owed : Rank(scan.cursor) <= Rank(Hash[k])
    /\ scan.phase = "done" /\ ~scan.cut => scan.owed = {}

\* Cursors are natural numbers, zero is one of them, and the first of all.
LEMMA CursorType ==
    /\ CursorSize \in Nat \ {0} /\ 0..(CursorSize - 1) \subseteq Nat
    /\ 0 \in 0..(CursorSize - 1) /\ Rank(0) = 0
  <1>1. CursorSize \in Nat \ {0} BY Pow2Is, DictAssumption DEF CursorSize
  <1>2. 0..(CursorSize - 1) \subseteq Nat /\ 0 \in 0..(CursorSize - 1) BY <1>1
  <1>3. rev[CursorBits][0] = 0 BY RevEnds, DictAssumption
  <1>4. 0 % CursorSize = 0
    <2> DEFINE C == CursorSize
    <2> HIDE DEF C
    <2>1. C \in Nat \ {0} BY <1>1 DEF C
    <2>2. 0 % C = 0 BY <2>1
    <2> QED BY <2>2 DEF C
  <1> QED BY <1>1, <1>2, <1>3, <1>4 DEF Rank

\* Of two powers of two the smaller one divides the other one.
LEMMA PowersDivide ==
    ASSUME NEW m \in Nat, NEW n \in Nat, pow2[m] <= pow2[n]
    PROVE  \E i \in Nat : n = m + i /\ pow2[n] = pow2[m] * pow2[i]
  <1>1. CASE m <= n
    <2>1. PICK i \in Nat : n = m + i BY <1>1
    <2> QED BY <2>1, Pow2Add
  <1>2. CASE n < m
    <2>1. PICK i \in Nat : m = n + (i + 1) BY <1>2
    <2>2. pow2[m] = pow2[n] * pow2[i + 1] BY <2>1, Pow2Add
    <2>3. pow2[n] \in Nat \ {0} /\ pow2[i] \in Nat \ {0} /\ pow2[i + 1] = 2 * pow2[i] BY Pow2Is
    <2>4. pow2[n] * pow2[i + 1] > pow2[n]
      <3> DEFINE a == pow2[n]
                 b == pow2[i]
      <3>1. a \in Nat \ {0} /\ b \in Nat \ {0} BY <2>3
      <3> HIDE DEF a, b
      <3>2. a * (2 * b) = a + a * (2 * b - 1) /\ a * (2 * b - 1) \in Nat \ {0} BY <3>1
      <3>3. a * (2 * b) > a BY <3>1, <3>2
      <3> QED BY <2>3, <3>3 DEF a, b
    <2> QED BY <2>2, <2>3, <2>4
  <1> QED BY <1>1, <1>2

\* A number less than the modulus.
LEMMA SmallMod ==
    ASSUME NEW s \in Nat \ {0}, NEW b \in 0..(s - 1)
    PROVE  b % s = b /\ b \div s = 0
  <1>1. b \in Nat /\ b = s * 0 + b OBVIOUS
  <1> QED BY <1>1, DivModUnique

\* The bucket in a small table, taken from the one in a larger table.
LEMMA ModMod ==
    ASSUME NEW s \in Nat \ {0}, NEW p \in Nat \ {0}, NEW x \in Nat
    PROVE  (x % (s * p)) % s = x % s
  BY DivTwice

\* A number in an earlier group is less.
LEMMA DivOrder ==
    ASSUME NEW M \in Nat \ {0}, NEW R \in Nat, NEW S \in Nat, R \div M < S \div M
    PROVE  R < S
  <1> DEFINE a == R \div M
             b == S \div M
  <1>1. a \in Nat /\ R % M \in 0..(M - 1) /\ R = M * a + (R % M) BY DivMod
  <1>2. b \in Nat /\ S % M \in 0..(M - 1) /\ S = M * b + (S % M) BY DivMod
  <1>3. a < b OBVIOUS
  <1> HIDE DEF a, b
  <1>4. PICK d \in Nat : b = a + 1 + d BY <1>1, <1>2, <1>3
  <1>5. M * b = M * a + M + M * d /\ M * a \in Nat /\ M * d \in Nat BY <1>1, <1>4
  <1> QED BY <1>1, <1>2, <1>5

\* The cursor does not stand inside of the expansion of a bucket of s buckets to a
\* table of l buckets.
Outside(v, s, l) == l > 2 * s => v % l < s

\* The bucket of the larger table is one of those that dictScan visits, unless the
\* cursor stands inside of an expansion.
LEMMA ExpansionMet ==
    ASSUME NEW m \in Nat, NEW n \in Nat, NEW i \in Nat, n = m + i,
           NEW j \in Nat, n + j = CursorBits, NEW v \in Nat, NEW h \in Nat,
           v % pow2[m] = h % pow2[m], Rank(v) <= Rank(h),
           Outside(v, pow2[m], pow2[n])
    PROVE  /\ h % pow2[n] \in 0..(pow2[n] - 1)
           /\ (h % pow2[n]) % pow2[m] = v % pow2[m] /\ h % pow2[n] >= v % pow2[n]
  <1> DEFINE s == pow2[m]
             l == pow2[n]
             p == pow2[i]
             a == h % l
             b == v % l
  <1>1. s \in Nat \ {0} /\ l \in Nat \ {0} /\ p \in Nat \ {0} /\ l = s * p BY Pow2Is, Pow2Add
  <1>2. a \in 0..(l - 1) /\ b \in 0..(l - 1)
    <2> HIDE DEF l
    <2> QED BY <1>1, DivMod
  <1>3. a % s = h % s /\ b % s = v % s
    <2>1. (h % (s * p)) % s = h % s /\ (v % (s * p)) % s = v % s
      <3>1. (h % (s * p)) % s = h % s
        <4> HIDE DEF s, p
        <4> QED BY <1>1, ModMod
      <3>2. (v % (s * p)) % s = v % s
        <4> HIDE DEF s, p
        <4> QED BY <1>1, ModMod
      <3> QED BY <3>1, <3>2
    <2> QED BY <1>1, <2>1
  <1>4. a % s = b % s BY <1>3
  <1>5. a \in Nat /\ b \in Nat BY <1>1, <1>2
  <1>6. CASE b < s
    <2>1. b % s = b
      <3> HIDE DEF b, s
      <3>1. b \in 0..(s - 1) BY <1>1, <1>5, <1>6
      <3> QED BY <1>1, <3>1, SmallMod
    <2>2. a % s <= a
      <3> HIDE DEF a, s
      <3>1. a \div s \in Nat /\ a % s \in 0..(s - 1) /\ a = s * (a \div s) + (a % s) BY <1>1, <1>5, DivMod
      <3>2. s * (a \div s) \in Nat BY <1>1, <3>1
      <3> QED BY <1>1, <3>1, <3>2
    <2>3. a >= b
      <3>1. a % s \in Nat
        <4> HIDE DEF a, s
        <4> QED BY <1>1, <1>5, DivMod
      <3> HIDE DEF a, b, s
      <3> QED BY <1>4, <1>5, <2>1, <2>2, <3>1
    <2> QED BY <1>2, <1>3, <2>3
  <1>7. CASE b >= s
    <2>1. i = 1
      <3>1. l <= 2 * s
        <4>1. ~ (l > 2 * s)
          <5>1. ~ (b < s)
            <6> HIDE DEF b, s
            <6> QED BY <1>1, <1>5, <1>7
          <5> QED BY <5>1 DEF Outside
        <4> HIDE DEF l, s
        <4> QED BY <1>1, <4>1
      <3>2. l > s
        <4> HIDE DEF b, l, s
        <4> QED BY <1>1, <1>2, <1>7
      <3>3. i # 0
        <4> SUFFICES ASSUME i = 0 PROVE FALSE OBVIOUS
        <4>1. n = m BY DEF l, s
        <4> QED BY <1>1, <3>2, <4>1
      <3>4. ASSUME i > 1 PROVE FALSE
        <4>1. PICK k \in Nat : i = (k + 1) + 1 BY <3>4
        <4>2. k + 1 \in Nat /\ pow2[k] \in Nat \ {0} /\ pow2[k + 1] = 2 * pow2[k] BY Pow2Is
        <4>3. pow2[(k + 1) + 1] = 2 * pow2[k + 1] BY <4>2, Pow2Is
        <4>4. p >= 4
          <5>1. p = 2 * (2 * pow2[k]) BY <4>1, <4>2, <4>3
          <5> HIDE DEF p
          <5> QED BY <4>2, <5>1
        <4> HIDE DEF s, p, l
        <4>5. s * p = 2 * s + s * (p - 2) /\ s * (p - 2) \in Nat \ {0} BY <1>1, <4>4
        <4> QED BY <1>1, <3>1, <4>5
      <3> QED BY <3>3, <3>4
    <2>2. n = m + 1 /\ m + (j + 1) = CursorBits /\ j + 1 \in Nat BY <2>1
    <2>3. l = 2 * s BY <2>2, Pow2Is
    <2> DEFINE y == h % s
               z == v % s
               g == rev[m][y]
    <2>4. y = z /\ g \in Nat
      <3>1. rev[m][h % pow2[m]] \in 0..(pow2[m] - 1) BY <2>2, RankGroup
      <3> QED BY <1>1, <3>1
    <2>5. /\ a \div s \in {0, 1} /\ rev[n][a] = 2 * g + (a \div s)
          /\ b \div s \in {0, 1} /\ rev[n][b] = 2 * g + (b \div s)
      <3>1. a \in 0..(pow2[m + 1] - 1) /\ b \in 0..(pow2[m + 1] - 1) BY <1>2, <2>2
      <3> HIDE DEF a, b
      <3>2. /\ a \div s \in {0, 1} /\ rev[m + 1][a] = 2 * rev[m][a % s] + (a \div s)
            /\ b \div s \in {0, 1} /\ rev[m + 1][b] = 2 * rev[m][b % s] + (b \div s)
        BY <3>1, RevTop
      <3> QED BY <1>3, <2>2, <2>4, <3>2
    <2>6. b \div s = 1
      <3> HIDE DEF b, s
      <3>1. b \in Nat /\ b \div s \in Nat /\ b % s \in 0..(s - 1) /\ b = s * (b \div s) + (b % s)
        BY <1>1, <1>5, DivMod
      <3>2. b \div s # 0
        <4> SUFFICES ASSUME b \div s = 0 PROVE FALSE OBVIOUS
        <4>1. s * 0 = 0 BY <1>1
        <4>2. b = b % s BY <1>1, <3>1, <4>1
        <4> QED BY <1>1, <1>7, <3>1, <4>2
      <3> QED BY <2>5, <3>2
    <2>7. a \div s # 0
      <3> SUFFICES ASSUME a \div s = 0 PROVE FALSE OBVIOUS
      <3>1. /\ Rank(h) \div pow2[j] = rev[n][a] /\ Rank(v) \div pow2[j] = rev[n][b]
            /\ Rank(h) \in Nat /\ Rank(v) \in Nat
        <4>1. Rank(h) \div pow2[j] = rev[n][h % pow2[n]] /\ Rank(h) \in Nat BY RankGroup
        <4>2. Rank(v) \div pow2[j] = rev[n][v % pow2[n]] /\ Rank(v) \in Nat BY RankGroup
        <4> QED BY <4>1, <4>2
      <3> DEFINE R == Rank(h)
                 S == Rank(v)
                 M == pow2[j]
                 G == 2 * g
      <3>2. M \in Nat \ {0} /\ G \in Nat /\ R \div M = G /\ S \div M = G + 1
        <4>1. M \in Nat \ {0} BY Pow2Is
        <4>2. rev[n][a] = 2 * g /\ rev[n][b] = 2 * g + 1
          <5> HIDE DEF g, a, b, s
          <5> QED BY <2>4, <2>5, <2>6
        <4> HIDE DEF g, a, b, R, S, M
        <4> QED BY <2>4, <3>1, <4>1, <4>2 DEF R, S, M
      <3>3. R \in Nat /\ S \in Nat /\ S <= R BY <3>1
      <3> HIDE DEF R, S, M, G
      <3>4. R \div M < S \div M BY <3>2
      <3>5. R < S BY <3>2, <3>3, <3>4, DivOrder
      <3> QED BY <3>3, <3>5
    <2>8. a = b
      <3> HIDE DEF a, b, s
      <3>1. a \div s = 1 BY <2>5, <2>7
      <3>2. /\ a % s \in 0..(s - 1) /\ a = s * (a \div s) + (a % s)
            /\ b = s * (b \div s) + (b % s)
        BY <1>1, <1>5, DivMod
      <3> QED BY <1>4, <2>6, <3>1, <3>2
    <2>9. a >= b BY <1>5, <2>8
    <2> QED BY <1>2, <1>3, <2>9
  <1> QED
    <2> HIDE DEF b, s
    <2> QED BY <1>1, <1>5, <1>6, <1>7

\* A key in a bucket after the one visited is not passed by the next cursor.
LEMMA CursorBefore ==
    ASSUME NEW m \in Nat, NEW j \in Nat, m + j = CursorBits, NEW v \in Nat, NEW h \in Nat,
           Rank(v) <= Rank(h), v % pow2[m] # h % pow2[m]
    PROVE  NextCursor(v, pow2[m]) # 0 /\ Rank(NextCursor(v, pow2[m])) <= Rank(h)
  <1> DEFINE A == pow2[m]
             M == pow2[j]
             g == rev[m][v % A]
             e == rev[m][h % A]
             R == Rank(v)
             S == Rank(h)
             c == NextCursor(v, A)
  <1>1. A \in Nat \ {0} /\ M \in Nat \ {0} BY CursorProduct
  <1>2. R \in Nat /\ R \div M = g /\ g \in 0..(A - 1) BY RankGroup
  <1>3. S \in Nat /\ S \div M = e /\ e \in 0..(A - 1) BY RankGroup
  <1>4. g # e BY SameBucket
  <1>5. g + 1 < A => c # 0 /\ Rank(c) = M * (g + 1) BY NextRank
  <1>6. M * e <= S BY GroupRanks
  <1>7. R <= S OBVIOUS
  <1> HIDE DEF A, M, g, e, R, S, c
  <1>8. ~ (e < g)
    <2> SUFFICES ASSUME e < g PROVE FALSE OBVIOUS
    <2>1. S < R BY <1>1, <1>2, <1>3, DivOrder
    <2> QED BY <1>2, <1>3, <1>7, <2>1
  <1>9. g \in Nat /\ e \in Nat /\ g + 1 <= e /\ e < A BY <1>1, <1>2, <1>3, <1>4, <1>8
  <1>10. c # 0 /\ Rank(c) = M * (g + 1) BY <1>1, <1>5, <1>9
  <1>11. M * (g + 1) <= M * e
    <2>1. PICK d \in Nat : e = g + 1 + d BY <1>9
    <2>2. M * e = M * (g + 1) + M * d /\ M * (g + 1) \in Nat /\ M * d \in Nat
      BY <1>1, <1>9, <2>1
    <2> QED BY <2>2
  <1>12. M * (g + 1) \in Nat /\ M * e \in Nat BY <1>1, <1>9
  <1>13. Rank(c) <= S BY <1>3, <1>6, <1>10, <1>11, <1>12
  <1> QED BY <1>10, <1>13 DEF c, S, A

\* A table with an entry has a size that is a power of two.
LEMMA TablePower ==
    ASSUME NEW t, IsTable(t), t.size # 0
    PROVE  t.size \in Nat \ {0} /\ \E m, j \in Nat : m + j = CursorBits /\ t.size = pow2[m]
  <1>1. t.size \in TableSizes BY DEF IsTable
  <1>2. t.size \in Nat \ {0} BY <1>1, DictAssumption
  <1> QED BY <1>1, <1>2, SizeIsPower

\* A key that the cursor has not passed is emitted by the call, or is not passed
\* by the cursor that the call returns either.
LEMMA ScanCall ==
    ASSUME NEW d, NEW ks, DictInv(d, ks), NEW v \in 0..(CursorSize - 1),
           dictIsRehashing(d) => Outside(v, Smaller(d).size, Larger(d).size),
           NEW k \in ks, Rank(v) <= Rank(Hash[k]), k \notin dictScan(d, v).out
    PROVE  dictScan(d, v).cursor # 0 /\ Rank(dictScan(d, v).cursor) <= Rank(Hash[k])
  <1> DEFINE r == dictScan(d, v)
             h == Hash[k]
  <1>1. /\ TableInv(d.ht0) /\ TableInv(d.ht1) /\ IsTable(d.ht0) /\ IsTable(d.ht1)
        /\ ks = Contents(d.ht0) \cup Contents(d.ht1)
    BY DEF DictInv, TableInv
  <1>2. k \in Keys /\ h \in Nat
    <2>1. k \in Keys BY TablesType
    <2> QED BY <2>1, DictAssumption
  <1>3. v \in Nat BY CursorType
  <1>4. dictSize(d) # 0
    <2> SUFFICES ASSUME dictSize(d) = 0 PROVE FALSE OBVIOUS
    <2>1. d.ht0.used \in Nat /\ d.ht1.used \in Nat BY <1>1, SizeType
    <2>2. d.ht0.used = 0 /\ d.ht1.used = 0 BY <2>1 DEF dictSize
    <2>3. Contents(d.ht0) = {} /\ Contents(d.ht1) = {} BY <1>1, <2>2, UsedZero
    <2> QED BY <1>1, <2>3
  <1>5. ASSUME NEW t, TableInv(t), k \in Contents(t)
        PROVE  t.size # 0 /\ k \in t.b[h % t.size]
    BY <1>2, <1>5, InTableExact DEF InTable, Index
  <1>6. CASE ~dictIsRehashing(d)
    <2>1. k \in Contents(d.ht0)
      <3>1. d.ht1.size = 0 BY <1>6 DEF DictInv
      <3>2. 0..(d.ht1.size - 1) = {} BY <3>1
      <3> QED BY <1>1, <3>2, ContentsDef
    <2>2. d.ht0.size # 0 /\ k \in d.ht0.b[h % d.ht0.size] BY <1>1, <1>5, <2>1
    <2>3. PICK m, j \in Nat : m + j = CursorBits /\ d.ht0.size = pow2[m]
      BY <1>1, <2>2, TablePower
    <2>4. r.out = d.ht0.b[v % d.ht0.size] /\ r.cursor = NextCursor(v, pow2[m])
      BY <1>4, <1>6, <2>3 DEF dictScan
    <2>5. v % pow2[m] # h % pow2[m] BY <2>2, <2>3, <2>4
    <2>6. NextCursor(v, pow2[m]) # 0 /\ Rank(NextCursor(v, pow2[m])) <= Rank(h)
      BY <1>2, <1>3, <2>3, <2>5, CursorBefore
    <2> QED BY <2>4, <2>6
  <1>7. CASE dictIsRehashing(d)
    <2> DEFINE S == Smaller(d)
               L == Larger(d)
    <2>1. d.ht0.size # 0 /\ d.ht1.size # 0 BY <1>7 DEF DictInv
    <2>2. /\ TableInv(S) /\ TableInv(L) /\ IsTable(S) /\ IsTable(L) /\ S.size # 0 /\ L.size # 0
          /\ k \in Contents(S) \/ k \in Contents(L)
      BY <1>1, <2>1 DEF Smaller, Larger
    <2>3. S.size <= L.size
      <3>1. d.ht0.size \in Nat /\ d.ht1.size \in Nat BY <1>1, SizeType
      <3> QED BY <3>1 DEF Smaller, Larger
    <2>4. PICK m, q \in Nat : m + q = CursorBits /\ S.size = pow2[m] BY <2>2, TablePower
    <2>5. PICK n, j \in Nat : n + j = CursorBits /\ L.size = pow2[n] BY <2>2, TablePower
    <2>6. PICK i \in Nat : n = m + i /\ pow2[n] = pow2[m] * pow2[i]
      BY <2>3, <2>4, <2>5, PowersDivide
    <2>7. /\ r.out = S.b[v % pow2[m]] \cup UNION {L.b[x] : x \in Expansions(v, S, L)}
          /\ r.cursor = NextCursor(v, pow2[m])
      BY <1>4, <1>7, <2>4 DEF dictScan
    <2>8. v % pow2[m] # h % pow2[m]
      <3> SUFFICES ASSUME v % pow2[m] = h % pow2[m] PROVE FALSE OBVIOUS
      <3>1. CASE k \in Contents(S)
        <4>1. k \in S.b[h % pow2[m]] BY <1>5, <2>2, <2>4, <3>1
        <4> QED BY <2>7, <4>1
      <3>2. CASE k \in Contents(L)
        <4>1. k \in L.b[h % pow2[n]] BY <1>5, <2>2, <2>5, <3>2
        <4>2. Outside(v, pow2[m], pow2[n]) BY <1>7, <2>4, <2>5
        <4>3. /\ h % pow2[n] \in 0..(pow2[n] - 1)
              /\ (h % pow2[n]) % pow2[m] = v % pow2[m] /\ h % pow2[n] >= v % pow2[n]
          <5>1. Rank(v) <= Rank(h) /\ v % pow2[m] = h % pow2[m] /\ h \in Nat /\ n + j = CursorBits
            BY <1>2, <2>5
          <5>2. n = m + i BY <2>6
          <5> HIDE DEF h
          <5> QED BY <1>3, <4>2, <5>1, <5>2, ExpansionMet
        <4>4. h % pow2[n] \in Expansions(v, S, L) BY <2>4, <2>5, <4>3 DEF Expansions
        <4>5. k \in UNION {L.b[x] : x \in Expansions(v, S, L)}
          <5> DEFINE E == Expansions(v, S, L)
                     y == h % pow2[n]
          <5>1. y \in E /\ k \in L.b[y] BY <4>1, <4>4
          <5> HIDE DEF E, y, L
          <5> QED BY <5>1 DEF E
        <4> QED BY <2>7, <4>5
      <3> QED BY <2>2, <3>1, <3>2
    <2>9. NextCursor(v, pow2[m]) # 0 /\ Rank(NextCursor(v, pow2[m])) <= Rank(h)
      BY <1>2, <1>3, <2>4, <2>8, CursorBefore
    <2> QED BY <2>7, <2>9
  <1> QED BY <1>6, <1>7

\* The cursor that a call returns is a cursor.
LEMMA ScanCursor ==
    ASSUME NEW d, NEW ks, DictInv(d, ks), NEW v \in 0..(CursorSize - 1)
    PROVE  dictScan(d, v).cursor \in 0..(CursorSize - 1)
  <1>1. v \in Nat BY CursorType
  <1>2. IsTable(d.ht0) /\ IsTable(d.ht1) BY DEF DictInv, TableInv
  <1>3. ASSUME NEW t, IsTable(t), t.size # 0 PROVE NextCursor(v, t.size) \in 0..(CursorSize - 1)
    <2>1. PICK m, j \in Nat : m + j = CursorBits /\ t.size = pow2[m] BY <1>3, TablePower
    <2>2. NextCursor(v, pow2[m]) \in 0..(CursorSize - 1) BY <1>1, <2>1, NextRank
    <2> QED BY <2>1, <2>2
  <1>4. CASE dictSize(d) = 0 BY <1>4, CursorType DEF dictScan
  <1>5. CASE dictSize(d) # 0 /\ ~dictIsRehashing(d)
    <2>1. d.ht0.size # 0
      <3> SUFFICES ASSUME d.ht0.size = 0 PROVE FALSE OBVIOUS
      <3>1. d.ht1.size = 0 BY <1>5 DEF DictInv
      <3>2. 0..(d.ht0.size - 1) = {} /\ 0..(d.ht1.size - 1) = {} BY <3>1
      <3>3. Contents(d.ht0) = {} /\ Contents(d.ht1) = {} BY <3>2, ContentsDef
      <3>4. d.ht0.used = 0 /\ d.ht1.used = 0 BY <3>3, FS_EmptySet DEF DictInv, TableInv
      <3> QED BY <1>5, <3>4 DEF dictSize
    <2> QED BY <1>2, <1>3, <1>5, <2>1 DEF dictScan
  <1>6. CASE dictSize(d) # 0 /\ dictIsRehashing(d)
    <2>1. IsTable(Smaller(d)) /\ Smaller(d).size # 0 BY <1>2, <1>6 DEF Smaller, DictInv
    <2>2. NextCursor(v, Smaller(d).size) \in 0..(CursorSize - 1) BY <1>3, <2>1
    <2> QED BY <1>6, <2>2 DEF dictScan
  <1> QED BY <1>4, <1>5, <1>6

\* No scan is open at first.
LEMMA ScanInit == Init => ScanInv
  BY CursorType DEF Init, ScanInv, NoScan

\* What the dictionary gains is not owed, and what it loses is owed no longer.
LEMMA ScanKeys ==
    ASSUME ScanInv, keys \subseteq keys', UNCHANGED scan
    PROVE  ScanInv'
  <1>1. scan \in [phase : {"idle", "on", "done"}, cursor : 0..(CursorSize - 1),
                  owed : SUBSET keys', cut : BOOLEAN]
    BY DEF ScanInv
  <1> QED BY <1>1 DEF ScanInv

\* The same for a deletion.
LEMMA ScanForgets ==
    ASSUME ScanInv, NEW ks, Forget(ks)
    PROVE  ScanInv'
  <1>1. /\ scan \in [phase : {"idle", "on", "done"}, cursor : 0..(CursorSize - 1),
                     owed : SUBSET keys, cut : BOOLEAN]
        /\ keys' = keys \ ks /\ scan' = [scan EXCEPT !.owed = @ \ ks]
    BY DEF ScanInv, Forget
  <1>2. /\ scan'.phase = scan.phase /\ scan'.cursor = scan.cursor /\ scan'.cut = scan.cut
        /\ scan'.owed = scan.owed \ ks
        /\ scan' \in [phase : {"idle", "on", "done"}, cursor : 0..(CursorSize - 1),
                      owed : SUBSET (keys \ ks), cut : BOOLEAN]
    BY <1>1
  <1> QED BY <1>1, <1>2 DEF ScanInv

\* A call of SCAN.
LEMMA ScanCalls ==
    ASSUME Inv, ScanInv, ScanStep
    PROVE  ScanInv'
  <1> DEFINE v == scan.cursor
             r == dictScan(dict, v)
             o == scan.owed \ r.out
             c == scan.cut \/ InsideExpansion(v)
             p == IF r.cursor = 0 THEN "done" ELSE "on"
  <1>1. scan \in [phase : {"idle", "on", "done"}, cursor : 0..(CursorSize - 1),
                  owed : SUBSET keys, cut : BOOLEAN]
    BY DEF ScanInv
  <1>2. DictInv(dict, keys) /\ keys' = keys /\ scan.phase = "on" BY DEF Inv, ScanStep
  <1>3. r.cursor \in 0..(CursorSize - 1) BY <1>1, <1>2, ScanCursor
  <1>4. scan' = [scan EXCEPT !.phase = p, !.cursor = r.cursor, !.owed = o, !.cut = c]
    BY DEF ScanStep
  <1> HIDE DEF r
  <1>5. scan'.phase = p /\ scan'.cursor = r.cursor /\ scan'.owed = o /\ scan'.cut = c
    BY <1>1, <1>4
  <1>6. InsideExpansion(v) \in BOOLEAN BY DEF InsideExpansion
  <1>7. scan' \in [phase : {"idle", "on", "done"}, cursor : 0..(CursorSize - 1),
                   owed : SUBSET keys, cut : BOOLEAN]
    BY <1>1, <1>3, <1>4, <1>6
  <1>8. ASSUME ~c, NEW k \in o PROVE r.cursor # 0 /\ Rank(r.cursor) <= Rank(Hash[k])
    <2>1. k \in keys /\ k \in scan.owed /\ k \notin r.out BY <1>1, <1>8
    <2>2. Rank(v) <= Rank(Hash[k]) BY <1>2, <1>8, <2>1 DEF ScanInv
    <2>3. dictIsRehashing(dict) => Outside(v, Smaller(dict).size, Larger(dict).size)
      <3> SUFFICES ASSUME dictIsRehashing(dict) PROVE Outside(v, Smaller(dict).size, Larger(dict).size)
        OBVIOUS
      <3> DEFINE s == Smaller(dict).size
                 l == Larger(dict).size
      <3>1. s \in Nat /\ l \in Nat \ {0}
        <4>1. /\ dict.ht0.size \in Nat /\ dict.ht1.size \in Nat
              /\ dict.ht0.size # 0 /\ dict.ht1.size # 0
          BY <1>2, SizeType DEF DictInv, TableInv
        <4> QED BY <4>1 DEF Smaller, Larger
      <3>2. v % l \in Nat
        <4>1. v \in Nat BY <1>1, CursorType
        <4> HIDE DEF l, v
        <4> QED BY <3>1, <4>1, DivMod
      <3>3. ~ (l > 2 * s /\ v % l >= s) BY <1>8 DEF InsideExpansion
      <3>4. l > 2 * s => v % l < s
        <4> DEFINE x == v % l
        <4> HIDE DEF l, s, x
        <4> QED BY <3>1, <3>2, <3>3 DEF x
      <3> QED BY <3>4 DEF Outside
    <2>4. v \in 0..(CursorSize - 1) BY <1>1
    <2> QED BY <1>2, <2>1, <2>2, <2>3, <2>4, ScanCall DEF r
  <1> HIDE DEF o, c
  <1>9. scan'.phase = "on" /\ ~scan'.cut
          => \A k \in scan'.owed : Rank(scan'.cursor) <= Rank(Hash[k])
    BY <1>5, <1>8
  <1>10. scan'.phase = "done" /\ ~scan'.cut => scan'.owed = {} BY <1>5, <1>8
  <1> QED BY <1>2, <1>7, <1>9, <1>10 DEF ScanInv

\* Every operation keeps the scan complete: the tables may change in any way
\* between two calls, only the place of the cursor in the order matters.
LEMMA ScanInvStep == Inv /\ ScanInv /\ [Next]_vars => ScanInv'
  <1> SUFFICES ASSUME Inv, ScanInv, [Next]_vars PROVE ScanInv' OBVIOUS
  <1>1. ASSUME NEW k \in Keys, dictAddRaw(k) PROVE ScanInv'
    BY <1>1, ScanKeys DEF dictAddRaw
  <1>2. ASSUME NEW k \in Keys, dictGenericDelete(k) PROVE ScanInv'
    BY <1>2, ScanForgets DEF dictGenericDelete
  <1>3. CASE dictEmpty BY <1>3, ScanForgets DEF dictEmpty
  <1>4. CASE ScanStart
    <2>1. scan' = [NoScan EXCEPT !.phase = "on", !.owed = keys] /\ keys' = keys
      BY <1>4 DEF ScanStart
    <2>2. /\ scan'.phase = "on" /\ scan'.cursor = 0 /\ scan'.owed = keys
          /\ scan' \in [phase : {"idle", "on", "done"}, cursor : 0..(CursorSize - 1),
                        owed : SUBSET keys, cut : BOOLEAN]
      BY <2>1, CursorType DEF NoScan
    <2>3. ASSUME NEW k \in keys PROVE Rank(0) <= Rank(Hash[k])
      <3>1. Hash[k] \in Nat BY DictAssumption DEF Inv, TypeOK
      <3>2. 0 \in Nat /\ CursorBits \in Nat /\ 0 + CursorBits = CursorBits BY DictAssumption
      <3>3. Rank(Hash[k]) \in Nat BY <3>1, <3>2, RankGroup
      <3> QED BY <3>3, CursorType
    <2> QED BY <2>1, <2>2, <2>3 DEF ScanInv
  <1>5. CASE ScanStep BY <1>5, ScanCalls
  <1>6. CASE UNCHANGED <<scan, keys>> BY <1>6, ScanKeys
  <1>7. dictFind \/ dictResize \/ dictRehashMilliseconds \/ updateDictResizePolicy
        \/ UNCHANGED vars => UNCHANGED <<scan, keys>>
    BY DEF dictFind, dictResize, dictRehashMilliseconds, updateDictResizePolicy, vars
  <1>8. \A i \in Iters : StartIter(i) \/ dictNext(i) \/ dictReleaseIterator(i)
          => UNCHANGED <<scan, keys>>
    BY DEF StartIter, dictNext, dictReleaseIterator
  <1> QED BY <1>1, <1>2, <1>3, <1>4, <1>5, <1>6, <1>7, <1>8 DEF Next

(***************************************************************************)
(* The theorems.                                                           *)
(***************************************************************************)

\* The inductive invariant holds in every reachable state: the types, the
\* placement of every entry, both counters, and the empty prefix of ht[0].
THEOREM DictCorrect == Spec => []Inv
  BY InitInv, NextInv, PTL DEF Spec

\* dictFind, dictAdd and dictDelete see exactly the keys added and not deleted,
\* at every step of every rehashing.
THEOREM DictFindExact == Spec => []FindExact
  BY DictCorrect, InvImplies, PTL

\* dictRehash never gives up a table that has entries and never reads past its
\* end: the assertion at the head of its loop, and the loop it does not cover.
THEOREM DictRehashSafe == Spec => []RehashSafe
  BY DictCorrect, InvImplies, PTL

\* The tables, rehashidx and the iterators keep to their shapes, and `iterators'
\* counts the open safe iterators.
THEOREM DictTypes == Spec => []TypeOK
<1>1. Inv => TypeOK
  BY DEF Inv
<1>2. QED
  BY DictCorrect, <1>1, PTL

\* A safe iterator returns every key that stays, and none twice, whatever is
\* added and deleted and however the table is expanded while it is open.
THEOREM SafeIteratorExact == Spec => []IterExact
<1>1. IterInv => IterExact
  BY DEF IterInv, IterExact
<1>2. Spec => []IterInv
  BY DictCorrect, IterInit, IterInvStep, PTL DEF Spec
<1>3. QED
  BY <1>1, <1>2, PTL

\* A SCAN returns every key that was there from its first call to its last one,
\* however the table grew, shrank and was rehashed between the calls, unless a
\* call met a cursor in the middle of the expansion of a bucket.
THEOREM ScanUncutComplete == Spec => []ScanCompleteUncut
<1>1. ScanInv => ScanCompleteUncut
  BY DEF ScanInv, ScanCompleteUncut
<1>2. Spec => []ScanInv
  BY DictCorrect, ScanInit, ScanInvStep, PTL DEF Spec
<1>3. QED
  BY <1>1, <1>2, PTL
================================================================================
