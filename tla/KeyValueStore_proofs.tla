------------------------ MODULE KeyValueStore_proofs ------------------------
(***************************************************************************)
(* The store's state is well typed and well formed after every step, a     *)
(* write above the limit always finds a victim, and no write ends above    *)
(* the limit -- for every set of keys, lengths, limit and sample size.     *)
(***************************************************************************)
EXTENDS KeyValueStore, FiniteSetTheorems, WellFoundedInduction, TLAPS

(* Every update of Keyspace keeps a keyspace well formed.  The arithmetic  *)
(* rests on what sums of costs do when entries are added and removed, and  *)
(* these on the cardinality of unions: TotalCost counts bytes.             *)

(* The entries of S hold values, so they have a cost.                      *)
Costed(data, S) == S \subseteq Key /\ \A k \in S : data[k] \in Value

(* The cost of one entry (_cost) is a length.                              *)
LEMMA CostNat ==
  ASSUME NEW k \in Key, NEW v \in Value
  PROVE  Cost(k, v) \in Nat
BY KeyspaceAssumption DEF Cost

(* A set of entries occupies finitely many bytes.                          *)
LEMMA EntryBytesFinite ==
  ASSUME NEW data, NEW S, Costed(data, S)
  PROVE  IsFiniteSet(EntryBytes(data, S))
<1> DEFINE Bytes(k) == {k} \X (1 .. Cost(k, data[k]))
           T == {Bytes(k) : k \in S}
           f == [k \in S |-> Bytes(k)]
<1>1. IsFiniteSet(S)
  BY KeyspaceAssumption, FS_Subset DEF Costed
<1>2. f \in Surjection(S, T)
  BY DEF Surjection
<1>3. IsFiniteSet(T)
  <2> HIDE DEF f, T
  <2> QED BY <1>1, <1>2, FS_Surjection
<1>4. ASSUME NEW k \in S PROVE IsFiniteSet(Bytes(k))
  <2>1. Cost(k, data[k]) \in Nat BY CostNat DEF Costed
  <2>2. IsFiniteSet(1 .. Cost(k, data[k])) BY <2>1, FS_Interval
  <2>3. IsFiniteSet({k}) BY FS_Singleton
  <2> QED BY <2>2, <2>3, FS_Product
<1>5. \A B \in T : IsFiniteSet(B) BY <1>4
<1>6. EntryBytes(data, S) = UNION T BY DEF EntryBytes
<1> QED
  <2> HIDE DEF T
  <2> QED BY <1>3, <1>5, <1>6, FS_UNION

(* A sum of costs is a length.                                             *)
LEMMA TotalCostNat ==
  ASSUME NEW data, NEW S, Costed(data, S)
  PROVE  TotalCost(data, S) \in Nat
BY EntryBytesFinite, FS_CardinalityType DEF TotalCost

(* Nothing costs nothing.                                                  *)
LEMMA TotalCostEmpty ==
  ASSUME NEW data
  PROVE  TotalCost(data, {}) = 0
<1>1. EntryBytes(data, {}) = {} BY DEF EntryBytes
<1> QED BY <1>1, FS_EmptySet DEF TotalCost

(* One entry costs what _cost says.                                        *)
LEMMA TotalCostOne ==
  ASSUME NEW data, NEW k \in Key, data[k] \in Value
  PROVE  TotalCost(data, {k}) = Cost(k, data[k])
<1> DEFINE c == Cost(k, data[k])
<1>1. c \in Nat BY CostNat
<1>2. EntryBytes(data, {k}) = {k} \X (1 .. c)
  BY DEF EntryBytes
<1>3. IsFiniteSet(1 .. c) /\ Cardinality(1 .. c) = c
  <2> HIDE DEF c
  <2> QED BY <1>1, FS_Interval
<1>4. IsFiniteSet({k}) /\ Cardinality({k}) = 1 BY FS_Singleton
<1>5. Cardinality({k} \X (1 .. c)) = 1 * c
  <2> HIDE DEF c
  <2> QED BY <1>3, <1>4, FS_Product, ZenonT(30)
<1>6. TotalCost(data, {k}) = Cardinality({k} \X (1 .. c))
  BY <1>2 DEF TotalCost
<1>7. 1 * c = c
  <2> HIDE DEF c
  <2> QED BY <1>1
<1> QED BY <1>5, <1>6, <1>7

(* The cost of two sets of entries that share none is the sum of theirs.   *)
LEMMA TotalCostUnion ==
  ASSUME NEW data, NEW S, NEW T, Costed(data, S), Costed(data, T),
         S \cap T = {}
  PROVE  TotalCost(data, S \cup T) = TotalCost(data, S) + TotalCost(data, T)
<1> DEFINE A == EntryBytes(data, S)
           B == EntryBytes(data, T)
<1>1. IsFiniteSet(A) /\ IsFiniteSet(B) BY EntryBytesFinite
<1>2. EntryBytes(data, S \cup T) = A \cup B BY DEF EntryBytes
<1>3. A \cap B = {} BY DEF EntryBytes
<1>4. Cardinality(A) \in Nat /\ Cardinality(B) \in Nat
  BY <1>1, FS_CardinalityType
<1>5. Cardinality(A \cup B) = Cardinality(A) + Cardinality(B) - Cardinality({})
  <2> HIDE DEF A, B
  <2> QED BY <1>1, <1>3, FS_Union
<1>6. Cardinality({}) = 0 BY FS_EmptySet
<1>7. TotalCost(data, S \cup T) = Cardinality(A \cup B) BY <1>2 DEF TotalCost
<1>8. TotalCost(data, S) = Cardinality(A) /\ TotalCost(data, T) = Cardinality(B)
  BY DEF TotalCost
<1> HIDE DEF A, B
<1> QED BY <1>4, <1>5, <1>6, <1>7, <1>8

(* Only the entries of S matter for what S costs.                          *)
LEMMA TotalCostSame ==
  ASSUME NEW data, NEW data2, NEW S, \A k \in S : data2[k] = data[k]
  PROVE  TotalCost(data2, S) = TotalCost(data, S)
<1>1. EntryBytes(data2, S) = EntryBytes(data, S) BY DEF EntryBytes
<1> QED BY <1>1 DEF TotalCost

-----------------------------------------------------------------------------
(* What is stored has a cost.                                              *)
LEMMA PresentCosted ==
  ASSUME NEW d \in KeyspaceType, NEW S \in SUBSET Present(d)
  PROVE  Costed(d.data, S)
BY DEF KeyspaceType, Present, Costed

(* Only stored keys expire, so dropping what has expired is a removal of   *)
(* stored keys (_drop_if_expired, drop_expired).                           *)
LEMMA ExpiredPresent ==
  ASSUME NEW d, MetadataHasKey(d), NEW t
  PROVE  ExpiredAt(d, t) \subseteq Present(d)
BY DEF MetadataHasKey, ExpiredAt, Present

(* _remove, of any set of stored keys.                                     *)
LEMMA RemovedWellFormed ==
  ASSUME NEW d, WellFormed(d), NEW S \in SUBSET Present(d)
  PROVE  WellFormed(Removed(d, S))
<1> DEFINE e == Removed(d, S)
           R == Present(d) \ S
<1>0. d \in KeyspaceType BY DEF WellFormed
<1>1. Costed(d.data, S) /\ Costed(d.data, R) BY <1>0, PresentCosted
<1>2. TotalCost(d.data, S) \in Nat /\ TotalCost(d.data, R) \in Nat
  BY <1>1, TotalCostNat
<1>3. e \in KeyspaceType
  BY <1>0, <1>2 DEF KeyspaceType, Removed
<1>4. MetadataHasKey(e)
  BY DEF WellFormed, MetadataHasKey, Removed, Present
<1>5. RecencyExact(e)
  BY <1>0 DEF WellFormed, RecencyExact, Removed, KeyspaceType
<1>6. Present(e) = R
  BY DEF Removed, Present
<1>7. TotalCost(e.data, R) = TotalCost(d.data, R)
  <2>1. \A k \in R : e.data[k] = d.data[k] BY DEF Removed, Present
  <2> HIDE DEF R, e
  <2> QED BY <2>1, TotalCostSame
<1>8. TotalCost(d.data, Present(d)) = TotalCost(d.data, S) + TotalCost(d.data, R)
  <2>1. S \cup R = Present(d) /\ S \cap R = {} OBVIOUS
  <2> HIDE DEF R
  <2> QED BY <1>1, <2>1, TotalCostUnion
<1>9. e.memory = TotalCost(e.data, Present(e))
  <2>1. e.memory = d.memory - TotalCost(d.data, S) BY DEF Removed
  <2>2. d.memory = TotalCost(d.data, Present(d)) BY DEF WellFormed, MemoryExact
  <2> HIDE DEF R, e
  <2> QED BY <1>2, <1>6, <1>7, <1>8, <2>1, <2>2
<1> QED BY <1>3, <1>4, <1>5, <1>9 DEF WellFormed, MemoryExact

(* _write of an entry that is there or not.                                *)
LEMMA WrittenWellFormed ==
  ASSUME NEW d, WellFormed(d), NEW key \in Key, NEW value \in Value
  PROVE  /\ WellFormed(Written(d, key, value))
         /\ Present(Written(d, key, value)) = Present(d) \cup {key}
         /\ Written(d, key, value).memory = Projected(d, key, value)
<1> DEFINE e == Written(d, key, value)
           R == Present(d) \ {key}
           c == Cost(key, value)
           b == Cost(key, d.data[key])
<1>0. d \in KeyspaceType BY DEF WellFormed
<1>1. c \in Nat /\ (key \in Present(d) => b \in Nat)
  BY <1>0, CostNat DEF KeyspaceType, Present
<1>2. key \in Present(d) => c - b = ValueLen[value] - ValueLen[d.data[key]]
  BY <1>0, KeyspaceAssumption DEF Cost, KeyspaceType, Present
<1>3. e.memory = Projected(d, key, value)
  <2>1. d.memory \in Int BY <1>0 DEF KeyspaceType
  <2>2. CASE key \in Present(d)
    <3>1. d.data[key] # None BY <2>2 DEF Present
    <3>2. e.memory = d.memory + ValueLen[value] - ValueLen[d.data[key]]
      BY <1>0, <3>1 DEF Written, KeyspaceType
    <3>3. ValueLen[value] \in Nat /\ ValueLen[d.data[key]] \in Nat
      BY <1>0, <3>1, KeyspaceAssumption DEF KeyspaceType
    <3>4. Projected(d, key, value) = d.memory - b + c
      BY <3>1 DEF Projected
    <3> HIDE DEF e, b, c
    <3> QED BY <1>1, <1>2, <2>1, <2>2, <3>2, <3>3, <3>4
  <2>3. CASE key \notin Present(d)
    <3>1. d.data[key] = None BY <2>3 DEF Present
    <3>2. e.memory = d.memory + c BY <1>0, <3>1 DEF Written, KeyspaceType
    <3>3. Projected(d, key, value) = d.memory - 0 + c BY <3>1 DEF Projected
    <3> HIDE DEF e, c
    <3> QED BY <1>1, <2>1, <3>2, <3>3
  <2> QED BY <2>2, <2>3
<1>4. e.memory \in Int
  BY <1>0, <1>1, <1>3 DEF Projected, KeyspaceType, Present
<1>5. e \in KeyspaceType
  BY <1>0, <1>4 DEF KeyspaceType, Written
<1>6. Present(e) = Present(d) \cup {key}
  BY <1>0, KeyspaceAssumption DEF Written, Present, KeyspaceType, Value, Int64
<1>7. MetadataHasKey(e)
  BY <1>0, <1>6 DEF WellFormed, MetadataHasKey, Written, Present, KeyspaceType
<1>8. RecencyExact(e)
  BY <1>0 DEF WellFormed, RecencyExact, Written, KeyspaceType
<1>9. e.memory = TotalCost(e.data, Present(e))
  <2>1. Costed(e.data, R) /\ Costed(e.data, {key}) /\ Costed(d.data, R)
    BY <1>0, <1>5, <1>6, PresentCosted
  <2>2. TotalCost(e.data, R) = TotalCost(d.data, R)
    <3>1. \A k \in R : e.data[k] = d.data[k] BY <1>0 DEF Written, KeyspaceType
    <3> HIDE DEF R, e
    <3> QED BY <3>1, TotalCostSame
  <2>3. TotalCost(e.data, {key}) = c
    <3>1. e.data[key] = value BY <1>0 DEF Written, KeyspaceType
    <3> HIDE DEF e
    <3> QED BY <3>1, TotalCostOne
  <2>4. TotalCost(e.data, Present(e)) = TotalCost(e.data, R) + c
    <3>1. R \cup {key} = Present(e) /\ R \cap {key} = {} BY <1>6
    <3> HIDE DEF R, e, c
    <3> QED BY <2>1, <2>3, <3>1, TotalCostUnion
  <2>5. TotalCost(d.data, R) \in Nat BY <2>1, TotalCostNat
  <2>6. d.memory = TotalCost(d.data, Present(d)) BY DEF WellFormed, MemoryExact
  <2>7. CASE key \in Present(d)
    <3>1. TotalCost(d.data, {key}) = b
      BY <1>0, <2>7, TotalCostOne DEF KeyspaceType, Present
    <3>2. R \cup {key} = Present(d) /\ R \cap {key} = {} BY <2>7
    <3>3. Costed(d.data, {key}) BY <1>0, <2>7, PresentCosted
    <3>4. TotalCost(d.data, Present(d)) = TotalCost(d.data, R) + b
      <4> HIDE DEF R, b
      <4> QED BY <2>1, <3>1, <3>2, <3>3, TotalCostUnion
    <3>5. Projected(d, key, value) = d.memory - b + c
      BY <2>7 DEF Projected, Present
    <3> HIDE DEF R, e, b, c
    <3> QED BY <1>1, <1>3, <2>2, <2>4, <2>5, <2>6, <2>7, <3>4, <3>5
  <2>8. CASE key \notin Present(d)
    <3>1. R = Present(d) BY <2>8
    <3>2. Projected(d, key, value) = d.memory - 0 + c
      BY <2>8 DEF Projected, Present
    <3> HIDE DEF R, e, c
    <3> QED BY <1>1, <1>3, <2>2, <2>4, <2>5, <2>6, <3>1, <3>2
  <2> QED BY <2>7, <2>8
<1> HIDE DEF e
<1>10. WellFormed(e) BY <1>5, <1>7, <1>8, <1>9 DEF WellFormed, MemoryExact
<1> QED BY <1>3, <1>6, <1>10 DEF e

(* What drop_expired and _drop_if_expired remove are stored keys.          *)
LEMMA DropExpiredWellFormed ==
  ASSUME NEW d, WellFormed(d), NEW t
  PROVE  /\ WellFormed(DropExpired(d, t))
         /\ \A k \in Key : DropExpired(d, t).data[k] \in {None, d.data[k]}
<1>1. ExpiredAt(d, t) \in SUBSET Present(d)
  BY ExpiredPresent DEF WellFormed
<1>2. WellFormed(Removed(d, ExpiredAt(d, t))) BY <1>1, RemovedWellFormed
<1> QED BY <1>2 DEF DropExpired, Removed

LEMMA DropIfExpiredWellFormed ==
  ASSUME NEW d, WellFormed(d), NEW t, NEW key \in Key
  PROVE  /\ WellFormed(DropIfExpired(d, key, t))
         /\ \A k \in Key : DropIfExpired(d, key, t).data[k] \in {None, d.data[k]}
<1>1. ExpiredAt(d, t) \subseteq Present(d)
  BY ExpiredPresent DEF WellFormed
<1>2. key \in ExpiredAt(d, t) => WellFormed(Removed(d, {key}))
  BY <1>1, RemovedWellFormed
<1> QED BY <1>2 DEF DropIfExpired, Removed

(* A deadline may be put on a stored key, and taken off any key.           *)
LEMMA WithDeadlineWellFormed ==
  ASSUME NEW d, WellFormed(d), NEW key \in Key,
         NEW deadline \in Int64 \cup {None},
         deadline = None \/ key \in Present(d)
  PROVE  /\ WellFormed(WithDeadline(d, key, deadline))
         /\ WithDeadline(d, key, deadline).data = d.data
         /\ WithDeadline(d, key, deadline).memory = d.memory
<1> DEFINE e == WithDeadline(d, key, deadline)
<1>0. d \in KeyspaceType BY DEF WellFormed
<1>1. /\ e.data = d.data /\ e.memory = d.memory
      /\ e.access = d.access /\ e.tick = d.tick
      /\ e.expires = [d.expires EXCEPT ![key] = deadline]
  BY <1>0 DEF WithDeadline, KeyspaceType
<1>2. e \in KeyspaceType BY <1>0 DEF KeyspaceType, WithDeadline
<1> HIDE DEF e
<1>3. MetadataHasKey(e)
  BY <1>0, <1>1 DEF WellFormed, MetadataHasKey, Present, KeyspaceType
<1>4. RecencyExact(e) BY <1>1 DEF WellFormed, RecencyExact
<1>5. Present(e) = Present(d) BY <1>1 DEF Present
<1>6. MemoryExact(e) BY <1>1, <1>5 DEF WellFormed, MemoryExact
<1>7. WellFormed(e) BY <1>2, <1>3, <1>4, <1>6 DEF WellFormed
<1> QED BY <1>1, <1>7 DEF e

(* _touch of a stored key gives it a mark above every other one.           *)
LEMMA TouchedWellFormed ==
  ASSUME NEW d, WellFormed(d), NEW key \in Present(d)
  PROVE  /\ WellFormed(Touched(d, key))
         /\ Touched(d, key).data = d.data
         /\ Touched(d, key).memory = d.memory
<1> DEFINE e == Touched(d, key)
<1>0. d \in KeyspaceType /\ key \in Key BY DEF WellFormed, Present
<1>1. /\ e.data = d.data /\ e.memory = d.memory
      /\ e.expires = d.expires /\ e.tick = d.tick + 1
      /\ e.access = [d.access EXCEPT ![key] = d.tick + 1]
  BY <1>0 DEF Touched, KeyspaceType
<1>2. e \in KeyspaceType
  <2>1. d.tick + 1 \in Nat BY <1>0 DEF KeyspaceType
  <2> QED BY <1>0, <2>1 DEF KeyspaceType, Touched
<1> HIDE DEF e
<1>3. MetadataHasKey(e)
  BY <1>0, <1>1 DEF WellFormed, MetadataHasKey, Present, KeyspaceType
<1>4. RecencyExact(e)
  <2>1. d.tick \in Nat /\ d.access \in [Key -> Nat] BY <1>0 DEF KeyspaceType
  <2>2. \A k \in Key : d.access[k] <= d.tick BY DEF WellFormed, RecencyExact
  <2>3. \A k \in Key : e.access[k] = IF k = key THEN d.tick + 1 ELSE d.access[k]
    BY <1>1, <2>1
  <2>4. \A k \in Key : e.access[k] <= e.tick
    BY <1>1, <2>1, <2>2, <2>3
  <2>5. ASSUME NEW j \in Key, NEW k \in Key,
               e.access[j] = e.access[k], e.access[j] # 0
        PROVE  j = k
    <3>1. CASE j = key \/ k = key BY <2>1, <2>2, <2>3, <2>5, <3>1
    <3>2. CASE j # key /\ k # key
      BY <2>3, <2>5, <3>2 DEF WellFormed, RecencyExact
    <3> QED BY <3>1, <3>2
  <2> QED BY <2>4, <2>5 DEF RecencyExact
<1>5. Present(e) = Present(d) BY <1>1 DEF Present
<1>6. MemoryExact(e) BY <1>1, <1>5 DEF WellFormed, MemoryExact
<1>7. WellFormed(e) BY <1>2, <1>3, <1>4, <1>6 DEF WellFormed
<1> QED BY <1>1, <1>7 DEF e

(* An empty store is well formed, whatever its access counter has reached. *)
LEMMA EmptyWellFormed ==
  WellFormed(EmptyKeyspace)
<1>1. EmptyKeyspace \in KeyspaceType BY DEF EmptyKeyspace, KeyspaceType
<1>2. Present(EmptyKeyspace) = {} BY DEF EmptyKeyspace, Present
<1>3. MemoryExact(EmptyKeyspace)
  BY <1>2, TotalCostEmpty DEF MemoryExact, EmptyKeyspace
<1> QED BY <1>1, <1>3 DEF WellFormed, MetadataHasKey, RecencyExact, EmptyKeyspace

LEMMA FlushedWellFormed ==
  ASSUME NEW d, WellFormed(d)
  PROVE  WellFormed(Flushed(d)) /\ Present(Flushed(d)) = {}
<1> DEFINE e == Flushed(d)
<1>1. e = [data |-> [k \in Key |-> None], expires |-> [k \in Key |-> None],
           access |-> [k \in Key |-> 0], tick |-> d.tick, memory |-> 0]
  BY DEF Flushed, EmptyKeyspace
<1>2. d.tick \in Nat BY DEF WellFormed, KeyspaceType
<1> HIDE DEF e
<1>3. e \in KeyspaceType BY <1>1, <1>2 DEF KeyspaceType
<1>4. Present(e) = {} BY <1>1 DEF Present
<1>5. MemoryExact(e) BY <1>1, <1>4, TotalCostEmpty DEF MemoryExact
<1>6. MetadataHasKey(e) /\ RecencyExact(e)
  BY <1>1, <1>2 DEF MetadataHasKey, RecencyExact
<1>7. WellFormed(e) BY <1>3, <1>5, <1>6 DEF WellFormed
<1> QED BY <1>4, <1>7 DEF e

-----------------------------------------------------------------------------
(* Induction over numbers, for sets instead of predicates: to prove that   *)
(* something holds of every n, take for S the set of the n of which it     *)
(* does.  The library states induction with an operator for a parameter,   *)
(* which the provers cannot instantiate; these lemmas follow from what it  *)
(* says of finite sets, whose strict inclusion is well founded.            *)

(* The intervals 0 .. n are finite sets, ordered by inclusion as their     *)
(* upper ends are: a least interval has the least end.                     *)
LEMMA LeastNat ==
  ASSUME NEW T \in SUBSET Nat, T # {}
  PROVE  \E n \in T : \A m \in T : n <= m
<1> DEFINE R == StrictSubsetOrdering(Nat)
           U == {0 .. n : n \in T}
<1>1. IsWellFoundedOn(R, FiniteSubsetsOf(Nat))
  BY FS_StrictSubsetOrderingWellFounded
<1>2. U \subseteq FiniteSubsetsOf(Nat)
  <2>1. \A n \in T : 0 .. n \in SUBSET Nat /\ IsFiniteSet(0 .. n)
    BY FS_Interval
  <2> QED BY <2>1 DEF FiniteSubsetsOf
<1>3. U # {} OBVIOUS
<1>4. PICK I \in U : \A J \in U : <<J, I>> \notin R
  <2> HIDE DEF R, U
  <2> QED BY <1>1, <1>2, <1>3, WFMin
<1>5. PICK n \in T : I = 0 .. n OBVIOUS
<1>6. ASSUME NEW m \in T, m < n PROVE FALSE
  <2>1. 0 .. m \in U /\ 0 .. m \subseteq 0 .. n /\ 0 .. m # 0 .. n
    BY <1>6
  <2>2. <<0 .. m, 0 .. n>> \in R BY <2>1 DEF StrictSubsetOrdering
  <2> QED BY <1>4, <1>5, <2>1, <2>2
<1> QED BY <1>6

(* What holds of a, and of n + 1 whenever it holds of n, holds from a on.  *)
LEMMA InductionFrom ==
  ASSUME NEW a \in Nat, NEW b \in Nat, NEW S, a \in S,
         \A n \in a .. b : n \in S /\ n < b => n + 1 \in S
  PROVE  a .. b \subseteq S
<1> SUFFICES ASSUME NEW k \in a .. b, k \notin S PROVE FALSE
  OBVIOUS
<1> DEFINE T == {n \in a .. b : n \notin S}
<1>1. PICK n \in T : \A m \in T : n <= m
  <2>1. T \in SUBSET Nat /\ T # {} OBVIOUS
  <2> HIDE DEF T
  <2> QED BY <2>1, LeastNat
<1>2. n \in a .. b /\ n # a /\ n - 1 \in a .. b /\ n - 1 < b OBVIOUS
<1>3. n - 1 \in S BY <1>1, <1>2
<1>4. n - 1 + 1 \in S BY <1>2, <1>3
<1> QED BY <1>1, <1>2, <1>4

-----------------------------------------------------------------------------
(* The store.                                                              *)

USE DEF Idle, LoadStep, CanTouch, Returns, Answer, cursors

(* A write in its eviction loop has passed both refusals of _admit.        *)
CallAdmissible ==
  call # None => MaxMemory # 0 /\ Cost(call.key, call.value) <= MaxMemory

(* The inductive invariant.  Memory must be exact for a keyspace emptied   *)
(* of all but one key to be known to cost what that key does.              *)
StoreInv == TypeOK /\ WellFormed(db) /\ CallAdmissible

(* A step that stores nothing new, and what HardLimit asks of any other.   *)
StoresNothing == \A k \in Key : db'.data[k] \in {None, db.data[k]}

LimitKept ==
  /\ mode = "serving" /\ MaxMemory # 0
  /\ \E k \in Key : db'.data[k] \notin {None, db.data[k]}
  => db'.memory <= MaxMemory

(* A step that writes nothing and starts no write.                         *)
LEMMA QuietStep ==
  ASSUME StoreInv, WellFormed(db'), StoresNothing,
         now' \in Nat, sweepCursor' \subseteq Key, evictCursor' \subseteq Key,
         evicted' \subseteq Key, mode' \in {"loading", "serving"},
         call' \in {call, None}
  PROVE  StoreInv' /\ LimitKept
<1>1. TypeOK' BY DEF StoreInv, TypeOK, WellFormed
<1>2. CallAdmissible' BY DEF StoreInv, CallAdmissible
<1>3. LimitKept BY DEF LimitKept, StoresNothing
<1> QED BY <1>1, <1>2, <1>3 DEF StoreInv

-----------------------------------------------------------------------------
(* The end of set and incr leaves what the projection promised.            *)
LEMMA CommitWellFormed ==
  ASSUME NEW d, WellFormed(d), NEW w \in Pending
  PROVE  /\ WellFormed(Commit(d, w))
         /\ Commit(d, w).memory = Projected(d, w.key, w.value)
<1> DEFINE e == Written(d, w.key, w.value)
           f == IF w.op = "set" THEN WithDeadline(e, w.key, w.deadline) ELSE e
<1>1. w.key \in Key /\ w.value \in Value /\ w.deadline \in Int64 \cup {None}
  BY DEF Pending
<1>2. /\ WellFormed(e) /\ w.key \in Present(e)
      /\ e.memory = Projected(d, w.key, w.value)
  BY <1>1, WrittenWellFormed
<1> HIDE DEF e
<1>3. WellFormed(f) /\ f.data = e.data /\ f.memory = e.memory
  BY <1>1, <1>2, WithDeadlineWellFormed
<1> HIDE DEF f
<1>4. w.key \in Present(f) BY <1>2, <1>3 DEF Present
<1>5. Commit(d, w) = Touched(f, w.key) BY DEF Commit, e, f
<1> QED BY <1>2, <1>3, <1>4, <1>5, TouchedWellFormed

(* _admit and what follows it, on a keyspace that lost at most entries     *)
(* since the method began.                                                 *)
LEMMA AdmitStep ==
  ASSUME StoreInv, NEW d, WellFormed(d), NEW w \in Pending,
         \A k \in Key : d.data[k] \in {None, db.data[k]},
         Admit(d, w), call = None
  PROVE  StoreInv' /\ LimitKept
<1>1. /\ now \in Nat /\ sweepCursor \subseteq Key /\ evictCursor \subseteq Key
      /\ evicted \subseteq Key /\ mode \in {"loading", "serving"}
  BY DEF StoreInv, TypeOK
<1>2. /\ sweepCursor' = sweepCursor /\ evictCursor' = evictCursor
      /\ evicted' = evicted /\ mode' = mode
  BY DEF Admit
<1>3. CASE Fits(d, w) /\ db' = Commit(d, w) /\ UNCHANGED <<now, call>>
  <2>1. WellFormed(db') /\ db'.memory = Projected(d, w.key, w.value)
    BY <1>3, CommitWellFormed
  <2>2. TypeOK' BY <1>1, <1>2, <1>3, <2>1 DEF TypeOK, WellFormed, StoreInv
  <2>3. CallAdmissible' BY <1>3 DEF CallAdmissible
  <2>4. LimitKept BY <1>3, <2>1 DEF LimitKept, Fits
  <2> QED BY <2>1, <2>2, <2>3, <2>4 DEF StoreInv
<1>4. CASE Refused(d, w) /\ db' = d /\ UNCHANGED <<now, call>>
  <2>1. WellFormed(db') /\ StoresNothing BY <1>4 DEF StoresNothing
  <2> QED BY <1>1, <1>2, <1>4, <2>1, QuietStep
<1>5. CASE /\ ~Fits(d, w) /\ ~Refused(d, w)
           /\ \E t \in now .. MaxTime : now' = t /\ db' = DropExpired(d, t)
           /\ call' = w
  <2>1. PICK t \in now .. MaxTime : now' = t /\ db' = DropExpired(d, t)
    BY <1>5
  <2>2. /\ WellFormed(db')
        /\ \A k \in Key : db'.data[k] \in {None, d.data[k]}
    BY <2>1, DropExpiredWellFormed
  <2>3. StoresNothing BY <2>2 DEF StoresNothing
  <2>4. now' \in Nat BY <1>1, <2>1, StoreAssumption
  <2>5. TypeOK' BY <1>1, <1>2, <1>5, <2>2, <2>4 DEF TypeOK, WellFormed
  <2>6. CallAdmissible'
    <3>1. w.key \in Key /\ w.value \in Value BY DEF Pending
    <3>2. Cost(w.key, w.value) \in Nat BY <3>1, CostNat
    <3>3. MaxMemory # 0 /\ ~(Cost(w.key, w.value) > MaxMemory)
      BY <1>5 DEF Fits, Refused
    <3>4. Cost(w.key, w.value) <= MaxMemory BY <3>2, <3>3, StoreAssumption
    <3> QED BY <1>5, <3>3, <3>4 DEF CallAdmissible
  <2>7. LimitKept BY <2>3 DEF LimitKept, StoresNothing
  <2> QED BY <2>2, <2>5, <2>6, <2>7 DEF StoreInv
<1> QED BY <1>3, <1>4, <1>5 DEF Admit

-----------------------------------------------------------------------------
(* Recovery (the recovery primitives of store.py and the end of load).     *)
LEMMA LoadInv ==
  ASSUME StoreInv, Load
  PROVE  StoreInv' /\ LimitKept
<1>0. /\ WellFormed(db) /\ now \in Nat /\ sweepCursor \subseteq Key
      /\ evictCursor \subseteq Key /\ evicted \subseteq Key
  BY DEF StoreInv, TypeOK
<1>1. ASSUME NEW key \in Key, NEW value \in SetValues,
             NEW deadline \in RestoreDeadlines \cup {None},
             Restore(key, value, deadline)
      PROVE  StoreInv' /\ LimitKept
  <2>1. value \in Value /\ deadline \in Int64 \cup {None}
    BY StoreAssumption
  <2>2. /\ WellFormed(Written(db, key, value))
        /\ key \in Present(Written(db, key, value))
    BY <1>0, <2>1, WrittenWellFormed
  <2>3. WellFormed(db')
    BY <1>1, <2>1, <2>2, WithDeadlineWellFormed DEF Restore, Restored
  <2>4. TypeOK' BY <1>1, <2>3 DEF Restore, TypeOK, StoreInv, WellFormed
  <2>5. CallAdmissible' BY <1>1 DEF Restore, CallAdmissible, StoreInv
  <2>6. LimitKept BY <1>1 DEF Restore, LimitKept
  <2> QED BY <2>3, <2>4, <2>5, <2>6 DEF StoreInv
<1>2. ASSUME NEW key \in Key, NEW deadline \in RestoreDeadlines,
             SetDeadline(key, deadline)
      PROVE  StoreInv' /\ LimitKept
  <2>1. WellFormed(db') /\ db'.data = db.data
    BY <1>0, <1>2, StoreAssumption, WithDeadlineWellFormed DEF SetDeadline
  <2>2. StoresNothing BY <2>1 DEF StoresNothing
  <2> QED BY <1>0, <1>2, <2>1, <2>2, QuietStep DEF SetDeadline
<1>3. ASSUME NEW key \in Key, ClearDeadline(key)
      PROVE  StoreInv' /\ LimitKept
  <2>1. WellFormed(db') /\ db'.data = db.data
    BY <1>0, <1>3, WithDeadlineWellFormed DEF ClearDeadline
  <2>2. StoresNothing BY <2>1 DEF StoresNothing
  <2> QED BY <1>0, <1>3, <2>1, <2>2, QuietStep DEF ClearDeadline
<1>4. ASSUME NEW key \in Key, Discard(key)
      PROVE  StoreInv' /\ LimitKept
  <2>1. WellFormed(db') BY <1>0, <1>4, RemovedWellFormed DEF Discard
  <2>2. StoresNothing BY <1>4 DEF StoresNothing, Discard, Removed
  <2> QED BY <1>0, <1>4, <2>1, <2>2, QuietStep DEF Discard
<1>5. ASSUME FinishLoad PROVE StoreInv' /\ LimitKept
  <2>1. WellFormed(db') /\ StoresNothing
    BY <1>0, <1>5, DropExpiredWellFormed DEF FinishLoad, StoresNothing
  <2> QED BY <1>0, <1>5, <2>1, QuietStep DEF FinishLoad
<1> QED BY <1>1, <1>2, <1>3, <1>4, <1>5 DEF Load

(* set: a deadline is installed only when it is in range.                  *)
LEMMA SetInv ==
  ASSUME StoreInv, NEW key \in Key, NEW value \in SetValues,
         NEW ttl \in Ttls \cup {None}, Set(key, value, ttl)
  PROVE  StoreInv' /\ LimitKept
<1> DEFINE w == [op |-> "set", key |-> key, value |-> value,
                 deadline |-> IF ttl = None THEN None ELSE now + ttl]
<1>0. WellFormed(db) /\ TypeOK /\ now \in Nat BY DEF StoreInv, TypeOK
<1>1. CASE ttl # None /\ BadTtl(ttl, now)
  <2>1. db' = db /\ UNCHANGED <<now, cursors, evicted, mode, call>>
    BY <1>1 DEF Set
  <2>2. WellFormed(db') /\ StoresNothing BY <1>0, <2>1 DEF StoresNothing
  <2> QED BY <1>0, <2>1, <2>2, QuietStep DEF TypeOK
<1>2. CASE ~(ttl # None /\ BadTtl(ttl, now))
  <2>1. ttl # None => now + ttl \in Int64
    BY <1>0, <1>2, StoreAssumption, KeyspaceAssumption DEF BadTtl, Int64
  <2>2. w \in Pending BY <2>1, StoreAssumption DEF Pending
  <2>3. Admit(db, w) /\ call = None BY <1>2 DEF Set
  <2> HIDE DEF w
  <2> QED BY <1>0, <2>2, <2>3, AdmitStep
<1> QED BY <1>1, <1>2

(* get: an expired key goes, a stored one is touched.                      *)
LEMMA GetInv ==
  ASSUME StoreInv, NEW key \in Key, Get(key)
  PROVE  StoreInv' /\ LimitKept
<1> DEFINE d == DropIfExpired(db, key, now)
<1>0. WellFormed(db) /\ TypeOK BY DEF StoreInv
<1>1. WellFormed(d) /\ \A k \in Key : d.data[k] \in {None, db.data[k]}
  BY <1>0, DropIfExpiredWellFormed
<1>2. /\ db' = IF key \in Present(d) THEN Touched(d, key) ELSE d
      /\ UNCHANGED <<now, cursors, evicted, mode, call>>
  BY DEF Get
<1> HIDE DEF d
<1>3. WellFormed(db') /\ db'.data = d.data
  BY <1>1, <1>2, TouchedWellFormed
<1>4. StoresNothing BY <1>1, <1>3 DEF StoresNothing
<1> QED BY <1>0, <1>2, <1>3, <1>4, QuietStep DEF TypeOK

(* incr: what it writes back stays in the 64-bit range.                    *)
LEMMA IncrInv ==
  ASSUME StoreInv, NEW key \in Key, Incr(key)
  PROVE  StoreInv' /\ LimitKept
<1> DEFINE d == DropIfExpired(db, key, now)
           raw == d.data[key]
           old == IF raw = None THEN 0 ELSE raw
           w == [op |-> "incr", key |-> key, value |-> old + 1,
                 deadline |-> d.expires[key]]
<1>0. WellFormed(db) /\ TypeOK BY DEF StoreInv
<1>1. WellFormed(d) /\ \A k \in Key : d.data[k] \in {None, db.data[k]}
  BY <1>0, DropIfExpiredWellFormed
<1>2. CASE db' = d /\ UNCHANGED <<now, cursors, evicted, mode, call>>
  <2> HIDE DEF d
  <2>1. StoresNothing BY <1>1, <1>2 DEF StoresNothing
  <2> QED BY <1>0, <1>1, <1>2, <2>1, QuietStep DEF TypeOK
<1>3. CASE raw \notin Text /\ raw # INT64_MAX /\ Admit(d, w)
  <2>1. raw \in Value \cup {None} /\ d.expires[key] \in Int64 \cup {None}
    <3> HIDE DEF d
    <3> QED BY <1>1 DEF WellFormed, KeyspaceType
  <2>2. old + 1 \in Int64
    <3> HIDE DEF raw
    <3> QED BY <1>3, <2>1, KeyspaceAssumption DEF Value, Int64
  <2>3. w \in Pending
    <3> HIDE DEF d, old
    <3> QED BY <2>1, <2>2 DEF Pending, Value
  <2>4. call = None BY DEF Incr
  <2> HIDE DEF d, w
  <2> QED BY <1>1, <1>3, <2>3, <2>4, AdmitStep
<1> QED BY <1>2, <1>3 DEF Incr

(* The clock only goes forward.                                            *)
LEMMA ReadingsType ==
  ASSUME StoreInv, NEW ks \in KeyArgs, NEW ts \in Readings(Len(ks))
  PROVE  /\ DOMAIN ks = 1 .. Len(ks) /\ \A i \in DOMAIN ks : ks[i] \in Key
         /\ ts[Len(ks)] \in Nat
<1>1. ks \in Seq(Key) /\ ks # <<>> BY StoreAssumption
<1>2. Len(ks) \in 1 .. Len(ks) BY <1>1
<1>3. ts[Len(ks)] \in now .. MaxTime BY <1>2 DEF Readings
<1>4. now \in Nat BY DEF StoreInv, TypeOK
<1> QED BY <1>1, <1>3, <1>4, StoreAssumption

(* delete removes every named key that is stored, expired or not.          *)
LEMMA DeleteInv ==
  ASSUME StoreInv, NEW ks \in KeyArgs, Delete(ks)
  PROVE  StoreInv' /\ LimitKept
<1>0. WellFormed(db) /\ TypeOK BY DEF StoreInv
<1>1. PICK ts \in Readings(Len(ks)) :
        /\ now' = ts[Len(ks)]
        /\ db' = Removed(db, {ks[i] : i \in DOMAIN ks} \cap Present(db))
        /\ UNCHANGED <<cursors, evicted, mode, call>>
  BY DEF Delete
<1>2. now' \in Nat BY <1>1, ReadingsType
<1>3. WellFormed(db') BY <1>0, <1>1, RemovedWellFormed
<1>4. StoresNothing BY <1>1 DEF StoresNothing, Removed
<1> QED BY <1>0, <1>1, <1>2, <1>3, <1>4, QuietStep DEF TypeOK

(* exists drops the named keys it finds expired.                           *)
LEMMA ExistsInv ==
  ASSUME StoreInv, NEW ks \in KeyArgs, Exists(ks)
  PROVE  StoreInv' /\ LimitKept
<1>0. WellFormed(db) /\ TypeOK BY DEF StoreInv
<1>1. PICK ts \in Readings(Len(ks)) :
        /\ now' = ts[Len(ks)]
        /\ db' = Removed(db, {ks[i] : i \in {j \in DOMAIN ks :
                                              ks[j] \in ExpiredAt(db, ts[j])}})
        /\ UNCHANGED <<cursors, evicted, mode, call>>
  BY DEF Exists
<1> DEFINE gone == {ks[i] : i \in {j \in DOMAIN ks :
                                    ks[j] \in ExpiredAt(db, ts[j])}}
<1>2. now' \in Nat BY <1>1, ReadingsType
<1>3. gone \subseteq Present(db)
  <2>1. \A t : ExpiredAt(db, t) \subseteq Present(db)
    BY <1>0, ExpiredPresent DEF WellFormed
  <2> QED BY <2>1
<1>4. WellFormed(db') BY <1>0, <1>1, <1>3, RemovedWellFormed
<1>5. StoresNothing BY <1>1 DEF StoresNothing, Removed
<1> QED BY <1>0, <1>1, <1>2, <1>4, <1>5, QuietStep DEF TypeOK

(* expire: a deadline is put on a stored key, and in range.                *)
LEMMA ExpireInv ==
  ASSUME StoreInv, NEW key \in Key, NEW ttl \in Ttls, Expire(key, ttl)
  PROVE  StoreInv' /\ LimitKept
<1> DEFINE d == DropIfExpired(db, key, now)
<1>0. WellFormed(db) /\ TypeOK /\ now \in Nat BY DEF StoreInv, TypeOK
<1>1. WellFormed(d) /\ \A k \in Key : d.data[k] \in {None, db.data[k]}
  BY <1>0, DropIfExpiredWellFormed
<1>2. UNCHANGED <<cursors, evicted, mode, call>> BY DEF Expire
<1>3. \/ now' = now /\ (db' = d \/ (key \in Present(d) /\ db' = Removed(d, {key})))
      \/ /\ key \in Present(d) /\ ttl > 0
         /\ \E t \in now .. MaxTime :
              /\ now' = t
              /\ \/ db' = d
                 \/ ~BadTtl(ttl, t) /\ db' = WithDeadline(d, key, t + ttl)
  BY DEF Expire
<1> HIDE DEF d
<1>4. /\ now' \in Nat /\ WellFormed(db')
      /\ \A k \in Key : db'.data[k] \in {None, d.data[k]}
  <2>1. CASE now' = now /\ db' = d BY <1>0, <1>1, <2>1
  <2>2. CASE now' = now /\ key \in Present(d) /\ db' = Removed(d, {key})
    <3>1. WellFormed(db') BY <1>1, <2>2, RemovedWellFormed
    <3> QED BY <1>0, <2>2, <3>1 DEF Removed
  <2>3. CASE /\ key \in Present(d) /\ ttl > 0
             /\ \E t \in now .. MaxTime :
                  /\ now' = t
                  /\ \/ db' = d
                     \/ ~BadTtl(ttl, t) /\ db' = WithDeadline(d, key, t + ttl)
    <3>1. PICK t \in now .. MaxTime :
            /\ now' = t
            /\ \/ db' = d
               \/ ~BadTtl(ttl, t) /\ db' = WithDeadline(d, key, t + ttl)
      BY <2>3
    <3>2. t \in Nat /\ now' \in Nat BY <1>0, <3>1, StoreAssumption
    <3>3. CASE db' = d BY <1>1, <3>2, <3>3
    <3>4. CASE ~BadTtl(ttl, t) /\ db' = WithDeadline(d, key, t + ttl)
      <4>1. t + ttl \in Int64
        BY <2>3, <3>2, <3>4, StoreAssumption, KeyspaceAssumption
        DEF BadTtl, Int64
      <4> QED BY <1>1, <2>3, <3>2, <3>4, <4>1, WithDeadlineWellFormed
    <3> QED BY <3>1, <3>3, <3>4
  <2> QED BY <1>3, <2>1, <2>2, <2>3
<1>5. StoresNothing BY <1>1, <1>4 DEF StoresNothing
<1> QED BY <1>0, <1>2, <1>4, <1>5, QuietStep DEF TypeOK

(* ttl, persist and dbsize at most drop what has expired, or a deadline.   *)
LEMMA TtlInv ==
  ASSUME StoreInv, NEW key \in Key, Ttl(key)
  PROVE  StoreInv' /\ LimitKept
<1>0. WellFormed(db) /\ TypeOK BY DEF StoreInv
<1>1. /\ db' = DropIfExpired(db, key, now)
      /\ UNCHANGED <<now, cursors, evicted, mode, call>>
  BY DEF Ttl
<1>2. WellFormed(db') /\ StoresNothing
  BY <1>0, <1>1, DropIfExpiredWellFormed DEF StoresNothing
<1> QED BY <1>0, <1>1, <1>2, QuietStep DEF TypeOK

LEMMA PersistInv ==
  ASSUME StoreInv, NEW key \in Key, Persist(key)
  PROVE  StoreInv' /\ LimitKept
<1> DEFINE d == DropIfExpired(db, key, now)
<1>0. WellFormed(db) /\ TypeOK BY DEF StoreInv
<1>1. WellFormed(d) /\ \A k \in Key : d.data[k] \in {None, db.data[k]}
  BY <1>0, DropIfExpiredWellFormed
<1>2. /\ db' = d \/ db' = WithDeadline(d, key, None)
      /\ UNCHANGED <<now, cursors, evicted, mode, call>>
  BY DEF Persist
<1> HIDE DEF d
<1>3. WellFormed(db') /\ db'.data = d.data
  BY <1>1, <1>2, WithDeadlineWellFormed
<1>4. StoresNothing BY <1>1, <1>3 DEF StoresNothing
<1> QED BY <1>0, <1>2, <1>3, <1>4, QuietStep DEF TypeOK

LEMMA DbsizeInv ==
  ASSUME StoreInv, Dbsize
  PROVE  StoreInv' /\ LimitKept
<1>0. WellFormed(db) /\ TypeOK BY DEF StoreInv
<1>1. /\ db' = DropExpired(db, now)
      /\ UNCHANGED <<now, cursors, evicted, mode, call>>
  BY DEF Dbsize
<1>2. WellFormed(db') /\ StoresNothing
  BY <1>0, <1>1, DropExpiredWellFormed DEF StoresNothing
<1> QED BY <1>0, <1>1, <1>2, QuietStep DEF TypeOK

LEMMA FlushdbInv ==
  ASSUME StoreInv, Flushdb
  PROVE  StoreInv' /\ LimitKept
<1>0. WellFormed(db) /\ TypeOK BY DEF StoreInv
<1>1. WellFormed(db') /\ Present(db') = {}
  BY <1>0, FlushedWellFormed DEF Flushdb
<1>2. StoresNothing BY <1>1 DEF StoresNothing, Present
<1> QED BY <1>0, <1>1, <1>2, QuietStep DEF Flushdb, TypeOK

(* Whatever the cursor holds, victims are stored keys other than the one   *)
(* being written, and the cursor keeps holding keys (_select_victim).      *)
LEMMA SamplesType ==
  ASSUME StoreInv, NEW exclude, NEW sample \in Samples(exclude)
  PROVE  /\ sample.keys \subseteq Present(db) \ {exclude}
         /\ sample.cursor \subseteq Key
<1>1. evictCursor \subseteq Key /\ Present(db) \subseteq Key
  BY DEF StoreInv, TypeOK, Present
<1> QED BY <1>1 DEF Samples, kSubset, Candidates

LEMMA EvictOneInv ==
  ASSUME StoreInv, EvictOne
  PROVE  StoreInv' /\ LimitKept
<1>0. WellFormed(db) /\ TypeOK BY DEF StoreInv
<1>1. PICK sample \in Samples(call.key) :
        \E victim \in LeastRecent(sample.keys) :
          /\ db' = Removed(db, {victim})
          /\ evicted' = evicted \cup {victim}
          /\ evictCursor' = sample.cursor
  BY DEF EvictOne
<1>2. PICK victim \in LeastRecent(sample.keys) :
        /\ db' = Removed(db, {victim})
        /\ evicted' = evicted \cup {victim}
        /\ evictCursor' = sample.cursor
  BY <1>1
<1>3. victim \in Present(db) /\ victim \in Key /\ sample.cursor \subseteq Key
  BY <1>2, SamplesType DEF LeastRecent, Present
<1>4. WellFormed(db') BY <1>0, <1>2, <1>3, RemovedWellFormed
<1>5. StoresNothing BY <1>2 DEF StoresNothing, Removed
<1>6. UNCHANGED <<now, sweepCursor, mode, call>> BY DEF EvictOne
<1> QED BY <1>0, <1>2, <1>3, <1>4, <1>5, <1>6, QuietStep DEF TypeOK

LEMMA FinishWriteInv ==
  ASSUME StoreInv, FinishWrite
  PROVE  StoreInv' /\ LimitKept
<1>0. WellFormed(db) /\ TypeOK /\ call \in Pending
  BY DEF StoreInv, TypeOK, FinishWrite
<1>1. WellFormed(db') /\ db'.memory = Projected(db, call.key, call.value)
  BY <1>0, CommitWellFormed DEF FinishWrite
<1>2. TypeOK' BY <1>0, <1>1 DEF FinishWrite, TypeOK, WellFormed
<1>3. CallAdmissible' BY DEF FinishWrite, CallAdmissible
<1>4. LimitKept BY <1>1 DEF FinishWrite, Fits, LimitKept
<1> QED BY <1>1, <1>2, <1>3, <1>4 DEF StoreInv

(* sweep_expired: only keys that still carry a deadline are removed, each  *)
(* of them once.                                                           *)
LEMMA SweepInv ==
  ASSUME StoreInv, Sweep
  PROVE  StoreInv' /\ LimitKept
<1> DEFINE due == ExpiredAt(db, now)
           first == Removed(db, sweepCursor \cap due)
           timed == {k \in Key : first.expires[k] # None}
<1>0. WellFormed(db) /\ TypeOK BY DEF StoreInv
<1>1. due \subseteq Present(db) BY <1>0, ExpiredPresent DEF WellFormed
<1>2. UNCHANGED <<now, evictCursor, evicted, mode, call>> BY DEF Sweep
<1>3. \/ \E seen \in SUBSET sweepCursor :
           db' = Removed(db, seen \cap due) /\ sweepCursor' = sweepCursor \ seen
      \/ \E seen \in SUBSET timed :
           db' = Removed(first, seen \cap due) /\ sweepCursor' = timed \ seen
  BY DEF Sweep, kSubset
<1>4. WellFormed(first) BY <1>0, <1>1, RemovedWellFormed
<1>5. timed \subseteq Present(first)
  BY <1>4 DEF WellFormed, MetadataHasKey, Present
<1>6. CASE \E seen \in SUBSET sweepCursor :
             db' = Removed(db, seen \cap due) /\ sweepCursor' = sweepCursor \ seen
  <2>1. PICK seen \in SUBSET sweepCursor :
          db' = Removed(db, seen \cap due) /\ sweepCursor' = sweepCursor \ seen
    BY <1>6
  <2>2. WellFormed(db') BY <1>0, <1>1, <2>1, RemovedWellFormed
  <2>3. StoresNothing BY <2>1 DEF StoresNothing, Removed
  <2> QED BY <1>0, <1>2, <2>1, <2>2, <2>3, QuietStep DEF TypeOK
<1>7. CASE \E seen \in SUBSET timed :
             db' = Removed(first, seen \cap due) /\ sweepCursor' = timed \ seen
  <2>1. PICK seen \in SUBSET timed :
          db' = Removed(first, seen \cap due) /\ sweepCursor' = timed \ seen
    BY <1>7
  <2>2. seen \cap due \in SUBSET Present(first) BY <1>5
  <2>3. WellFormed(db')
    <3> HIDE DEF first
    <3> QED BY <1>4, <2>1, <2>2, RemovedWellFormed
  <2>4. StoresNothing BY <2>1 DEF StoresNothing, Removed
  <2>5. sweepCursor' \subseteq Key BY <2>1
  <2> QED BY <1>0, <1>2, <2>3, <2>4, <2>5, QuietStep DEF TypeOK
<1> QED BY <1>3, <1>6, <1>7

-----------------------------------------------------------------------------
LEMMA StoreInvInit == Init => StoreInv
<1> SUFFICES ASSUME Init PROVE StoreInv
  OBVIOUS
<1>1. WellFormed(db) BY EmptyWellFormed DEF Init
<1>2. TypeOK BY <1>1 DEF Init, TypeOK, WellFormed
<1>3. CallAdmissible BY DEF Init, CallAdmissible
<1> QED BY <1>1, <1>2, <1>3 DEF StoreInv

LEMMA OperationInv ==
  ASSUME StoreInv, Operation
  PROVE  StoreInv' /\ LimitKept
BY SetInv, GetInv, IncrInv, ExpireInv, TtlInv, PersistInv, DeleteInv,
   ExistsInv, DbsizeInv, FlushdbInv DEF Operation

(* Every step keeps the invariant, and the limit.                          *)
LEMMA StoreInvStep ==
  StoreInv /\ [Next]_vars => StoreInv' /\ [LimitKept]_vars
<1> SUFFICES ASSUME StoreInv, [Next]_vars
             PROVE  StoreInv' /\ [LimitKept]_vars
  OBVIOUS
<1>0. WellFormed(db) /\ TypeOK BY DEF StoreInv
<1>1. CASE Tick
  <2>1. now' \in Nat BY <1>0, <1>1 DEF Tick, TypeOK
  <2>2. WellFormed(db') /\ StoresNothing
    BY <1>0, <1>1 DEF Tick, StoresNothing
  <2> QED BY <1>0, <1>1, <2>1, <2>2, QuietStep DEF Tick, TypeOK
<1>2. CASE Load BY <1>2, LoadInv
<1>3. CASE Operation BY <1>3, OperationInv
<1>4. CASE EvictOne BY <1>4, EvictOneInv
<1>5. CASE FinishWrite BY <1>5, FinishWriteInv
<1>6. CASE TakeEvicted
  <2>1. WellFormed(db') /\ StoresNothing
    BY <1>0, <1>6 DEF TakeEvicted, StoresNothing
  <2> QED BY <1>0, <1>6, <2>1, QuietStep DEF TakeEvicted, TypeOK
<1>7. CASE Sweep BY <1>7, SweepInv
<1>8. CASE UNCHANGED vars
  <2>1. StoreInv' BY <1>8 DEF vars, StoreInv, TypeOK, CallAdmissible
  <2> QED BY <1>8, <2>1
<1> QED BY <1>1, <1>2, <1>3, <1>4, <1>5, <1>6, <1>7, <1>8 DEF Next

(* The invariant holds of every reachable state of the store.              *)
THEOREM Invariance == Spec => []StoreInv
<1>1. StoreInv /\ [Next]_vars => StoreInv' BY StoreInvStep
<1> QED BY <1>1, StoreInvInit, PTL DEF Spec

(* Every value, deadline and mark stays in its range.                      *)
THEOREM TypeCorrect == Spec => []TypeOK
<1>1. StoreInv => TypeOK BY DEF StoreInv
<1> QED BY <1>1, Invariance, PTL

(* No deadline or access mark outlives its key (the comment on _expires).  *)
THEOREM NoOrphanMetadata == Spec => []MetadataHasKeys
<1>1. StoreInv => MetadataHasKeys
  BY DEF StoreInv, WellFormed, MetadataHasKeys
<1> QED BY <1>1, Invariance, PTL

(* The access counter orders the keys without ties.                        *)
THEOREM RecencyCorrect == Spec => []RecencyIsExact
<1>1. StoreInv => RecencyIsExact
  BY DEF StoreInv, WellFormed, RecencyIsExact
<1> QED BY <1>1, Invariance, PTL

(* memory_used is the sum of the costs of the stored entries.              *)
THEOREM MemoryCorrect == Spec => []MemoryIsExact
<1>1. StoreInv => MemoryIsExact
  BY DEF StoreInv, WellFormed, MemoryIsExact
<1> QED BY <1>1, Invariance, PTL

(* _admit never runs out of victims: were the written key the only one     *)
(* left, the projection would be its own cost, which was found admissible. *)
LEMMA VictimFromInv == StoreInv => VictimExists
<1> SUFFICES ASSUME StoreInv, call # None, ~Fits(db, call),
                    Present(db) \ {call.key} = {}
             PROVE  FALSE
  BY DEF VictimExists
<1> DEFINE key == call.key
           c == Cost(key, call.value)
           b == Cost(key, db.data[key])
<1>1. /\ db \in KeyspaceType /\ db.memory = TotalCost(db.data, Present(db))
      /\ key \in Key /\ call.value \in Value
  BY DEF StoreInv, TypeOK, WellFormed, MemoryExact, Pending
<1>2. c \in Nat /\ c <= MaxMemory BY <1>1, CostNat DEF StoreInv, CallAdmissible
<1>3. Projected(db, key, call.value) = c
  <2>1. CASE key \in Present(db)
    <3>1. Present(db) = {key} BY <2>1
    <3>2. db.data[key] \in Value /\ db.data[key] # None
      BY <1>1, <2>1 DEF Present, KeyspaceType
    <3>3. b \in Nat BY <1>1, <3>2, CostNat
    <3>4. db.memory = b BY <1>1, <3>1, <3>2, TotalCostOne
    <3>5. Projected(db, key, call.value) = db.memory - b + c
      BY <3>2 DEF Projected
    <3> HIDE DEF b, c
    <3> QED BY <1>2, <3>3, <3>4, <3>5
  <2>2. CASE key \notin Present(db)
    <3>1. Present(db) = {} BY <2>2
    <3>2. db.memory = 0 BY <1>1, <3>1, TotalCostEmpty
    <3>3. Projected(db, key, call.value) = db.memory - 0 + c
      BY <1>1, <2>2 DEF Projected, Present
    <3> HIDE DEF c
    <3> QED BY <1>2, <3>2, <3>3
  <2> QED BY <2>1, <2>2
<1> QED BY <1>2, <1>3 DEF Fits

(* The OutOfMemoryError marked unreachable in _admit is unreachable.       *)
THEOREM VictimAlwaysExists == Spec => []VictimExists
BY VictimFromInv, Invariance, PTL

(* No write leaves the keyspace above maxmemory.                           *)
THEOREM LimitHolds == Spec => HardLimit
<1>1. StoreInv /\ [Next]_vars => [LimitKept]_vars BY StoreInvStep
<1>2. Spec => [][LimitKept]_vars BY <1>1, Invariance, PTL DEF Spec
<1> QED BY <1>2 DEF HardLimit, LimitKept

-----------------------------------------------------------------------------
(* The lesser of two numbers, as CHOOSE gives it.                          *)
LEMMA MinOfTwo ==
  ASSUME NEW a \in Int, NEW b \in Int
  PROVE  Min({a, b}) = IF a <= b THEN a ELSE b
<1> DEFINE m == IF a <= b THEN a ELSE b
<1>1. m \in {a, b} /\ \A y \in {a, b} : m <= y
  OBVIOUS
<1>2. \A x \in {a, b} : (\A y \in {a, b} : x <= y) => x = m
  OBVIOUS
<1> HIDE DEF m
<1>3. Min({a, b}) \in {a, b} /\ \A y \in {a, b} : Min({a, b}) <= y
  BY <1>1 DEF Min
<1>4. Min({a, b}) = m BY <1>2, <1>3
<1> QED BY <1>4 DEF m

(* However the cursor stood, a sample holds all the candidates or at least *)
(* half of MAXMEMORY_SAMPLES of them: what was left of the cursor and what *)
(* the refill drew may overlap, but the larger of the two is half.         *)
LEMMA SampleSize ==
  ASSUME StoreInv, NEW exclude, NEW sample \in Samples(exclude)
  PROVE  Cardinality(sample.keys) >=
           Min({Cardinality(Candidates(exclude)), (MAXMEMORY_SAMPLES + 1) \div 2})
<1> DEFINE m     == MAXMEMORY_SAMPLES
           keys  == Candidates(exclude)
           live  == evictCursor \cap keys
           short == m - Cardinality(live)
           half  == (m + 1) \div 2
           bound == Min({Cardinality(keys), half})
<1>1. m \in Nat /\ m >= 1 /\ half \in Nat /\ half <= m /\ 2 * half <= m + 1
  BY StoreAssumption
<1>2. IsFiniteSet(keys) /\ IsFiniteSet(live)
  <2>1. keys \in SUBSET Key /\ live \in SUBSET Key
    BY DEF Candidates, Present
  <2> QED BY <2>1, KeyspaceAssumption, FS_Subset
<1>3. Cardinality(keys) \in Nat /\ Cardinality(live) \in Nat
  BY <1>2, FS_CardinalityType
<1>4. bound =
        IF Cardinality(keys) <= half THEN Cardinality(keys) ELSE half
  BY <1>1, <1>3, MinOfTwo
<1> SUFFICES Cardinality(sample.keys) >= bound
  OBVIOUS
<1>5. CASE short <= 0
  <2>1. sample.keys \in kSubset(m, live) BY <1>5 DEF Samples
  <2>2. Cardinality(sample.keys) = m BY <2>1 DEF kSubset
  <2> HIDE DEF m, keys, half, bound
  <2> QED BY <1>1, <1>3, <1>4, <2>2
<1>6. CASE short > 0
  <2>1. PICK s \in kSubset(Min({short, Cardinality(keys)}), keys) :
          sample.keys = live \cup s
    <3> DEFINE n == Min({short, Cardinality(keys)})
               A == {[keys |-> s, cursor |-> evictCursor \ (s \cup stale)] :
                       s \in kSubset(m, live),
                       stale \in SUBSET (evictCursor \ live)}
               B == {[keys |-> live \cup s, cursor |-> keys \ s] :
                       s \in kSubset(n, keys)}
    <3>1. ~(short <= 0) BY <1>1, <1>3, <1>6
    <3>2. Samples(exclude) = IF short <= 0 THEN A ELSE B BY DEF Samples
    <3>3. sample \in B
      <4> HIDE DEF A, B, short
      <4> QED BY <3>1, <3>2
    <3>4. \E s \in kSubset(n, keys) : sample.keys = live \cup s
      <4> HIDE DEF n, keys, live
      <4> QED BY <3>3
    <3> QED BY <3>4
  <2>2. s \subseteq keys /\ Cardinality(s) = Min({short, Cardinality(keys)})
    BY <2>1 DEF kSubset
  <2>3. Cardinality(s) =
          IF short <= Cardinality(keys) THEN short ELSE Cardinality(keys)
    <3>1. short \in Int BY <1>1, <1>3
    <3> HIDE DEF short, keys
    <3> QED BY <1>3, <2>2, <3>1, MinOfTwo
  <2>4. IsFiniteSet(sample.keys)
    BY <1>2, <2>1, <2>2, FS_Union, FS_Subset
  <2>5. /\ Cardinality(live) <= Cardinality(sample.keys)
        /\ Cardinality(s) <= Cardinality(sample.keys)
        /\ Cardinality(sample.keys) \in Nat
    BY <2>1, <2>4, FS_Subset, FS_CardinalityType
  <2> HIDE DEF m, keys, live, half, bound
  <2> QED BY <1>1, <1>3, <1>4, <2>3, <2>5
<1>7. short \in Int BY <1>1, <1>3
<1> QED BY <1>5, <1>6, <1>7

(* A write is half-way, and victims wait to be recorded, only while        *)
(* clients are served.                                                     *)
LoadingIsQuiet == mode = "loading" => call = None /\ evicted = {}

LEMMA QuietWhileLoading == Spec => []LoadingIsQuiet
<1>1. Init => LoadingIsQuiet BY DEF Init, LoadingIsQuiet
<1>2. LoadingIsQuiet /\ [Next]_vars => LoadingIsQuiet'
  <2> SUFFICES ASSUME LoadingIsQuiet, [Next]_vars, mode' = "loading"
               PROVE  call' = None /\ evicted' = {}
    BY DEF LoadingIsQuiet
  <2>1. CASE Tick BY <2>1 DEF Tick, LoadingIsQuiet
  <2>2. CASE Load
    BY <2>2 DEF Load, Restore, SetDeadline, ClearDeadline, Discard, FinishLoad,
                LoadingIsQuiet
  <2>3. CASE Operation
    <3>1. ASSUME NEW key \in Key, NEW value, NEW ttl, Set(key, value, ttl)
          PROVE  mode' = mode /\ mode = "serving"
      BY <3>1 DEF Set, Admit
    <3>2. ASSUME NEW key \in Key, Incr(key)
          PROVE  mode' = mode /\ mode = "serving"
      BY <3>2 DEF Incr, Admit
    <3>3. ASSUME NEW key \in Key, Get(key) \/ Ttl(key) \/ Persist(key)
                                 \/ \E ttl \in Ttls : Expire(key, ttl)
          PROVE  mode' = mode /\ mode = "serving"
      BY <3>3 DEF Get, Ttl, Persist, Expire
    <3>4. CASE \/ \E ks \in KeyArgs : Delete(ks) \/ Exists(ks)
               \/ Dbsize
               \/ Flushdb
      BY <3>4 DEF Delete, Exists, Dbsize, Flushdb, LoadingIsQuiet
    <3> QED BY <2>3, <3>1, <3>2, <3>3, <3>4 DEF Operation
  <2>4. CASE EvictOne BY <2>4 DEF EvictOne, LoadingIsQuiet
  <2>5. CASE FinishWrite BY <2>5 DEF FinishWrite, LoadingIsQuiet
  <2>6. CASE TakeEvicted BY <2>6 DEF TakeEvicted, LoadingIsQuiet
  <2>7. CASE Sweep BY <2>7 DEF Sweep, LoadingIsQuiet
  <2>8. CASE UNCHANGED vars BY <2>8 DEF vars, LoadingIsQuiet
  <2> QED BY <2>1, <2>2, <2>3, <2>4, <2>5, <2>6, <2>7, <2>8 DEF Next
<1> QED BY <1>1, <1>2, PTL DEF Spec

(* While a write makes room, nothing but its eviction loop takes a step.   *)
LEMMA OnlyTheLoopRuns ==
  ASSUME LoadingIsQuiet, call # None, call' = call, Next
  PROVE  EvictOne
BY DEF LoadingIsQuiet, Next, Tick, Load, Restore, SetDeadline, ClearDeadline,
       Discard, FinishLoad, Operation, Set, Get, Incr, Expire, Ttl, Persist,
       Delete, Exists, Dbsize, Flushdb, FinishWrite, TakeEvicted, Sweep

(* What RecentSurvive asks of one victim.                                  *)
SurvivorsOf(v) ==
  LET others == Present(db) \ {call.key}
      newer  == {k \in others : db.access[k] >= db.access[v]}
  IN  Cardinality(newer) >=
        Min({Cardinality(others), (MAXMEMORY_SAMPLES + 1) \div 2})

(* The victim was the least recent of its sample, so the whole sample was  *)
(* used no earlier than it.                                                *)
LEMMA VictimIsNotRecent ==
  ASSUME StoreInv, EvictOne, NEW v \in Present(db) \ Present(db')
  PROVE  SurvivorsOf(v)
<1> DEFINE others == Present(db) \ {call.key}
           newer  == {k \in others : db.access[k] >= db.access[v]}
           bound  == Min({Cardinality(others), (MAXMEMORY_SAMPLES + 1) \div 2})
<1>1. PICK sample \in Samples(call.key) :
        \E victim \in LeastRecent(sample.keys) : db' = Removed(db, {victim})
  BY DEF EvictOne
<1>2. PICK victim \in LeastRecent(sample.keys) : db' = Removed(db, {victim})
  BY <1>1
<1>3. v = victim BY <1>2 DEF Present, Removed
<1>4. sample.keys \subseteq others BY SamplesType
<1>5. db.access \in [Key -> Nat] /\ others \in SUBSET Key
  BY DEF StoreInv, TypeOK, KeyspaceType, Present
<1>6. sample.keys \subseteq newer
  BY <1>2, <1>3, <1>4, <1>5 DEF LeastRecent
<1>7. IsFiniteSet(newer) BY <1>5, KeyspaceAssumption, FS_Subset
<1>8. Cardinality(sample.keys) <= Cardinality(newer) /\ Cardinality(newer) \in Nat
      /\ Cardinality(sample.keys) \in Nat
  BY <1>6, <1>7, FS_Subset, FS_CardinalityType
<1>9. Cardinality(sample.keys) >= bound BY SampleSize DEF Candidates
<1>10. bound \in Int
  <2>1. Cardinality(others) \in Nat
    BY <1>5, KeyspaceAssumption, FS_Subset, FS_CardinalityType
  <2>2. (MAXMEMORY_SAMPLES + 1) \div 2 \in Int BY StoreAssumption
  <2> HIDE DEF others
  <2>3. bound \in {Cardinality(others), (MAXMEMORY_SAMPLES + 1) \div 2}
    BY <2>1, <2>2, MinOfTwo
  <2> QED BY <2>1, <2>2, <2>3
<1> HIDE DEF bound, newer, others
<1>11. Cardinality(newer) >= bound BY <1>8, <1>9, <1>10
<1> QED BY <1>11 DEF SurvivorsOf, bound, newer, others

RecentKept ==
  \A v \in Present(db) \ Present(db') :
    call # None /\ call' = call => SurvivorsOf(v)

(* At least half a sample of keys, or all there are, was used no earlier   *)
(* than the victim, however the cursor and its refill overlap.             *)
THEOREM RecentKeysSurvive == Spec => RecentSurvive
<1>1. StoreInv /\ LoadingIsQuiet /\ [Next]_vars => [RecentKept]_vars
  BY OnlyTheLoopRuns, VictimIsNotRecent DEF RecentKept
<1>2. Spec => [][RecentKept]_vars
  BY <1>1, Invariance, QuietWhileLoading, PTL DEF Spec
<1> QED BY <1>2, PTL DEF RecentSurvive, RecentKept, SurvivorsOf

-----------------------------------------------------------------------------
(* What the invariant says most often.                                     *)
LEMMA NowIsInt ==
  StoreInv => now \in Int /\ db \in KeyspaceType /\ WellFormed(db)
BY DEF StoreInv, TypeOK

(* What a completed write leaves in the tables.                            *)
LEMMA CommitData ==
  ASSUME NEW d \in KeyspaceType, NEW w \in Pending
  PROVE  /\ Commit(d, w).data = [d.data EXCEPT ![w.key] = w.value]
         /\ Commit(d, w).expires =
              [d.expires EXCEPT ![w.key] = IF w.op = "set" THEN w.deadline
                                           ELSE d.expires[w.key]]
<1> DEFINE e == Written(d, w.key, w.value)
           f == IF w.op = "set" THEN WithDeadline(e, w.key, w.deadline) ELSE e
<1>1. /\ e.data = [d.data EXCEPT ![w.key] = w.value] /\ e.expires = d.expires
      /\ DOMAIN e = {"data", "expires", "access", "tick", "memory"}
  BY DEF Written, KeyspaceType
<1>2. d.expires = [d.expires EXCEPT ![w.key] = d.expires[w.key]]
  BY DEF KeyspaceType
<1>3. Commit(d, w) = Touched(f, w.key) BY DEF Commit
<1> HIDE DEF e
<1>4. f.data = e.data /\ f.expires = [d.expires EXCEPT ![w.key] =
                           IF w.op = "set" THEN w.deadline ELSE d.expires[w.key]]
  BY <1>1, <1>2 DEF WithDeadline
<1>5. Touched(f, w.key).data = f.data /\ Touched(f, w.key).expires = f.expires
  BY DEF Touched
<1> QED BY <1>1, <1>3, <1>4, <1>5

(* The readings of one call go up.                                         *)
LEMMA ReadingsGoUp ==
  ASSUME StoreInv, NEW n \in Nat, NEW ts \in Readings(n), NEW i \in 1 .. n
  PROVE  /\ ts[i] \in Int /\ ts[n] \in Int
         /\ now <= ts[i] /\ ts[i] <= ts[n]
<1>1. \A j \in 1 .. n : ts[j] \in Int /\ now <= ts[j]
  <2>1. now \in Int /\ MaxTime \in Int BY NowIsInt, StoreAssumption
  <2>2. \A j \in 1 .. n : ts[j] \in now .. MaxTime BY DEF Readings
  <2> QED BY <2>1, <2>2
<1> DEFINE S == {j \in 1 .. n : ts[i] <= ts[j]}
<1>2. i \in S BY <1>1
<1>3. ASSUME NEW j \in i .. n, j \in S, j < n PROVE j + 1 \in S
  <2>1. j + 1 \in 2 .. n /\ j \in 1 .. n /\ j + 1 - 1 = j BY <1>3
  <2>2. ts[j] <= ts[j + 1] BY <2>1 DEF Readings
  <2> QED BY <1>1, <1>3, <2>1, <2>2
<1>4. i \in Nat /\ n \in i .. n OBVIOUS
<1> HIDE DEF S
<1>5. i .. n \subseteq S BY <1>2, <1>3, <1>4, InductionFrom
<1>6. n \in S BY <1>4, <1>5
<1> QED BY <1>1, <1>4, <1>6 DEF S

(* Who is alive was alive.                                                 *)
LEMMA AliveBefore ==
  ASSUME NEW d \in KeyspaceType, NEW t \in Int, NEW u \in Int, t <= u,
         NEW k \in Key, AliveAt(d, k, u)
  PROVE  AliveAt(d, k, t)
<1>1. d.expires[k] \in Int \cup {None}
  BY KeyspaceAssumption DEF KeyspaceType, Int64
<1> QED BY <1>1 DEF AliveAt, ExpiredAt
=============================================================================
