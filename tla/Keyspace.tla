------------------------------ MODULE Keyspace ------------------------------
(***************************************************************************)
(* The data of one KeyValueStore (src/pyredis/store.py) as a value, and    *)
(* the private helpers every public method is built from: _remove, _write, *)
(* _touch, _projected, _cost, and the recovery primitives.                 *)
(*                                                                         *)
(* A keyspace d is a record.  The Python dictionaries _data, _expires and  *)
(* _access become total functions on Key: d.data[k] = None is "k not in    *)
(* _data", d.expires[k] = None is "k not in _expires", and d.access[k] = 0 *)
(* is "k not in _access" (the code reads it with .get(k, 0) and never      *)
(* stores 0).  Dictionary order is left out.                               *)
(***************************************************************************)
EXTENDS Integers, FiniteSets

CONSTANTS
  Key,                    \* byte-string keys
  Text,                   \* values that parse_int refuses
  None,                   \* Python's None
  INT64_MIN, INT64_MAX,   \* the range of integer values and of deadlines
  ENTRY_OVERHEAD_BYTES,
  KeyLen, ValueLen        \* len() of a key and of a value

Int64 == INT64_MIN .. INT64_MAX

(* A value is what the store tells apart: a canonical decimal integer in   *)
(* range, or anything else.                                                *)
Value == Int64 \cup Text

ASSUME KeyspaceAssumption ==
  /\ IsFiniteSet(Key)
  /\ INT64_MIN \in Int /\ INT64_MAX \in Int
  /\ INT64_MIN <= 0 /\ 1 <= INT64_MAX
  /\ \A x \in Text : x \notin Int
  /\ None \notin Int /\ None \notin Text
  /\ ENTRY_OVERHEAD_BYTES \in Nat
  /\ KeyLen \in [Key -> Nat] /\ ValueLen \in [Value -> Nat]

KeyspaceType ==
  [data    : [Key -> Value \cup {None}],
   expires : [Key -> Int64 \cup {None}],
   access  : [Key -> Nat],
   tick    : Nat,
   memory  : Int]

EmptyKeyspace ==
  [data |-> [k \in Key |-> None], expires |-> [k \in Key |-> None],
   access |-> [k \in Key |-> 0], tick |-> 0, memory |-> 0]

Present(d) == {k \in Key : d.data[k] # None}

(* Faulty: a key outlives its deadline by one instant.                     *)
ExpiredAfter(d, t) == {k \in Key : d.expires[k] # None /\ d.expires[k] < t}

(* now >= deadline means gone.                                             *)
ExpiredAt(d, t) == {k \in Key : d.expires[k] # None /\ d.expires[k] <= t}

AliveAt(d, k, t) == k \in Present(d) /\ k \notin ExpiredAt(d, t)

-----------------------------------------------------------------------------
(* Memory accounting.                                                      *)

Cost(key, value) == KeyLen[key] + ValueLen[value] + ENTRY_OVERHEAD_BYTES

(* The bytes the model charges to the keys of S, one element per byte, so  *)
(* that their sum is a cardinality.                                        *)
EntryBytes(data, S) == UNION {{k} \X (1 .. Cost(k, data[k])) : k \in S}

TotalCost(data, S) == Cardinality(EntryBytes(data, S))

(* What d.memory would become if key came to hold value.                   *)
Projected(d, key, value) ==
  d.memory - (IF d.data[key] = None THEN 0 ELSE Cost(key, d.data[key]))
           + Cost(key, value)

-----------------------------------------------------------------------------
(* Updates.                                                                *)

(* Faulty: the deadline stays behind.                                      *)
RemovedButTimed(d, S) ==
  [data    |-> [k \in Key |-> IF k \in S THEN None ELSE d.data[k]],
   expires |-> d.expires,
   access  |-> [k \in Key |-> IF k \in S THEN 0 ELSE d.access[k]],
   tick    |-> d.tick,
   memory  |-> d.memory - TotalCost(d.data, S)]

(* _remove of every key of S, a set of present keys.                       *)
Removed(d, S) ==
  [data    |-> [k \in Key |-> IF k \in S THEN None ELSE d.data[k]],
   expires |-> [k \in Key |-> IF k \in S THEN None ELSE d.expires[k]],
   access  |-> [k \in Key |-> IF k \in S THEN 0 ELSE d.access[k]],
   tick    |-> d.tick,
   memory  |-> d.memory - TotalCost(d.data, S)]

(* _drop_if_expired with the clock at t.                                   *)
DropIfExpired(d, key, t) ==
  IF key \in ExpiredAt(d, t) THEN Removed(d, {key}) ELSE d

(* drop_expired with the clock at t.                                       *)
DropExpired(d, t) == Removed(d, ExpiredAt(d, t))

(* Faulty: an overwrite is charged as if it were a new entry.              *)
WrittenTwiceCharged(d, key, value) ==
  [d EXCEPT !.data = [@ EXCEPT ![key] = value],
            !.memory = @ + Cost(key, value)]

(* _write: the value and the running total; deadline and recency stay.     *)
Written(d, key, value) ==
  [d EXCEPT !.data = [@ EXCEPT ![key] = value],
            !.memory = IF d.data[key] = None
                         THEN @ + Cost(key, value)
                         ELSE @ + ValueLen[value] - ValueLen[d.data[key]]]

(* self._expires[key] = deadline, or .pop(key, None) when there is none.   *)
WithDeadline(d, key, deadline) ==
  [d EXCEPT !.expires = [@ EXCEPT ![key] = deadline]]

(* Faulty: the counter stands still.                                       *)
TouchedStanding(d, key) ==
  [d EXCEPT !.access = [@ EXCEPT ![key] = d.tick + 1]]

(* _touch                                                                  *)
Touched(d, key) ==
  [d EXCEPT !.tick = @ + 1, !.access = [@ EXCEPT ![key] = d.tick + 1]]

(* flushdb: everything but the access counter starts over.                 *)
Flushed(d) == [EmptyKeyspace EXCEPT !.tick = d.tick]

(* restore: recovery neither consults the limit nor counts as use.         *)
Restored(d, key, value, deadline) ==
  WithDeadline(Written(d, key, value), key, deadline)

-----------------------------------------------------------------------------
(* The parts of a well-formed keyspace.                                    *)

(* A deadline or an access mark never outlives its key: _remove would      *)
(* raise KeyError on the sweep, and a victim would be chosen by a stale    *)
(* recency.                                                                *)
MetadataHasKey(d) ==
  \A k \in Key : d.data[k] = None => d.expires[k] = None /\ d.access[k] = 0

(* Recency is exact: no two keys share a mark, and none is in the future.  *)
RecencyExact(d) ==
  /\ \A k \in Key : d.access[k] <= d.tick
  /\ \A j, k \in Key : d.access[j] = d.access[k] /\ d.access[j] # 0 => j = k

(* memory_used is the sum over the stored keys, however it was reached.    *)
MemoryExact(d) == d.memory = TotalCost(d.data, Present(d))

WellFormed(d) ==
  /\ d \in KeyspaceType
  /\ MetadataHasKey(d)
  /\ RecencyExact(d)
  /\ MemoryExact(d)
=============================================================================
