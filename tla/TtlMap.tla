------------------------------- MODULE TtlMap -------------------------------
(***************************************************************************)
(* What a KeyValueStore promises its callers: a map in which a key is gone *)
(* the instant its deadline arrives.  No lazy removal, no sweep, no memory *)
(* accounting; under a limit a write may be refused, and then it changes   *)
(* nothing, or other keys may be lost to make room for it.                 *)
(*                                                                         *)
(* A method that looks at the clock more than once takes effect within the *)
(* interval it ran in: an action may end later than it started.            *)
(***************************************************************************)
EXTENDS Integers, FiniteSets, Sequences

CONSTANTS
  Key, Text, None, INT64_MIN, INT64_MAX,
  SetValues, Ttls, KeyArgs,  \* what clients pass
  MayRefuse, MayEvict,       \* there is a limit; its policy is to evict
  NotAnIntegerError, IntegerOverflowError, InvalidExpireError, OutOfMemoryError

VARIABLES
  map,     \* the live entries: a [value, deadline] record or None
  now,
  ready,   \* recovery is over
  result   \* what the last call answered

vars == <<map, now, ready, result>>

Entry == [value : (INT64_MIN .. INT64_MAX) \cup Text,
          deadline : (INT64_MIN .. INT64_MAX) \cup {None}]

Init ==
  /\ map = [k \in Key |-> None]
  /\ now = 0
  /\ ready = FALSE
  /\ result = [op |-> "start", ret |-> None]

Live(m) == {k \in Key : m[k] # None}

(* m as it is left at time t.                                              *)
At(m, t) ==
  [k \in Key |-> IF m[k] = None THEN None
                 ELSE IF m[k].deadline # None /\ m[k].deadline <= t THEN None
                 ELSE m[k]]

With(m, key, value, deadline) ==
  [m EXCEPT ![key] = [value |-> value, deadline |-> deadline]]

Without(m, keys) == [k \in Key |-> IF k \in keys THEN None ELSE m[k]]

(* A call that answers ret, leaving m at whatever time it ends.            *)
Call(op, ret, m) ==
  /\ ready /\ UNCHANGED ready
  /\ result' = [op |-> op, ret |-> ret]
  /\ now' >= now
  /\ map' = At(m, now')

Advance ==
  /\ UNCHANGED <<ready, result>>
  /\ now' >= now
  /\ map' = At(map, now')

(* Whatever a log held.                                                    *)
Load ==
  /\ ~ready /\ ready'
  /\ map' \in [Key -> Entry \cup {None}]
  /\ map' = At(map', now)
  /\ UNCHANGED <<now, result>>

Evict ==
  /\ MayEvict
  /\ \E k \in Live(map) : map' = Without(map, {k})
  /\ UNCHANGED <<now, ready, result>>

Refuse(op) == MayRefuse /\ Call(op, OutOfMemoryError, map)

Set(key, value, ttl) ==
  IF ttl = None
    THEN Call("set", None, With(map, key, value, None))
    ELSE IF ttl > 0 /\ now + ttl <= INT64_MAX
           THEN Call("set", None, With(map, key, value, now + ttl))
           ELSE Call("set", InvalidExpireError, map)

Get(key) ==
  Call("get", IF map[key] = None THEN None ELSE map[key].value, map)

Incr(key) ==
  LET old == IF map[key] = None THEN 0 ELSE map[key].value
  IN  CASE old \in Text -> Call("incr", NotAnIntegerError, map)
        [] old = INT64_MAX -> Call("incr", IntegerOverflowError, map)
        [] OTHER -> Call("incr", old + 1,
                         With(map, key, old + 1,
                              IF map[key] = None THEN None
                                                 ELSE map[key].deadline))

(* The new deadline counts from the end of the call.                       *)
Expire(key, ttl) ==
  IF map[key] = None
    THEN Call("expire", 0, map)
    ELSE IF ttl <= 0
           THEN Call("expire", 1, Without(map, {key}))
           ELSE IF now' + ttl <= INT64_MAX
                  THEN Call("expire", 1,
                            With(map, key, map[key].value, now' + ttl))
                  ELSE Call("expire", InvalidExpireError, map)

Ttl(key) ==
  Call("ttl", IF map[key] = None THEN -2
              ELSE IF map[key].deadline = None THEN -1
              ELSE map[key].deadline - now, map)

Persist(key) ==
  IF map[key] # None /\ map[key].deadline # None
    THEN Call("persist", 1, With(map, key, map[key].value, None))
    ELSE Call("persist", 0, map)

(* A key may reach its deadline between the readings for two arguments:    *)
(* the count is then one that neither instant alone would give.            *)
Delete(ks) ==
  LET named == {ks[i] : i \in DOMAIN ks}
      Count(m) == Cardinality(named \cap Live(m))
  IN  \E n \in Count(At(map, now')) .. Count(map) :
        Call("delete", n, Without(map, named))

Exists(ks) ==
  LET Count(m) == Cardinality({i \in DOMAIN ks : ks[i] \in Live(m)})
  IN  \E n \in Count(At(map, now')) .. Count(map) : Call("exists", n, map)

Dbsize == Call("dbsize", Cardinality(Live(map)), map)

Flushdb == Call("flushdb", None, Without(map, Key))

Next ==
  \/ Advance
  \/ Load
  \/ Evict
  \/ Refuse("set") \/ Refuse("incr")
  \/ \E key \in Key :
       \/ \E value \in SetValues, ttl \in Ttls \cup {None} : Set(key, value, ttl)
       \/ Get(key)
       \/ Incr(key)
       \/ \E ttl \in Ttls : Expire(key, ttl)
       \/ Ttl(key)
       \/ Persist(key)
  \/ \E ks \in KeyArgs : Delete(ks) \/ Exists(ks)
  \/ Dbsize
  \/ Flushdb

Spec == Init /\ [][Next]_vars
=============================================================================
