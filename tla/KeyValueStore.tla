--------------------------- MODULE KeyValueStore ---------------------------
(***************************************************************************)
(* The methods of KeyValueStore (src/pyredis/store.py) as actions.         *)
(*                                                                         *)
(* No method yields, so a call is never interleaved with another one.  But *)
(* the clock does not stop for it: a method that reads the clock twice may *)
(* get two answers, and the later readings below are chosen with           *)
(* \E t \in now .. MaxTime.                                                *)
(*                                                                         *)
(* Every call is one action, except a set or incr that has to evict: the   *)
(* while loop of _admit takes one action per victim, `call` holds the      *)
(* locals of the write meanwhile, and nothing else can run.                *)
(*                                                                         *)
(* A cursor is a list the code only refills from a dictionary and pops;    *)
(* here it is the set of what is left in it, popped in any order.          *)
(***************************************************************************)
EXTENDS Keyspace, FiniteSetsExt, Sequences

CONSTANTS
  MaxMemory,            \* maxmemory; 0 is unlimited
  Policy,               \* "noeviction" or "allkeys-lru"
  MAXMEMORY_SAMPLES,
  SweepLimit,           \* keys a sweep examines
  SetValues, Ttls,      \* what clients pass as value and as ttl_ms
  KeyArgs,              \* argument lists of delete and exists
  RestoreDeadlines,     \* deadlines found in a log
  MaxTime, MaxTick,     \* bounds on the clock and on the access counter
  NotAnIntegerError, IntegerOverflowError, InvalidExpireError, OutOfMemoryError

ASSUME StoreAssumption ==
  /\ MaxMemory \in Nat /\ SweepLimit \in Nat
  /\ Policy \in {"noeviction", "allkeys-lru"}
  /\ MAXMEMORY_SAMPLES \in Nat \ {0}
  /\ SetValues \subseteq Value /\ Ttls \subseteq Int
  /\ KeyArgs \subseteq Seq(Key) \ {<<>>}
  /\ RestoreDeadlines \subseteq Int64
  /\ None \notin [value : Value, deadline : Int64 \cup {None}]
  /\ MaxTime \in Nat /\ MaxTick \in Nat

VARIABLES
  db,           \* _data, _expires, _access, _tick, _memory
  now,          \* what _clock() returns next, if the clock does not move
  sweepCursor,  \* _sweep_cursor
  evictCursor,  \* _evict_cursor
  evicted,      \* _evicted
  mode,         \* "loading" while a log is replayed, then "serving"
  call,         \* the write whose eviction loop is running, or None
  result        \* what the last completed call returned or raised

vars == <<db, now, sweepCursor, evictCursor, evicted, mode, call, result>>

Pending == [op : {"set", "incr"}, key : Key, value : Value,
            deadline : Int64 \cup {None}]

TypeOK ==
  /\ db \in KeyspaceType
  /\ now \in Nat
  /\ sweepCursor \subseteq Key
  /\ evictCursor \subseteq Key
  /\ evicted \subseteq Key
  /\ mode \in {"loading", "serving"}
  /\ call \in Pending \cup {None}

Init ==
  /\ db = EmptyKeyspace
  /\ now = 0
  /\ sweepCursor = {}
  /\ evictCursor = {}
  /\ evicted = {}
  /\ mode = "loading"
  /\ call = None
  /\ result = [op |-> "start", ret |-> None]

(* Clients are served, and no write is half-way: the command layer drains  *)
(* the victims of one write before it does anything else.                  *)
Idle == mode = "serving" /\ call = None /\ evicted = {}

Answer(op, ret) == result' = [op |-> op, ret |-> ret]

cursors == <<sweepCursor, evictCursor>>

(* A write in its eviction loop does not look at the clock until it ends,  *)
(* so time passing during the loop is time passing after it.               *)
Tick ==
  /\ call = None
  /\ now < MaxTime
  /\ now' = now + 1
  /\ UNCHANGED <<db, cursors, evicted, mode, call, result>>

-----------------------------------------------------------------------------
(* Recovery primitives, called by aof.load before clients are served.      *)

LoadStep ==
  /\ mode = "loading"
  /\ UNCHANGED <<now, cursors, evicted, mode, call, result>>

Restore(key, value, deadline) ==
  /\ LoadStep
  /\ db' = Restored(db, key, value, deadline)

SetDeadline(key, deadline) ==
  /\ LoadStep
  /\ key \in Present(db)
  /\ db' = WithDeadline(db, key, deadline)

ClearDeadline(key) ==
  /\ LoadStep
  /\ db' = WithDeadline(db, key, None)

Discard(key) ==
  /\ LoadStep
  /\ key \in Present(db)
  /\ db' = Removed(db, {key})

(* The end of load: drop_expired.                                          *)
FinishLoad ==
  /\ mode = "loading"
  /\ db' = DropExpired(db, now)
  /\ mode' = "serving"
  /\ UNCHANGED <<now, cursors, evicted, call, result>>

-----------------------------------------------------------------------------
(* Admission and eviction.                                                 *)

(* Faulty: the limit is compared with what is stored already.              *)
FitsNow(d, w) == MaxMemory = 0 \/ d.memory <= MaxMemory

Fits(d, w) == MaxMemory = 0 \/ Projected(d, w.key, w.value) <= MaxMemory

(* Faulty: an entry no empty keyspace could hold is not refused outright.  *)
RefusedByPolicy(d, w) ==
  /\ ~Fits(d, w)
  /\ Policy = "noeviction"

(* The two OutOfMemoryErrors raised before anything is removed.            *)
Refused(d, w) ==
  /\ ~Fits(d, w)
  /\ Policy = "noeviction" \/ Cost(w.key, w.value) > MaxMemory

(* What set and incr do once _admit has returned: only set replaces the    *)
(* deadline.  For an incr, w.deadline is the one it found on the key; the  *)
(* code keeps no such local, and only IncrKeepsDeadline reads it.          *)
Commit(d, w) ==
  LET e == Written(d, w.key, w.value)
  IN  Touched(IF w.op = "set" THEN WithDeadline(e, w.key, w.deadline) ELSE e,
              w.key)

Done(w) == Answer(w.op, IF w.op = "incr" THEN w.value ELSE None)

(* _admit and the rest of the write w, on the keyspace d that the method   *)
(* has left so far.  Reclaiming what has expired reads the clock again.    *)
Admit(d, w) ==
  /\ UNCHANGED <<cursors, evicted, mode>>
  /\ \/ /\ Fits(d, w)
        /\ db' = Commit(d, w)
        /\ Done(w)
        /\ UNCHANGED <<now, call>>
     \/ /\ Refused(d, w)
        /\ db' = d
        /\ Answer(w.op, OutOfMemoryError)
        /\ UNCHANGED <<now, call>>
     \/ /\ ~Fits(d, w) /\ ~Refused(d, w)
        /\ \E t \in now .. MaxTime :
             /\ now' = t
             /\ db' = DropExpired(d, t)
        /\ call' = w
        /\ UNCHANGED result

(* Faulty: the key being written may be its own victim.                    *)
AllCandidates(exclude) == Present(db)

Candidates(exclude) == Present(db) \ {exclude}

(* _select_victim: the keys it may sample, with what is then left of the   *)
(* cursor.  Entries that no longer name a candidate are popped along the   *)
(* way; an exhausted cursor is refilled once, and a key drawn before the   *)
(* refill may be drawn again after it.                                     *)
Samples(exclude) ==
  LET keys  == Candidates(exclude)
      live  == evictCursor \cap keys
      short == MAXMEMORY_SAMPLES - Cardinality(live)
  IN  IF short <= 0
        THEN {[keys |-> s, cursor |-> evictCursor \ (s \cup stale)] :
                s \in kSubset(MAXMEMORY_SAMPLES, live),
                stale \in SUBSET (evictCursor \ live)}
        ELSE {[keys |-> live \cup s, cursor |-> keys \ s] :
                s \in kSubset(Min({short, Cardinality(keys)}), keys)}

(* Faulty: max for min.                                                    *)
MostRecent(S) == {k \in S : \A j \in S : db.access[j] <= db.access[k]}

LeastRecent(S) == {k \in S : \A j \in S : db.access[k] <= db.access[j]}

(* One turn of the eviction loop.  The OutOfMemoryError for "no victim" is *)
(* the branch the code marks unreachable: VictimExists says it is.         *)
EvictOne ==
  /\ call # None
  /\ ~Fits(db, call)
  /\ \E sample \in Samples(call.key) :
       \E victim \in LeastRecent(sample.keys) :
         /\ db' = Removed(db, {victim})
         /\ evicted' = evicted \cup {victim}
         /\ evictCursor' = sample.cursor
  /\ UNCHANGED <<now, sweepCursor, mode, call, result>>

FinishWrite ==
  /\ call # None
  /\ Fits(db, call)
  /\ db' = Commit(db, call)
  /\ Done(call)
  /\ call' = None
  /\ UNCHANGED <<now, cursors, evicted, mode>>

TakeEvicted ==
  /\ mode = "serving" /\ call = None
  /\ evicted # {}
  /\ evicted' = {}
  /\ UNCHANGED <<db, now, cursors, mode, call, result>>

-----------------------------------------------------------------------------
(* Client operations.                                                      *)

CanTouch == Idle /\ db.tick < MaxTick

(* A call that returns at once, with no reading of the clock but now.      *)
Returns(op, ret) ==
  /\ Answer(op, ret)
  /\ UNCHANGED <<now, cursors, evicted, mode, call>>

(* Faulty: the deadline may leave the 64-bit range.                        *)
BadTtlSign(ttl, t) == ttl <= 0

BadTtl(ttl, t) == ttl <= 0 \/ t + ttl > INT64_MAX

Set(key, value, ttl) ==
  /\ CanTouch
  /\ IF ttl # None /\ BadTtl(ttl, now)
       THEN Returns("set", InvalidExpireError) /\ UNCHANGED db
       ELSE Admit(db, [op |-> "set", key |-> key, value |-> value,
                       deadline |-> IF ttl = None THEN None ELSE now + ttl])

Get(key) ==
  LET d == DropIfExpired(db, key, now)
  IN  /\ CanTouch
      /\ db' = IF key \in Present(d) THEN Touched(d, key) ELSE d
      /\ Returns("get", d.data[key])

Incr(key) ==
  LET d   == DropIfExpired(db, key, now)
      raw == d.data[key]
      old == IF raw = None THEN 0 ELSE raw
  IN  /\ CanTouch
      /\ CASE raw \in Text ->
                db' = d /\ Returns("incr", NotAnIntegerError)
           [] raw = INT64_MAX ->
                db' = d /\ Returns("incr", IntegerOverflowError)
           [] OTHER ->
                Admit(d, [op |-> "incr", key |-> key, value |-> old + 1,
                          deadline |-> d.expires[key]])

(* Successive readings of the clock, one per argument.                     *)
Readings(n) ==
  {ts \in [1 .. n -> now .. MaxTime] : \A i \in 2 .. n : ts[i - 1] <= ts[i]}

(* A key named twice is counted at its first mention only.                 *)
Delete(ks) ==
  \E ts \in Readings(Len(ks)) :
    LET named == {ks[i] : i \in DOMAIN ks} \cap Present(db)
        hits  == {i \in DOMAIN ks : /\ AliveAt(db, ks[i], ts[i])
                                    /\ \A j \in 1 .. i - 1 : ks[j] # ks[i]}
    IN  /\ Idle
        /\ now' = ts[Len(ks)]
        /\ db' = Removed(db, named)
        /\ Answer("delete", Cardinality(hits))
        /\ UNCHANGED <<cursors, evicted, mode, call>>

(* Every mention counts; a key found expired is dropped there and then.    *)
Exists(ks) ==
  \E ts \in Readings(Len(ks)) :
    LET gone == {ks[i] : i \in {j \in DOMAIN ks : ks[j] \in ExpiredAt(db, ts[j])}}
        hits == {i \in DOMAIN ks : AliveAt(db, ks[i], ts[i])}
    IN  /\ Idle
        /\ now' = ts[Len(ks)]
        /\ db' = Removed(db, gone)
        /\ Answer("exists", Cardinality(hits))
        /\ UNCHANGED <<cursors, evicted, mode, call>>

(* One reading decides whether the key is there, a second one dates the    *)
(* new deadline.                                                           *)
Expire(key, ttl) ==
  LET d == DropIfExpired(db, key, now)
  IN  /\ Idle
      /\ UNCHANGED <<cursors, evicted, mode, call>>
      /\ \/ /\ key \notin Present(d)
            /\ db' = d
            /\ Answer("expire", 0)
            /\ UNCHANGED now
         \/ /\ key \in Present(d) /\ ttl <= 0
            /\ db' = Removed(d, {key})
            /\ Answer("expire", 1)
            /\ UNCHANGED now
         \/ /\ key \in Present(d) /\ ttl > 0
            /\ \E t \in now .. MaxTime :
                 /\ now' = t
                 /\ IF BadTtl(ttl, t)
                      THEN db' = d /\ Answer("expire", InvalidExpireError)
                      ELSE /\ db' = WithDeadline(d, key, t + ttl)
                           /\ Answer("expire", 1)

(* -2 and -1 stand for TtlResult(False, None) and TtlResult(True, None).   *)
Ttl(key) ==
  LET d == DropIfExpired(db, key, now)
  IN  /\ Idle
      /\ db' = d
      /\ Returns("ttl", IF key \notin Present(d) THEN -2
                        ELSE IF d.expires[key] = None THEN -1
                        ELSE d.expires[key] - now)

Persist(key) ==
  LET d == DropIfExpired(db, key, now)
      has == key \in Present(d) /\ d.expires[key] # None
  IN  /\ Idle
      /\ db' = IF has THEN WithDeadline(d, key, None) ELSE d
      /\ Returns("persist", IF has THEN 1 ELSE 0)

Dbsize ==
  LET d == DropExpired(db, now)
  IN  /\ Idle
      /\ db' = d
      /\ Returns("dbsize", Cardinality(Present(d)))

(* Also a record of a log, so it runs while loading too.                   *)
Flushdb ==
  /\ mode = "loading" \/ Idle
  /\ db' = Flushed(db)
  /\ sweepCursor' = {}
  /\ evictCursor' = {}
  /\ IF mode = "serving" THEN Answer("flushdb", None) ELSE UNCHANGED result
  /\ UNCHANGED <<now, evicted, mode, call>>

(* Faulty: every sweep starts over, with the keys the last one began with. *)
SweepFromStart ==
  LET due   == ExpiredAt(db, now)
      timed == {k \in Key : db.expires[k] # None}
      seen  == CHOOSE s \in kSubset(Min({SweepLimit, Cardinality(timed)}), timed) :
                 TRUE
  IN  /\ Idle
      /\ db' = Removed(db, seen \cap due)
      /\ sweepCursor' = timed \ seen
      /\ UNCHANGED <<now, evictCursor, evicted, mode, call, result>>

(* sweep_expired: pop up to SweepLimit keys, refilling the cursor at most  *)
(* once, from whatever still has a deadline.                               *)
Sweep ==
  LET due   == ExpiredAt(db, now)
      quota == SweepLimit - Cardinality(sweepCursor)
      first == Removed(db, sweepCursor \cap due)
      timed == {k \in Key : first.expires[k] # None}
  IN  /\ Idle
      /\ \/ /\ quota <= 0
            /\ \E seen \in kSubset(SweepLimit, sweepCursor) :
                 /\ db' = Removed(db, seen \cap due)
                 /\ sweepCursor' = sweepCursor \ seen
         \/ /\ quota > 0
            /\ \E seen \in kSubset(Min({quota, Cardinality(timed)}), timed) :
                 /\ db' = Removed(first, seen \cap due)
                 /\ sweepCursor' = timed \ seen
      /\ UNCHANGED <<now, evictCursor, evicted, mode, call, result>>

-----------------------------------------------------------------------------
Load ==
  \/ \E key \in Key :
       \/ \E value \in SetValues, deadline \in RestoreDeadlines \cup {None} :
            Restore(key, value, deadline)
       \/ \E deadline \in RestoreDeadlines : SetDeadline(key, deadline)
       \/ ClearDeadline(key)
       \/ Discard(key)
  \/ FinishLoad

Operation ==
  \/ \E key \in Key :
       \/ \E value \in SetValues, ttl \in Ttls \cup {None} : Set(key, value, ttl)
       \/ Get(key)
       \/ Incr(key)
       \/ \E ttl \in Ttls : Expire(key, ttl)
       \/ Ttl(key)
       \/ Persist(key)
  \/ \E ks \in KeyArgs : Delete(ks) \/ Exists(ks)
  \/ Dbsize
  \/ Flushdb

Next ==
  \/ Tick
  \/ Load
  \/ Operation
  \/ EvictOne
  \/ FinishWrite
  \/ TakeEvicted
  \/ Sweep

(* A command that has started runs to its end; recovery ends; and the      *)
(* event loop, which serves its ready tasks in turn, keeps running the     *)
(* sweeper between commands however many of them there are.                *)
Fairness ==
  /\ WF_vars(FinishLoad)
  /\ WF_vars(EvictOne \/ FinishWrite \/ TakeEvicted)
  /\ SF_vars(Sweep)

Spec == Init /\ [][Next]_vars

FairSpec == Spec /\ Fairness

-----------------------------------------------------------------------------
(* Properties.                                                             *)

(* _expires and _access never name a key _data does not hold (the comment  *)
(* on _expires, store.py:145): _remove would raise KeyError in the sweep.  *)
MetadataHasKeys == MetadataHasKey(db)

(* The access counter orders the keys without ties (store.py:158-160).     *)
RecencyIsExact == RecencyExact(db)

(* memory_used, maintained by increments, is what a scan would add up.     *)
MemoryIsExact == MemoryExact(db)

(* The branch of _admit marked unreachable (store.py:490) is: whenever the *)
(* loop goes round again there is another key left to evict.               *)
VictimExists ==
  call # None /\ ~Fits(db, call) => Present(db) \ {call.key} # {}

(* No method may leave a new or changed value behind above maxmemory, even *)
(* when a log recovered under a larger limit left the keyspace above it.   *)
HardLimit ==
  [][ /\ mode = "serving" /\ MaxMemory # 0
      /\ \E k \in Key : db'.data[k] \notin {None, db.data[k]}
      => db'.memory <= MaxMemory ]_vars

(* How far from the true least recently used key sampling may be: leftover *)
(* and refilled cursor overlap at worst half of a sample, so at least half *)
(* a sample of keys was used no earlier than the victim -- the newest key  *)
(* is never the victim while there is a choice.                            *)
RecentSurvive ==
  [][ \A v \in Present(db) \ Present(db') :
        call # None /\ call' = call =>
          LET others == Present(db) \ {call.key}
              newer  == {k \in others : db.access[k] >= db.access[v]}
          IN  Cardinality(newer) >=
                Min({Cardinality(others), (MAXMEMORY_SAMPLES + 1) \div 2}) ]_vars

(* "An existing deadline is preserved" (store.py:238), over the whole of   *)
(* an incr that had to make room.                                          *)
IncrKeepsDeadline ==
  [][ call # None /\ call' = None
      => (call.op = "incr" => db'.expires[call.key] = call.deadline) ]_vars

(* "any overwrite that shrinks a value" is "always admitted"               *)
(* (README.md:269-270).                                                    *)
ShrinkAlwaysAdmitted ==
  Idle =>
    \A k \in Present(db), v \in SetValues :
      ValueLen[v] < ValueLen[db.data[k]]
      => ~Refused(db, [op |-> "set", key |-> k, value |-> v, deadline |-> None])

(* Active expiration: a key nobody reads again does not stay in memory     *)
(* past its deadline.                                                      *)
SweepReclaims ==
  \A k \in Key : k \in ExpiredAt(db, now) ~> k \notin ExpiredAt(db, now)

(* What clients are promised: a map of live entries.                       *)
LiveEntries ==
  [k \in Key |-> IF mode = "serving" /\ AliveAt(db, k, now)
                   THEN [value |-> db.data[k], deadline |-> db.expires[k]]
                   ELSE None]

Map == INSTANCE TtlMap WITH
         map <- LiveEntries, ready <- mode = "serving",
         MayRefuse <- MaxMemory # 0, MayEvict <- Policy = "allkeys-lru"

(* Lazy expiry, the sweep, the cursors and the reclaim before an eviction  *)
(* cannot be seen from outside: whatever a client is answered, a map that  *)
(* forgets each key at its deadline would have answered too.               *)
ImplementsMap == Map!Spec
=============================================================================
