---------------------------- MODULE TtlMap_proofs ----------------------------
(***************************************************************************)
(* KeyValueStore implements TtlMap: seen through LiveEntries, every step   *)
(* of the store is a step of the map or changes nothing.                   *)
(***************************************************************************)
EXTENDS KeyValueStore_proofs

USE DEF Idle, LoadStep, CanTouch, Returns, Answer, cursors

(* The map counts as the store does: the instance has its own copy of the  *)
(* operator.                                                               *)
LEMMA SameCardinality ==
  ASSUME NEW S
  PROVE  Map!Cardinality(S) = Cardinality(S)
BY DEF Map!Cardinality, Cardinality

(* What clients see of a keyspace at time t.                               *)
View(d, t) ==
  [k \in Key |-> IF AliveAt(d, k, t)
                   THEN [value |-> d.data[k], deadline |-> d.expires[k]]
                   ELSE None]

LEMMA LiveEntriesServing ==
  mode = "serving" => LiveEntries = View(db, now)
BY DEF LiveEntries, View

LEMMA LiveEntriesServingNext ==
  mode' = "serving" => LiveEntries' = View(db', now')
BY DEF LiveEntries, View, AliveAt, Present, ExpiredAt

(* An entry is told from no entry, whatever Python's None is.              *)
LEMMA ViewEntry ==
  ASSUME NEW d \in KeyspaceType, NEW t, NEW k \in Key
  PROVE  /\ View(d, t)[k] = None <=> ~AliveAt(d, k, t)
         /\ AliveAt(d, k, t) =>
              /\ View(d, t)[k] \in Map!Entry
              /\ View(d, t)[k].value = d.data[k]
              /\ View(d, t)[k].deadline = d.expires[k]
<1>1. CASE AliveAt(d, k, t)
  <2>1. d.data[k] \in Value /\ d.expires[k] \in Int64 \cup {None}
    BY <1>1 DEF AliveAt, Present, KeyspaceType
  <2>2. View(d, t)[k] = [value |-> d.data[k], deadline |-> d.expires[k]]
    BY <1>1 DEF View
  <2>3. View(d, t)[k] \in [value : Value, deadline : Int64 \cup {None}]
    BY <2>1, <2>2
  <2> QED BY <1>1, <2>2, <2>3, StoreAssumption DEF Map!Entry, Value, Int64
<1>2. CASE ~AliveAt(d, k, t) BY <1>2 DEF View
<1> QED BY <1>1, <1>2

(* Only values and deadlines are seen.                                     *)
LEMMA ViewSame ==
  ASSUME NEW d, NEW e, e.data = d.data, e.expires = d.expires, NEW t
  PROVE  View(e, t) = View(d, t)
BY DEF View, AliveAt, Present, ExpiredAt

(* Time passing takes away the entries whose deadline it reaches.          *)
LEMMA ViewLater ==
  ASSUME NEW d \in KeyspaceType, NEW t \in Int, NEW u \in Int, t <= u
  PROVE  Map!At(View(d, t), u) = View(d, u)
<1> SUFFICES ASSUME NEW k \in Key
             PROVE  Map!At(View(d, t), u)[k] = View(d, u)[k]
  BY DEF Map!At, View
<1>1. d.expires[k] \in Int \cup {None}
  BY KeyspaceAssumption DEF KeyspaceType, Int64
<1>2. CASE AliveAt(d, k, t)
  <2>1. Map!At(View(d, t), u)[k] =
          IF d.expires[k] # None /\ d.expires[k] <= u THEN None ELSE View(d, t)[k]
    BY <1>2, ViewEntry DEF Map!At
  <2>2. AliveAt(d, k, u) <=> ~(d.expires[k] # None /\ d.expires[k] <= u)
    BY <1>2 DEF AliveAt, ExpiredAt
  <2> QED BY <1>2, <2>1, <2>2 DEF View
<1>3. CASE ~AliveAt(d, k, t)
  <2>1. ~AliveAt(d, k, u) BY <1>1, <1>3 DEF AliveAt, ExpiredAt
  <2> QED BY <1>3, <2>1, ViewEntry DEF Map!At
<1> QED BY <1>2, <1>3

(* Removing what has expired cannot be seen.                               *)
LEMMA ViewReclaimed ==
  ASSUME NEW d, NEW t, NEW S \in SUBSET ExpiredAt(d, t)
  PROVE  View(Removed(d, S), t) = View(d, t)
<1>1. \A k \in Key : AliveAt(Removed(d, S), k, t) <=> AliveAt(d, k, t)
  BY DEF Removed, AliveAt, Present, ExpiredAt
<1>2. \A k \in Key : AliveAt(d, k, t) => k \notin S
  BY DEF AliveAt
<1> QED BY <1>1, <1>2 DEF View, Removed

(* A removal as of t is seen at u as one, and as what time has taken.      *)
LEMMA ViewRemoved ==
  ASSUME NEW d \in KeyspaceType, NEW t \in Int, NEW u \in Int, t <= u,
         NEW S \in SUBSET Key
  PROVE  View(Removed(d, S), u) = Map!At(Map!Without(View(d, t), S), u)
<1> SUFFICES ASSUME NEW k \in Key
             PROVE  View(Removed(d, S), u)[k] =
                      Map!At(Map!Without(View(d, t), S), u)[k]
  BY DEF View, Map!At
<1>1. CASE k \in S
  <2>1. ~AliveAt(Removed(d, S), k, u) BY <1>1 DEF AliveAt, Present, Removed
  <2> QED BY <1>1, <2>1 DEF View, Map!At, Map!Without
<1>2. CASE k \notin S
  <2>1. View(Removed(d, S), u)[k] = View(d, u)[k]
    BY <1>2 DEF View, AliveAt, Present, ExpiredAt, Removed
  <2>2. Map!At(Map!Without(View(d, t), S), u)[k] = Map!At(View(d, t), u)[k]
    BY <1>2 DEF Map!At, Map!Without
  <2> QED BY <2>1, <2>2, ViewLater
<1> QED BY <1>1, <1>2

(* One entry replaced is seen as one entry replaced.                       *)
LEMMA ViewUpdated ==
  ASSUME NEW d \in KeyspaceType, NEW e \in KeyspaceType,
         NEW key \in Key, NEW value \in Value, NEW deadline \in Int64 \cup {None},
         e.data = [d.data EXCEPT ![key] = value],
         e.expires = [d.expires EXCEPT ![key] = deadline],
         NEW t \in Int, NEW u \in Int, t <= u
  PROVE  View(e, u) = Map!At(Map!With(View(d, t), key, value, deadline), u)
<1> DEFINE m == Map!With(View(d, t), key, value, deadline)
<1> SUFFICES ASSUME NEW k \in Key PROVE View(e, u)[k] = Map!At(m, u)[k]
  BY DEF View, Map!At
<1>0. /\ d.data \in [Key -> Value \cup {None}]
      /\ d.expires \in [Key -> Int64 \cup {None}]
  BY DEF KeyspaceType
<1>1. CASE k = key
  <2>1. m[k] = [value |-> value, deadline |-> deadline]
    BY <1>1 DEF Map!With, View
  <2>2. m[k] # None
    <3>1. m[k] \in [value : Value, deadline : Int64 \cup {None}] BY <2>1
    <3> QED BY <3>1, StoreAssumption
  <2>3. value # None BY KeyspaceAssumption DEF Value, Int64
  <2>4. e.data[k] = value /\ e.expires[k] = deadline BY <1>0, <1>1
  <2>5. AliveAt(e, k, u) <=> ~(deadline # None /\ deadline <= u)
    BY <2>3, <2>4 DEF AliveAt, Present, ExpiredAt
  <2> QED BY <2>1, <2>2, <2>4, <2>5 DEF View, Map!At
<1>2. CASE k # key
  <2>1. m[k] = View(d, t)[k] BY <1>2 DEF Map!With, View
  <2>2. Map!At(m, u)[k] = Map!At(View(d, t), u)[k] BY <2>1 DEF Map!At
  <2>3. e.data[k] = d.data[k] /\ e.expires[k] = d.expires[k] BY <1>0, <1>2
  <2>4. View(e, u)[k] = View(d, u)[k]
    BY <2>3 DEF View, AliveAt, Present, ExpiredAt
  <2> QED BY <2>2, <2>4, ViewLater
<1> QED BY <1>1, <1>2

(* What a method finds under key once _drop_if_expired has run.            *)
LEMMA ViewDropped ==
  ASSUME NEW d, WellFormed(d), NEW t, NEW key \in Key
  PROVE  LET e == DropIfExpired(d, key, t)
         IN  /\ e \in KeyspaceType
             /\ View(e, t) = View(d, t)
             /\ key \in Present(e) <=> AliveAt(d, key, t)
             /\ AliveAt(d, key, t) =>
                  e.data[key] = d.data[key] /\ e.expires[key] = d.expires[key]
             /\ ~AliveAt(d, key, t) =>
                  e.data[key] = None /\ e.expires[key] = None
<1> DEFINE e == DropIfExpired(d, key, t)
<1>1. e \in KeyspaceType BY DropIfExpiredWellFormed DEF WellFormed
<1>2. CASE key \in ExpiredAt(d, t)
  <2>1. e = Removed(d, {key}) BY <1>2 DEF DropIfExpired
  <2>2. View(e, t) = View(d, t) BY <1>2, <2>1, ViewReclaimed
  <2>3. e.data[key] = None /\ e.expires[key] = None BY <2>1 DEF Removed
  <2> QED BY <1>1, <1>2, <2>2, <2>3 DEF AliveAt, Present
<1>3. CASE key \notin ExpiredAt(d, t)
  <2>1. e = d BY <1>3 DEF DropIfExpired
  <2>2. AliveAt(d, key, t) <=> key \in Present(d) BY <1>3 DEF AliveAt
  <2>3. key \notin Present(d) => d.data[key] = None /\ d.expires[key] = None
    BY DEF WellFormed, MetadataHasKey, Present
  <2> QED BY <1>1, <2>1, <2>2, <2>3
<1> QED BY <1>2, <1>3

(* The same in terms of what the client sees.                              *)
LEMMA SeenUnder ==
  ASSUME StoreInv, NEW key \in Key
  PROVE  LET d == DropIfExpired(db, key, now)
             m == View(db, now)
         IN  /\ m[key] = None => /\ key \notin Present(d)
                                 /\ d.data[key] = None /\ d.expires[key] = None
             /\ m[key] # None => /\ key \in Present(d)
                                 /\ d.data[key] = m[key].value
                                 /\ d.expires[key] = m[key].deadline
BY ViewDropped, ViewEntry DEF StoreInv, TypeOK

(* A completed call is one of the map when what clients see afterwards is  *)
(* the map m the abstract call leaves, at the time the call ends.          *)
LEMMA CallStep ==
  ASSUME StoreInv, mode = "serving", mode' = "serving", NEW m, NEW op, NEW ret,
         result' = [op |-> op, ret |-> ret], now' >= now,
         View(db', now') = Map!At(m, now')
  PROVE  Map!Call(op, ret, m)
BY LiveEntriesServingNext DEF Map!Call

(* A call that changes nothing clients see.                                *)
LEMMA QuietCallStep ==
  ASSUME StoreInv, mode = "serving", mode' = mode, NEW op, NEW ret,
         result' = [op |-> op, ret |-> ret], now' \in Int, now' >= now,
         View(db', now') = View(db, now')
  PROVE  Map!Call(op, ret, LiveEntries)
<1>1. View(db', now') = Map!At(View(db, now), now') BY NowIsInt, ViewLater
<1> QED BY <1>1, CallStep, LiveEntriesServing

(* A call that leaves one entry replaced.                                  *)
LEMMA UpdateCallStep ==
  ASSUME StoreInv, mode = "serving", mode' = mode,
         NEW d \in KeyspaceType, View(d, now) = View(db, now),
         NEW key \in Key, NEW value \in Value, NEW deadline \in Int64 \cup {None},
         db' \in KeyspaceType,
         db'.data = [d.data EXCEPT ![key] = value],
         db'.expires = [d.expires EXCEPT ![key] = deadline],
         NEW op, NEW ret, result' = [op |-> op, ret |-> ret],
         now' \in Int, now' >= now
  PROVE  Map!Call(op, ret, Map!With(LiveEntries, key, value, deadline))
<1>1. ASSUME NEW e \in KeyspaceType, e = db', NEW u \in Int, u = now'
      PROVE  View(e, u) = Map!At(Map!With(View(d, now), key, value, deadline), u)
  <2>1. now \in Int /\ now <= u BY <1>1, NowIsInt
  <2>2. /\ e.data = [d.data EXCEPT ![key] = value]
        /\ e.expires = [d.expires EXCEPT ![key] = deadline]
    BY <1>1
  <2> QED BY <2>1, <2>2, ViewUpdated
<1>2. View(db', now') = Map!At(Map!With(LiveEntries, key, value, deadline), now')
  BY <1>1, LiveEntriesServing
<1> QED BY <1>2, CallStep

LEMMA GetStep ==
  ASSUME StoreInv, NEW key \in Key, Get(key)
  PROVE  Map!Get(key)
<1> DEFINE d == DropIfExpired(db, key, now)
<1>0. now \in Int /\ WellFormed(db) BY NowIsInt
<1>1. /\ mode = "serving" /\ mode' = mode /\ now' = now
      /\ result' = [op |-> "get", ret |-> d.data[key]]
      /\ db' = d \/ db' = Touched(d, key)
  BY DEF Get
<1>2. d \in KeyspaceType /\ View(d, now) = View(db, now)
  BY <1>0, ViewDropped
<1>3. db'.data = d.data /\ db'.expires = d.expires
  <2> HIDE DEF d
  <2> QED BY <1>1, <1>2 DEF Touched, KeyspaceType
<1>4. View(db', now') = View(db, now')
  <2> HIDE DEF d
  <2> QED BY <1>1, <1>2, <1>3, ViewSame
<1>5. Map!Call("get", d.data[key], LiveEntries)
  BY <1>0, <1>1, <1>4, QuietCallStep
<1>6. d.data[key] =
        IF LiveEntries[key] = None THEN None ELSE LiveEntries[key].value
  BY <1>1, SeenUnder, LiveEntriesServing
<1> QED BY <1>5, <1>6 DEF Map!Get

LEMMA TtlStep ==
  ASSUME StoreInv, NEW key \in Key, Ttl(key)
  PROVE  Map!Ttl(key)
<1> DEFINE d == DropIfExpired(db, key, now)
           ret == IF key \notin Present(d) THEN -2
                  ELSE IF d.expires[key] = None THEN -1
                  ELSE d.expires[key] - now
<1>0. now \in Int /\ WellFormed(db) BY NowIsInt
<1>1. /\ mode = "serving" /\ mode' = mode /\ now' = now /\ db' = d
      /\ result' = [op |-> "ttl", ret |-> ret]
  BY DEF Ttl
<1>2. View(d, now) = View(db, now) BY <1>0, ViewDropped
<1>3. ret = IF LiveEntries[key] = None THEN -2
            ELSE IF LiveEntries[key].deadline = None THEN -1
            ELSE LiveEntries[key].deadline - now
  <2>1. key \in Present(d) => d.expires[key] = LiveEntries[key].deadline
    BY <1>1, SeenUnder, LiveEntriesServing
  <2>2. key \in Present(d) <=> LiveEntries[key] # None
    BY <1>1, SeenUnder, LiveEntriesServing
  <2> HIDE DEF d
  <2> QED BY <2>1, <2>2
<1> HIDE DEF ret
<1>4. Map!Call("ttl", ret, LiveEntries)
  BY <1>0, <1>1, <1>2, QuietCallStep
<1> QED BY <1>3, <1>4 DEF Map!Ttl

LEMMA PersistStep ==
  ASSUME StoreInv, NEW key \in Key, Persist(key)
  PROVE  Map!Persist(key)
<1> DEFINE d == DropIfExpired(db, key, now)
           has == key \in Present(d) /\ d.expires[key] # None
           m == LiveEntries
<1>0. now \in Int /\ WellFormed(db) BY NowIsInt
<1>1. /\ mode = "serving" /\ mode' = mode /\ now' = now
      /\ db' = IF has THEN WithDeadline(d, key, None) ELSE d
      /\ result' = [op |-> "persist", ret |-> IF has THEN 1 ELSE 0]
  BY DEF Persist
<1>2. View(d, now) = View(db, now) /\ d \in KeyspaceType
  BY <1>0, ViewDropped
<1>3. m = View(db, now) BY <1>1, LiveEntriesServing
<1>4. has <=> m[key] # None /\ m[key].deadline # None
  BY <1>3, SeenUnder
<1>5. CASE ~has
  <2>1. Map!Call("persist", 0, m)
    BY <1>0, <1>1, <1>2, <1>5, QuietCallStep
  <2> HIDE DEF m, has
  <2> QED BY <1>4, <1>5, <2>1 DEF Map!Persist, m
<1>6. CASE has
  <2>1. d.data[key] \in Value /\ d.data[key] = m[key].value
    <3>1. key \in Present(d) /\ d.data[key] = m[key].value
      BY <1>3, <1>4, <1>6, SeenUnder
    <3> HIDE DEF d, m
    <3> QED BY <1>2, <3>1 DEF Present, KeyspaceType
  <2>2. db' \in KeyspaceType /\ db'.data = [d.data EXCEPT ![key] = d.data[key]]
        /\ db'.expires = [d.expires EXCEPT ![key] = None]
    <3>1. db' = WithDeadline(d, key, None) BY <1>1, <1>6
    <3> HIDE DEF d, has
    <3> QED BY <1>2, <3>1 DEF WithDeadline, KeyspaceType
  <2>3. now' \in Int /\ now' >= now /\ result' = [op |-> "persist", ret |-> 1]
    BY <1>0, <1>1, <1>6
  <2>4. None \in Int64 \cup {None} OBVIOUS
  <2>5. Map!Call("persist", 1, Map!With(m, key, d.data[key], None))
    <3> HIDE DEF d, has
    <3> QED BY <1>1, <1>2, <2>1, <2>2, <2>3, <2>4, UpdateCallStep
  <2> HIDE DEF m, has
  <2> QED BY <1>4, <1>6, <2>1, <2>5 DEF Map!Persist, m
<1> QED BY <1>5, <1>6

(* A step that answers nobody is seen at most as time passing.             *)
LEMMA AdvanceStep ==
  ASSUME StoreInv, mode = "serving", mode' = mode, result' = result,
         now' \in Int, now' >= now, View(db', now') = View(db, now')
  PROVE  Map!Advance
<1>1. View(db', now') = Map!At(View(db, now), now') BY NowIsInt, ViewLater
<1> QED BY <1>1, LiveEntriesServing, LiveEntriesServingNext DEF Map!Advance

(* Whatever _admit decides, clients see the write, a refusal, or nothing.  *)
LEMMA AdmitSeen ==
  ASSUME StoreInv, mode = "serving", NEW d, WellFormed(d),
         View(d, now) = View(db, now), NEW w \in Pending, Admit(d, w)
  PROVE  \/ Map!Call(w.op, IF w.op = "incr" THEN w.value ELSE None,
                     Map!With(LiveEntries, w.key, w.value,
                              IF w.op = "set" THEN w.deadline
                                              ELSE d.expires[w.key]))
         \/ Map!Refuse(w.op)
         \/ Map!Advance
<1>0. /\ now \in Int /\ d \in KeyspaceType /\ mode' = mode
      /\ w.key \in Key /\ w.value \in Value /\ w.deadline \in Int64 \cup {None}
  BY NowIsInt DEF WellFormed, Admit, Pending
<1>1. CASE Fits(d, w) /\ db' = Commit(d, w) /\ Done(w) /\ UNCHANGED now
  <2> DEFINE deadline == IF w.op = "set" THEN w.deadline ELSE d.expires[w.key]
             ret == IF w.op = "incr" THEN w.value ELSE None
  <2>1. deadline \in Int64 \cup {None} BY <1>0 DEF KeyspaceType
  <2>2. db' \in KeyspaceType BY <1>1, CommitWellFormed DEF WellFormed
  <2>3. /\ db'.data = [d.data EXCEPT ![w.key] = w.value]
        /\ db'.expires = [d.expires EXCEPT ![w.key] = deadline]
    BY <1>0, <1>1, CommitData
  <2>4. result' = [op |-> w.op, ret |-> ret] /\ now' \in Int /\ now' >= now
    BY <1>0, <1>1 DEF Done
  <2> HIDE DEF deadline, ret
  <2>5. Map!Call(w.op, ret, Map!With(LiveEntries, w.key, w.value, deadline))
    BY <1>0, <2>1, <2>2, <2>3, <2>4, UpdateCallStep
  <2> QED BY <2>5 DEF deadline, ret
<1>2. CASE Refused(d, w) /\ db' = d /\ Answer(w.op, OutOfMemoryError) /\ UNCHANGED now
  <2>1. Map!Call(w.op, OutOfMemoryError, LiveEntries)
    BY <1>0, <1>2, QuietCallStep
  <2>2. MaxMemory # 0 BY <1>2 DEF Refused, Fits
  <2> QED BY <2>1, <2>2 DEF Map!Refuse
<1>3. ASSUME NEW t \in now .. MaxTime, now' = t, db' = DropExpired(d, t),
             UNCHANGED result
      PROVE  Map!Advance
  <2>1. t \in Int /\ now <= t BY <1>0, <1>3, StoreAssumption
  <2>2. View(db', t) = View(d, t) BY <1>3, ViewReclaimed DEF DropExpired
  <2>3. View(d, t) = Map!At(View(db, now), t) BY <1>0, <2>1, ViewLater
  <2>4. View(db, t) = Map!At(View(db, now), t) BY <2>1, NowIsInt, ViewLater
  <2> QED BY <1>0, <1>3, <2>1, <2>2, <2>3, <2>4, AdvanceStep
<1> QED BY <1>1, <1>2, <1>3 DEF Admit

LEMMA SetStep ==
  ASSUME StoreInv, NEW key \in Key, NEW value \in SetValues,
         NEW ttl \in Ttls \cup {None}, Set(key, value, ttl)
  PROVE  Map!Set(key, value, ttl) \/ Map!Refuse("set") \/ Map!Advance
<1>0. now \in Int /\ WellFormed(db) /\ value \in Value /\ Ttls \subseteq Int
      /\ mode = "serving" /\ INT64_MIN <= 0 /\ INT64_MAX \in Int
  BY NowIsInt, StoreAssumption, KeyspaceAssumption DEF Set
<1>1. CASE ttl # None /\ BadTtl(ttl, now)
  <2>1. /\ mode' = mode /\ now' = now /\ db' = db
        /\ result' = [op |-> "set", ret |-> InvalidExpireError]
    BY <1>1 DEF Set
  <2>2. Map!Call("set", InvalidExpireError, LiveEntries)
    BY <1>0, <2>1, QuietCallStep
  <2>3. ~(ttl > 0 /\ now + ttl <= INT64_MAX)
    BY <1>0, <1>1 DEF BadTtl
  <2> QED BY <1>1, <2>2, <2>3 DEF Map!Set
<1>2. CASE ~(ttl # None /\ BadTtl(ttl, now))
  <2> DEFINE w == [op |-> "set", key |-> key, value |-> value,
                   deadline |-> IF ttl = None THEN None ELSE now + ttl]
  <2>1. Admit(db, w) BY <1>2 DEF Set
  <2>2. ttl # None => ttl > 0 /\ now + ttl <= INT64_MAX /\ now + ttl \in Int64
    <3> SUFFICES ASSUME ttl # None PROVE ttl > 0 /\ now + ttl <= INT64_MAX
                                         /\ now + ttl \in Int64
      OBVIOUS
    <3>1. now \in Nat /\ ttl \in Int BY <1>0 DEF StoreInv, TypeOK
    <3>2. ~(ttl <= 0) /\ ~(now + ttl > INT64_MAX) BY <1>2 DEF BadTtl
    <3> QED BY <1>0, <3>1, <3>2, KeyspaceAssumption DEF Int64
  <2>3. w \in Pending BY <1>0, <2>2 DEF Pending
  <2>4. \/ Map!Call("set", None, Map!With(LiveEntries, key, value,
                                          IF ttl = None THEN None ELSE now + ttl))
        \/ Map!Refuse("set") \/ Map!Advance
    <3>1. w.op = "set" /\ w.key = key /\ w.value = value
          /\ w.deadline = IF ttl = None THEN None ELSE now + ttl
      OBVIOUS
    <3> HIDE DEF w
    <3>2. \/ Map!Call(w.op, IF w.op = "incr" THEN w.value ELSE None,
                      Map!With(LiveEntries, w.key, w.value,
                               IF w.op = "set" THEN w.deadline
                                               ELSE db.expires[w.key]))
          \/ Map!Refuse(w.op)
          \/ Map!Advance
      BY <1>0, <2>1, <2>3, AdmitSeen
    <3> QED BY <3>1, <3>2
  <2> QED BY <2>2, <2>4 DEF Map!Set
<1> QED BY <1>1, <1>2


LEMMA IncrStep ==
  ASSUME StoreInv, NEW key \in Key, Incr(key)
  PROVE  Map!Incr(key) \/ Map!Refuse("incr") \/ Map!Advance
<1> DEFINE d   == DropIfExpired(db, key, now)
           raw == d.data[key]
           old == IF raw = None THEN 0 ELSE raw
           m   == LiveEntries
           was == IF m[key] = None THEN 0 ELSE m[key].value
           due == IF m[key] = None THEN None ELSE m[key].deadline
           w   == [op |-> "incr", key |-> key, value |-> old + 1,
                   deadline |-> d.expires[key]]
<1>0. now \in Int /\ WellFormed(db) /\ mode = "serving"
  BY NowIsInt DEF Incr
<1>1. d \in KeyspaceType /\ WellFormed(d) /\ View(d, now) = View(db, now)
  BY <1>0, ViewDropped, DropIfExpiredWellFormed
<1>2. old = was /\ d.expires[key] = due
  <2>1. m = View(db, now) BY <1>0, LiveEntriesServing
  <2>2. m[key] = None => raw = None /\ d.expires[key] = None
    BY <2>1, SeenUnder
  <2>3. m[key] # None => /\ key \in Present(d) /\ raw = m[key].value
                         /\ d.expires[key] = m[key].deadline
    BY <2>1, SeenUnder
  <2> HIDE DEF d, m
  <2> QED BY <2>2, <2>3 DEF Present
<1>3. raw \in Value \cup {None} /\ d.expires[key] \in Int64 \cup {None}
  <2> HIDE DEF d
  <2> QED BY <1>1 DEF KeyspaceType
<1>4. /\ raw \in Text <=> was \in Text
      /\ raw = INT64_MAX <=> was = INT64_MAX
  <2>1. None \notin Text /\ 0 \notin Text /\ INT64_MAX # 0 /\ None # INT64_MAX
    BY KeyspaceAssumption
  <2> HIDE DEF raw, was
  <2> QED BY <1>2, <2>1
<1>5. INT64_MAX \notin Text BY KeyspaceAssumption
<1>6. CASE raw \in Text
  <2>1. db' = d /\ mode' = mode /\ now' = now
        /\ result' = [op |-> "incr", ret |-> NotAnIntegerError]
    <3>1. raw # INT64_MAX BY <1>5, <1>6
    <3> QED BY <1>6, <3>1 DEF Incr
  <2>2. Map!Call("incr", NotAnIntegerError, m)
    BY <1>0, <1>1, <2>1, QuietCallStep
  <2>3. was \in Text /\ was # INT64_MAX BY <1>4, <1>5, <1>6
  <2> HIDE DEF d
  <2> QED BY <2>2, <2>3 DEF Map!Incr
<1>7. CASE raw = INT64_MAX
  <2>1. db' = d /\ mode' = mode /\ now' = now
        /\ result' = [op |-> "incr", ret |-> IntegerOverflowError]
    <3>1. raw \notin Text BY <1>5, <1>7
    <3> QED BY <1>7, <3>1 DEF Incr
  <2>2. Map!Call("incr", IntegerOverflowError, m)
    BY <1>0, <1>1, <2>1, QuietCallStep
  <2>3. was \notin Text /\ was = INT64_MAX BY <1>4, <1>5, <1>7
  <2> HIDE DEF d
  <2> QED BY <2>2, <2>3 DEF Map!Incr
<1>8. CASE raw \notin Text /\ raw # INT64_MAX
  <2>1. Admit(d, w)
    <3> HIDE DEF raw
    <3> QED BY <1>8 DEF Incr, raw
  <2>2. old + 1 \in Int64 /\ key \in Key
    <3> HIDE DEF raw
    <3> QED BY <1>3, <1>8, KeyspaceAssumption DEF Value, Int64
  <2>3. w \in Pending
    <3> HIDE DEF d, old
    <3> QED BY <1>3, <2>2 DEF Pending, Value
  <2>4. \/ Map!Call("incr", was + 1, Map!With(m, key, was + 1, due))
        \/ Map!Refuse("incr") \/ Map!Advance
    <3>1. w.op = "incr" /\ w.key = key /\ w.value = was + 1
      BY <1>2
    <3> HIDE DEF w
    <3>2. \/ Map!Call(w.op, IF w.op = "incr" THEN w.value ELSE None,
                      Map!With(LiveEntries, w.key, w.value,
                               IF w.op = "set" THEN w.deadline
                                               ELSE d.expires[w.key]))
          \/ Map!Refuse(w.op)
          \/ Map!Advance
      <4> HIDE DEF d
      <4> QED BY <1>0, <1>1, <2>1, <2>3, AdmitSeen
    <3> HIDE DEF d, was, due, m
    <3> QED BY <1>2, <3>1, <3>2 DEF m
  <2>5. was \notin Text /\ was # INT64_MAX BY <1>4, <1>8
  <2>6. CASE Map!Call("incr", was + 1, Map!With(m, key, was + 1, due))
    <3> HIDE DEF d
    <3> QED BY <2>5, <2>6 DEF Map!Incr
  <2> QED BY <2>4, <2>6
<1> QED BY <1>6, <1>7, <1>8

LEMMA ExpireStep ==
  ASSUME StoreInv, NEW key \in Key, NEW ttl \in Ttls, Expire(key, ttl)
  PROVE  Map!Expire(key, ttl)
<1> DEFINE d == DropIfExpired(db, key, now)
           m == LiveEntries
<1>0. now \in Int /\ WellFormed(db) /\ mode = "serving" /\ mode' = mode
      /\ ttl \in Int
  BY NowIsInt, StoreAssumption DEF Expire
<1>1. d \in KeyspaceType /\ View(d, now) = View(db, now)
  BY <1>0, ViewDropped
<1>2. m = View(db, now) BY <1>0, LiveEntriesServing
<1>3. /\ key \in Present(d) <=> m[key] # None
      /\ key \in Present(d) => d.data[key] = m[key].value
  BY <1>2, SeenUnder
<1>4. CASE /\ key \notin Present(d)
           /\ db' = d
           /\ Answer("expire", 0)
           /\ UNCHANGED now
  <2>1. Map!Call("expire", 0, m) BY <1>0, <1>1, <1>4, QuietCallStep
  <2> HIDE DEF d
  <2> QED BY <1>3, <1>4, <2>1 DEF Map!Expire
<1>5. CASE /\ key \in Present(d) /\ ttl <= 0
           /\ db' = Removed(d, {key})
           /\ Answer("expire", 1)
           /\ UNCHANGED now
  <2>1. View(db', now) = Map!At(Map!Without(View(d, now), {key}), now)
    <3> HIDE DEF d
    <3> QED BY <1>0, <1>1, <1>5, ViewRemoved
  <2>2. Map!Call("expire", 1, Map!Without(m, {key}))
    <3> HIDE DEF d
    <3> QED BY <1>0, <1>1, <1>2, <1>5, <2>1, CallStep
  <2> HIDE DEF d
  <2> QED BY <1>3, <1>5, <2>2 DEF Map!Expire
<1>6. CASE /\ key \in Present(d) /\ ttl > 0
           /\ \E t \in now .. MaxTime :
                /\ now' = t
                /\ IF BadTtl(ttl, t)
                     THEN db' = d /\ Answer("expire", InvalidExpireError)
                     ELSE /\ db' = WithDeadline(d, key, t + ttl)
                          /\ Answer("expire", 1)
  <2> HIDE DEF d
  <2>1. PICK t \in now .. MaxTime :
          /\ now' = t
          /\ IF BadTtl(ttl, t)
               THEN db' = d /\ Answer("expire", InvalidExpireError)
               ELSE /\ db' = WithDeadline(d, key, t + ttl)
                    /\ Answer("expire", 1)
    BY <1>6
  <2>2. t \in Nat /\ now <= t /\ now' \in Int /\ now' >= now
    <3>1. now \in Nat /\ MaxTime \in Nat BY StoreAssumption DEF StoreInv, TypeOK
    <3> QED BY <2>1, <3>1
  <2>3. CASE BadTtl(ttl, t)
    <3>1. View(db', now') = View(db, now')
      <4>1. View(d, t) = Map!At(View(d, now), t) /\ View(db, t) = Map!At(View(db, now), t)
        BY <1>0, <1>1, <2>2, NowIsInt, ViewLater
      <4> QED BY <1>1, <2>1, <2>3, <4>1
    <3>2. Map!Call("expire", InvalidExpireError, m)
      BY <1>0, <2>1, <2>2, <2>3, <3>1, QuietCallStep
    <3>3. ~(now' + ttl <= INT64_MAX) /\ ~(ttl <= 0)
      BY <1>0, <1>6, <2>1, <2>2, <2>3, KeyspaceAssumption DEF BadTtl
    <3> QED BY <1>3, <1>6, <3>2, <3>3 DEF Map!Expire
  <2>4. CASE ~BadTtl(ttl, t)
    <3>1. ~(ttl <= 0) /\ t + ttl <= INT64_MAX /\ t + ttl \in Int64
      BY <1>0, <2>2, <2>4, KeyspaceAssumption DEF BadTtl, Int64
    <3>2. d.data[key] \in Value /\ d.data[key] = m[key].value
      BY <1>1, <1>3, <1>6 DEF Present, KeyspaceType
    <3>3. db' \in KeyspaceType /\ db'.data = [d.data EXCEPT ![key] = d.data[key]]
          /\ db'.expires = [d.expires EXCEPT ![key] = t + ttl]
      BY <1>1, <2>1, <2>4, <3>1 DEF WithDeadline, KeyspaceType
    <3>4. t + ttl \in Int64 \cup {None} /\ result' = [op |-> "expire", ret |-> 1]
      BY <2>1, <2>4, <3>1
    <3>5. Map!Call("expire", 1, Map!With(m, key, d.data[key], t + ttl))
      <4> HIDE DEF m
      <4> QED BY <1>0, <1>1, <2>2, <3>2, <3>3, <3>4, UpdateCallStep DEF m
    <3> QED BY <1>3, <1>6, <2>1, <3>1, <3>2, <3>5 DEF Map!Expire
  <2> QED BY <2>3, <2>4
<1> QED BY <1>4, <1>5, <1>6 DEF Expire

LEMMA DbsizeStep ==
  ASSUME StoreInv, Dbsize
  PROVE  Map!Dbsize
<1> DEFINE d == DropExpired(db, now)
<1>0. now \in Int /\ db \in KeyspaceType /\ mode = "serving" /\ mode' = mode
      /\ db' = d /\ now' = now
      /\ result' = [op |-> "dbsize", ret |-> Cardinality(Present(d))]
  BY NowIsInt DEF Dbsize
<1>1. View(d, now) = View(db, now) BY ViewReclaimed DEF DropExpired
<1>2. Present(d) = Map!Live(LiveEntries)
  <2>1. \A k \in Key : k \in Present(d) <=> AliveAt(db, k, now)
    BY DEF Present, DropExpired, Removed, AliveAt
  <2>2. \A k \in Key : LiveEntries[k] # None <=> AliveAt(db, k, now)
    BY <1>0, ViewEntry, LiveEntriesServing
  <2> QED BY <2>1, <2>2 DEF Map!Live, Present
<1>3. Map!Call("dbsize", Cardinality(Present(d)), LiveEntries)
  BY <1>0, <1>1, QuietCallStep
<1> QED BY <1>2, <1>3, SameCardinality DEF Map!Dbsize

(* Nothing is seen of recovery, a FLUSHDB of it included.                  *)
LEMMA FlushdbStep ==
  ASSUME StoreInv, Flushdb
  PROVE  Map!Flushdb \/ UNCHANGED Map!vars
<1>0. db' = Flushed(db) /\ now' = now /\ now \in Int BY NowIsInt DEF Flushdb
<1>1. CASE mode = "serving"
  <2>1. mode' = mode /\ result' = [op |-> "flushdb", ret |-> None]
    BY <1>1 DEF Flushdb
  <2>2. View(db', now') = [k \in Key |-> None]
    BY <1>0 DEF View, AliveAt, Present, Flushed, EmptyKeyspace
  <2>3. Map!At(Map!Without(LiveEntries, Key), now') = [k \in Key |-> None]
    BY DEF Map!At, Map!Without
  <2> QED BY <1>0, <1>1, <2>1, <2>2, <2>3, CallStep DEF Map!Flushdb
<1>2. CASE mode # "serving"
  <2>1. mode' = mode /\ result' = result BY <1>2 DEF Flushdb
  <2> QED BY <1>0, <1>2, <2>1 DEF Map!vars, LiveEntries
<1> QED BY <1>1, <1>2

LEMMA TickStep ==
  ASSUME StoreInv, Tick
  PROVE  Map!Advance
<1>0. /\ now \in Int /\ now' \in Int /\ now' >= now /\ db' = db /\ mode' = mode
      /\ result' = result
  BY NowIsInt DEF Tick
<1>1. CASE mode = "serving" BY <1>0, <1>1, AdvanceStep
<1>2. CASE mode # "serving"
  <2>1. LiveEntries = [k \in Key |-> None] /\ LiveEntries' = [k \in Key |-> None]
    BY <1>0, <1>2 DEF LiveEntries
  <2>2. Map!At(LiveEntries, now') = [k \in Key |-> None]
    BY <2>1 DEF Map!At
  <2> QED BY <1>0, <2>1, <2>2 DEF Map!Advance
<1> QED BY <1>1, <1>2

(* The end of recovery shows what the log held and is still alive.         *)
LEMMA LoadMapStep ==
  ASSUME StoreInv, Load
  PROVE  Map!Load \/ UNCHANGED Map!vars
<1>0. mode = "loading" /\ now' = now /\ now \in Int /\ db \in KeyspaceType
      /\ result' = result
  BY NowIsInt DEF Load, Restore, SetDeadline, ClearDeadline, Discard, FinishLoad
<1>1. CASE mode' = mode
  BY <1>0, <1>1 DEF Map!vars, LiveEntries
<1>2. CASE FinishLoad
  <2>1. mode' = "serving" /\ db' = DropExpired(db, now) BY <1>2 DEF FinishLoad
  <2>2. LiveEntries' = View(db, now)
    BY <1>0, <2>1, LiveEntriesServingNext, ViewReclaimed DEF DropExpired
  <2>3. View(db, now) \in [Key -> Map!Entry \cup {None}]
    <3>1. \A k \in Key : View(db, now)[k] \in Map!Entry \cup {None}
      BY <1>0, ViewEntry
    <3> QED BY <3>1 DEF View
  <2>4. Map!At(View(db, now), now) = View(db, now) BY <1>0, ViewLater
  <2> QED BY <1>0, <2>1, <2>2, <2>3, <2>4 DEF Map!Load
<1> QED BY <1>1, <1>2 DEF Load, Restore, SetDeadline, ClearDeadline, Discard

(* Neither the sweep nor the hand-over of the victims is seen.             *)
LEMMA SweepStep ==
  ASSUME StoreInv, Sweep
  PROVE  UNCHANGED Map!vars
<1> DEFINE due == ExpiredAt(db, now)
           first == Removed(db, sweepCursor \cap due)
<1>0. /\ now' = now /\ mode = "serving" /\ mode' = mode /\ result' = result
      /\ \/ \E seen : db' = Removed(db, seen \cap due)
         \/ \E seen : db' = Removed(first, seen \cap due)
  BY DEF Sweep
<1>1. ASSUME NEW seen, db' = Removed(db, seen \cap due)
      PROVE  View(db', now) = View(db, now)
  BY <1>1, ViewReclaimed
<1>2. ASSUME NEW seen, db' = Removed(first, seen \cap due)
      PROVE  View(db', now) = View(db, now)
  <2> DEFINE both == (sweepCursor \cup seen) \cap due
  <2>1. /\ db'.data = Removed(db, both).data
        /\ db'.expires = Removed(db, both).expires
    BY <1>2 DEF Removed
  <2>2. View(db', now) = View(Removed(db, both), now) BY <2>1, ViewSame
  <2> QED BY <2>2, ViewReclaimed
<1>3. View(db', now) = View(db, now) BY <1>0, <1>1, <1>2
<1> QED BY <1>0, <1>3, LiveEntriesServing, LiveEntriesServingNext DEF Map!vars

LEMMA TakeEvictedStep ==
  ASSUME TakeEvicted
  PROVE  UNCHANGED Map!vars
BY DEF TakeEvicted, LiveEntries, Map!vars

(* A victim that had reached its deadline is not missed.                   *)
LEMMA EvictMapStep ==
  ASSUME StoreInv, mode = "serving", Policy = "allkeys-lru", EvictOne
  PROVE  Map!Evict \/ UNCHANGED Map!vars
<1>1. PICK victim \in Key : db' = Removed(db, {victim})
  <2>1. \E sample \in Samples(call.key) :
          \E victim \in LeastRecent(sample.keys) : db' = Removed(db, {victim})
    BY DEF EvictOne
  <2>2. \A sample \in Samples(call.key) : LeastRecent(sample.keys) \subseteq Key
    BY SamplesType DEF LeastRecent, Present
  <2> QED BY <2>1, <2>2
<1>0. now' = now /\ mode' = mode /\ result' = result /\ now \in Int
      /\ db \in KeyspaceType
  BY NowIsInt DEF EvictOne
<1>2. LiveEntries = View(db, now) /\ LiveEntries' = View(db', now)
  BY <1>0, LiveEntriesServing, LiveEntriesServingNext
<1>3. View(db', now) = Map!Without(View(db, now), {victim})
  BY <1>1 DEF View, Map!Without, Removed, AliveAt, Present, ExpiredAt
<1>4. CASE AliveAt(db, victim, now)
  <2>1. victim \in Map!Live(LiveEntries)
    BY <1>0, <1>2, <1>4, ViewEntry DEF Map!Live
  <2> QED BY <1>0, <1>2, <1>3, <2>1 DEF Map!Evict
<1>5. CASE ~AliveAt(db, victim, now)
  <2>1. View(db, now)[victim] = None BY <1>5 DEF View
  <2>2. Map!Without(View(db, now), {victim}) = View(db, now)
    BY <2>1 DEF Map!Without, View
  <2> QED BY <1>0, <1>2, <1>3, <2>2 DEF Map!vars
<1> QED BY <1>4, <1>5

-----------------------------------------------------------------------------
(* Who is live in the map, now and at the end of the call.                 *)
LEMMA LiveIsAlive ==
  ASSUME StoreInv, mode = "serving", NEW k \in Key, NEW u \in Int, now <= u
  PROVE  /\ k \in Map!Live(LiveEntries) <=> AliveAt(db, k, now)
         /\ k \in Map!Live(Map!At(LiveEntries, u)) <=> AliveAt(db, k, u)
<1>1. LiveEntries = View(db, now) /\ Map!At(LiveEntries, u) = View(db, u)
  BY NowIsInt, LiveEntriesServing, ViewLater
<1> QED BY <1>1, NowIsInt, ViewEntry DEF Map!Live

(* Every mention of a key that is alive when it is looked up counts.       *)
LEMMA ExistsStep ==
  ASSUME StoreInv, NEW ks \in KeyArgs, Exists(ks)
  PROVE  Map!Exists(ks)
<1> DEFINE n == Len(ks)
<1>1. PICK ts \in Readings(n) :
        /\ now' = ts[n]
        /\ db' = Removed(db, {ks[i] : i \in {j \in DOMAIN ks :
                                              ks[j] \in ExpiredAt(db, ts[j])}})
        /\ result' = [op |-> "exists",
                      ret |-> Cardinality({i \in DOMAIN ks : AliveAt(db, ks[i], ts[i])})]
  BY DEF Exists
<1>0. mode = "serving" /\ mode' = mode /\ now \in Int /\ db \in KeyspaceType
  BY NowIsInt DEF Exists
<1>2. DOMAIN ks = 1 .. n /\ n \in Nat /\ n \in 1 .. n
      /\ \A i \in 1 .. n : ks[i] \in Key
  <2>1. ks \in Seq(Key) /\ ks # <<>> BY StoreAssumption
  <2> QED BY <2>1
<1> HIDE DEF n
<1>3. now' \in Int /\ now <= now'
      /\ \A i \in 1 .. n : ts[i] \in Int /\ now <= ts[i] /\ ts[i] <= now'
  BY <1>1, <1>2, ReadingsGoUp
<1> DEFINE low  == {i \in DOMAIN ks : ks[i] \in Map!Live(Map!At(LiveEntries, now'))}
           hits == {i \in DOMAIN ks : AliveAt(db, ks[i], ts[i])}
           high == {i \in DOMAIN ks : ks[i] \in Map!Live(LiveEntries)}
           gone == {ks[i] : i \in {j \in DOMAIN ks : ks[j] \in ExpiredAt(db, ts[j])}}
<1>4. low \subseteq hits
  <2> SUFFICES ASSUME NEW i \in low PROVE i \in hits
    OBVIOUS
  <2>1. i \in 1 .. n /\ ks[i] \in Key BY <1>2
  <2>2. AliveAt(db, ks[i], now') BY <1>0, <1>3, <2>1, LiveIsAlive
  <2>3. AliveAt(db, ks[i], ts[i]) BY <1>0, <1>3, <2>1, <2>2, AliveBefore
  <2> QED BY <2>3
<1>5. hits \subseteq high
  <2> SUFFICES ASSUME NEW i \in hits PROVE i \in high
    OBVIOUS
  <2>1. i \in 1 .. n /\ ks[i] \in Key BY <1>2
  <2>2. AliveAt(db, ks[i], now) BY <1>0, <1>3, <2>1, AliveBefore
  <2>3. ks[i] \in Map!Live(LiveEntries) BY <1>0, <2>1, <2>2, LiveIsAlive
  <2> QED BY <2>3
<1>6. /\ Cardinality(low) \in Nat /\ Cardinality(hits) \in Nat
      /\ Cardinality(high) \in Nat
      /\ Cardinality(low) <= Cardinality(hits)
      /\ Cardinality(hits) <= Cardinality(high)
  <2>1. IsFiniteSet(high) /\ IsFiniteSet(hits) /\ IsFiniteSet(low)
    <3>1. IsFiniteSet(1 .. n) BY <1>2, FS_Interval
    <3>2. high \in SUBSET (1 .. n) /\ hits \in SUBSET (1 .. n)
          /\ low \in SUBSET (1 .. n)
      BY <1>2
    <3> HIDE DEF high, hits, low
    <3> QED BY <3>1, <3>2, FS_Subset
  <2> HIDE DEF high, hits, low
  <2> QED BY <1>4, <1>5, <2>1, FS_Subset, FS_CardinalityType
<1>7. View(db', now') = View(db, now')
  <2>1. gone \subseteq ExpiredAt(db, now')
    <3> SUFFICES ASSUME NEW j \in DOMAIN ks, ks[j] \in ExpiredAt(db, ts[j])
                 PROVE  ks[j] \in ExpiredAt(db, now')
      OBVIOUS
    <3>1. ks[j] \in Key /\ ts[j] \in Int /\ ts[j] <= now' BY <1>2, <1>3
    <3>2. db.expires[ks[j]] \in Int \cup {None}
      BY <1>0, <3>1, KeyspaceAssumption DEF KeyspaceType, Int64
    <3> QED BY <1>3, <3>1, <3>2 DEF ExpiredAt
  <2>2. db' = Removed(db, gone) BY <1>1
  <2> HIDE DEF gone
  <2> QED BY <2>1, <2>2, ViewReclaimed
<1>8. Map!Call("exists", Cardinality(hits), LiveEntries)
  BY <1>0, <1>1, <1>3, <1>7, QuietCallStep
<1>9. Cardinality(hits) \in Map!Cardinality(low) .. Map!Cardinality(high)
  <2> HIDE DEF high, hits, low
  <2> QED BY <1>6, SameCardinality
<1> HIDE DEF hits
<1> QED BY <1>8, <1>9 DEF Map!Exists

(* A key is counted at its first mention, if it is alive by then: at least *)
(* the named keys still alive at the end, at most those alive before.      *)
LEMMA DeleteStep ==
  ASSUME StoreInv, NEW ks \in KeyArgs, Delete(ks)
  PROVE  Map!Delete(ks)
<1> DEFINE n == Len(ks)
           named == {ks[i] : i \in DOMAIN ks}
<1>1. PICK ts \in Readings(n) :
        /\ now' = ts[n]
        /\ db' = Removed(db, named \cap Present(db))
        /\ result' = [op |-> "delete",
                      ret |-> Cardinality({i \in DOMAIN ks :
                                /\ AliveAt(db, ks[i], ts[i])
                                /\ \A j \in 1 .. i - 1 : ks[j] # ks[i]})]
  BY DEF Delete
<1>0. mode = "serving" /\ mode' = mode /\ now \in Int /\ db \in KeyspaceType
  BY NowIsInt DEF Delete
<1>2. DOMAIN ks = 1 .. n /\ n \in Nat /\ n \in 1 .. n
      /\ \A i \in 1 .. n : ks[i] \in Key
  <2>1. ks \in Seq(Key) /\ ks # <<>> BY StoreAssumption
  <2> QED BY <2>1
<1> HIDE DEF n
<1>3. now' \in Int /\ now <= now'
      /\ \A i \in 1 .. n : ts[i] \in Int /\ now <= ts[i] /\ ts[i] <= now'
  BY <1>1, <1>2, ReadingsGoUp
<1>4. named \in SUBSET Key BY <1>2
<1> DEFINE low  == named \cap Map!Live(Map!At(LiveEntries, now'))
           hits == {i \in DOMAIN ks : /\ AliveAt(db, ks[i], ts[i])
                                      /\ \A j \in 1 .. i - 1 : ks[j] # ks[i]}
           high == named \cap Map!Live(LiveEntries)
<1>5. IsFiniteSet(low) /\ IsFiniteSet(hits) /\ IsFiniteSet(high)
  <2>1. IsFiniteSet(1 .. n) /\ hits \in SUBSET (1 .. n) BY <1>2, FS_Interval
  <2>2. low \in SUBSET Key /\ high \in SUBSET Key BY <1>4
  <2> HIDE DEF high, hits, low
  <2> QED BY <2>1, <2>2, FS_Subset, KeyspaceAssumption
<1>6. Cardinality(hits) <= Cardinality(high)
  <2> DEFINE f == [i \in hits |-> ks[i]]
  <2>1. \A i \in hits : i \in 1 .. n /\ ks[i] \in high
    <3> SUFFICES ASSUME NEW i \in hits PROVE i \in 1 .. n /\ ks[i] \in high
      OBVIOUS
    <3>1. i \in 1 .. n /\ ks[i] \in Key /\ ks[i] \in named BY <1>2
    <3>2. AliveAt(db, ks[i], now) BY <1>0, <1>3, <3>1, AliveBefore
    <3>3. ks[i] \in Map!Live(LiveEntries) BY <1>0, <3>1, <3>2, LiveIsAlive
    <3> QED BY <3>1, <3>3
  <2>2. ASSUME NEW i \in hits, NEW j \in hits, ks[i] = ks[j]
        PROVE  i = j
    <3>1. i \in 1 .. n /\ j \in 1 .. n BY <2>1
    <3>2. ~(i < j) /\ ~(j < i) BY <1>2, <2>2, <3>1
    <3> QED BY <1>2, <3>1, <3>2
  <2>3. f \in Injection(hits, high)
    <3> HIDE DEF hits, high
    <3> QED BY <2>1, <2>2 DEF Injection, IsInjective
  <2> HIDE DEF f, hits, high
  <2> QED BY <1>5, <2>3, FS_Injection
<1>7. Cardinality(low) <= Cardinality(hits)
  <2> DEFINE g == [k \in low |-> CHOOSE i \in hits : ks[i] = k]
  <2>1. \A k \in low : \E i \in hits : ks[i] = k
    <3> SUFFICES ASSUME NEW k \in low PROVE \E i \in hits : ks[i] = k
      OBVIOUS
    <3> DEFINE T == {i \in 1 .. n : ks[i] = k}
    <3>1. PICK i \in T : \A j \in T : i <= j
      <4>1. T \in SUBSET Nat /\ T # {} BY <1>2
      <4> HIDE DEF T
      <4> QED BY <4>1, LeastNat
    <3>2. i \in 1 .. n /\ ks[i] = k /\ k \in Key BY <1>2, <3>1
    <3>3. \A j \in 1 .. i - 1 : ks[j] # ks[i] BY <1>2, <3>1, <3>2
    <3>4. AliveAt(db, k, now') BY <1>0, <1>3, <3>2, LiveIsAlive
    <3>5. AliveAt(db, ks[i], ts[i]) BY <1>0, <1>3, <3>2, <3>4, AliveBefore
    <3> QED BY <1>2, <3>2, <3>3, <3>5
  <2>2. g \in Injection(low, hits)
    <3> HIDE DEF hits, low
    <3> QED BY <2>1 DEF Injection, IsInjective
  <2> HIDE DEF g, hits, low
  <2> QED BY <1>5, <2>2, FS_Injection
<1>8. View(db', now') = Map!At(Map!Without(LiveEntries, named), now')
  <2>1. /\ db'.data = Removed(db, named).data
        /\ db'.expires = Removed(db, named).expires
    <3>1. \A k \in Key : k \notin Present(db) => db.data[k] = None /\ db.expires[k] = None
      BY NowIsInt DEF WellFormed, MetadataHasKey, Present
    <3> HIDE DEF named
    <3> QED BY <1>1, <3>1 DEF Removed
  <2>2. View(db', now') = View(Removed(db, named), now') BY <2>1, ViewSame
  <2> HIDE DEF named
  <2>3. View(Removed(db, named), now') = Map!At(Map!Without(View(db, now), named), now')
    BY <1>0, <1>3, <1>4, ViewRemoved
  <2> QED BY <1>0, <2>2, <2>3, LiveEntriesServing
<1>9. Map!Call("delete", Cardinality(hits), Map!Without(LiveEntries, named))
  BY <1>0, <1>1, <1>3, <1>8, CallStep
<1>10. Cardinality(hits) \in Map!Cardinality(low) .. Map!Cardinality(high)
  <2> HIDE DEF high, hits, low
  <2>1. Cardinality(low) \in Nat /\ Cardinality(hits) \in Nat
        /\ Cardinality(high) \in Nat
    BY <1>5, FS_CardinalityType
  <2> QED BY <1>6, <1>7, <2>1, SameCardinality
<1> HIDE DEF hits
<1> QED BY <1>9, <1>10 DEF Map!Delete

-----------------------------------------------------------------------------
(* No client and no log gives a key a deadline.                            *)
NoDeadlines == (\A ttl \in Ttls : ttl <= 0) /\ RestoreDeadlines = {}

Undated(d) == \A k \in Key : d.expires[k] = None

(* What an incr found under its key when it read the keyspace d.           *)
IncrOf(d, w) ==
  LET raw == d.data[w.key]
  IN  /\ raw \notin Text /\ raw # INT64_MAX
      /\ w.value = (IF raw = None THEN 0 ELSE raw) + 1

(* The write w is one a client may ask for in d, without a deadline.       *)
Current(d, w) ==
  /\ w.deadline = None
  /\ w.op = "set" => w.value \in SetValues
  /\ w.op = "incr" => IncrOf(d, w)

(* A write half-way is still the write that was asked for: its key is no   *)
(* candidate, and without deadlines nothing else takes away what an incr   *)
(* has read.                                                               *)
WriteInv ==
  /\ call # None => Policy = "allkeys-lru"
  /\ NoDeadlines => Undated(db) /\ (call # None => Current(db, call))

LEMMA RemovedUndated ==
  ASSUME NEW d, Undated(d), NEW S
  PROVE  Undated(Removed(d, S))
BY DEF Undated, Removed

(* Without deadlines nothing expires.                                      *)
LEMMA UndatedKeeps ==
  ASSUME NEW d, Undated(d), NEW t, NEW key \in Key
  PROVE  /\ ExpiredAt(d, t) = {}
         /\ DropIfExpired(d, key, t) = d
BY DEF Undated, ExpiredAt, DropIfExpired

(* _admit starts an eviction loop only under a policy that evicts, and     *)
(* without deadlines it has then changed nothing.                          *)
LEMMA AdmitWrite ==
  ASSUME StoreInv, call = None, NEW d, WellFormed(d), NEW w \in Pending, Admit(d, w)
  PROVE  /\ call' # None => Policy = "allkeys-lru" /\ call' = w
         /\ Undated(d) /\ w.deadline = None =>
              Undated(db') /\ (call' # None => db'.data = d.data)
<1>0. d \in KeyspaceType /\ Policy \in {"noeviction", "allkeys-lru"}
  BY StoreAssumption DEF WellFormed
<1>1. CASE db' = Commit(d, w) /\ UNCHANGED call
  <2>1. ASSUME Undated(d), w.deadline = None PROVE Undated(db')
    <3>1. db'.expires = [d.expires EXCEPT ![w.key] = IF w.op = "set" THEN w.deadline
                                                     ELSE d.expires[w.key]]
      BY <1>0, <1>1, CommitData
    <3>2. w.key \in Key /\ d.expires \in [Key -> Int64 \cup {None}]
      BY <1>0 DEF Pending, KeyspaceType
    <3> QED BY <2>1, <3>1, <3>2 DEF Undated
  <2> QED BY <1>1, <2>1
<1>2. CASE db' = d /\ UNCHANGED call BY <1>2
<1>3. CASE ~Fits(d, w) /\ ~Refused(d, w) /\ call' = w
           /\ \E t \in now .. MaxTime : db' = DropExpired(d, t)
  <2>1. Policy = "allkeys-lru" BY <1>0, <1>3 DEF Refused
  <2>2. PICK t : db' = DropExpired(d, t) BY <1>3
  <2>3. ASSUME Undated(d) PROVE Undated(db') /\ db'.data = d.data
    <3>1. db' = Removed(d, {}) BY <2>2, <2>3, UndatedKeeps DEF DropExpired, Undated, ExpiredAt
    <3>2. db'.data = d.data BY <1>0, <3>1 DEF Removed, KeyspaceType
    <3> QED BY <2>3, <3>1, <3>2, RemovedUndated
  <2> QED BY <1>3, <2>1, <2>3
<1> QED BY <1>1, <1>2, <1>3 DEF Admit

LEMMA SetWrite ==
  ASSUME StoreInv, WriteInv, NEW key \in Key, NEW value \in SetValues,
         NEW ttl \in Ttls \cup {None}, Set(key, value, ttl)
  PROVE  WriteInv'
<1>0. WellFormed(db) /\ now \in Int /\ now \in Nat BY NowIsInt DEF StoreInv, TypeOK
<1>1. call = None BY DEF Set
<1>2. CASE ttl # None /\ BadTtl(ttl, now)
  <2>1. db' = db /\ call' = call BY <1>2 DEF Set
  <2> QED BY <1>1, <2>1 DEF WriteInv
<1>3. CASE ~(ttl # None /\ BadTtl(ttl, now))
  <2> DEFINE w == [op |-> "set", key |-> key, value |-> value,
                   deadline |-> IF ttl = None THEN None ELSE now + ttl]
  <2>1. Admit(db, w) BY <1>3 DEF Set
  <2>2. w \in Pending
    <3>1. ttl # None => now + ttl \in Int64
      <4> SUFFICES ASSUME ttl # None PROVE now + ttl \in Int64
        OBVIOUS
      <4>1. ttl \in Int BY StoreAssumption
      <4>2. ~(ttl <= 0) /\ ~(now + ttl > INT64_MAX) BY <1>3 DEF BadTtl
      <4> QED BY <1>0, <4>1, <4>2, KeyspaceAssumption DEF Int64
    <3> QED BY <3>1, StoreAssumption DEF Pending
  <2>3. NoDeadlines => w.deadline = None
    BY <1>3, StoreAssumption DEF NoDeadlines, BadTtl
  <2>4. w.op = "set" /\ w.value \in SetValues OBVIOUS
  <2> HIDE DEF w
  <2>5. /\ call' # None => Policy = "allkeys-lru" /\ call' = w
        /\ Undated(db) /\ w.deadline = None =>
             Undated(db') /\ (call' # None => db'.data = db.data)
    BY <1>0, <1>1, <2>1, <2>2, AdmitWrite
  <2>6. NoDeadlines /\ call' # None => Current(db', call')
    BY <2>3, <2>4, <2>5 DEF Current
  <2> QED BY <2>3, <2>5, <2>6 DEF WriteInv
<1> QED BY <1>2, <1>3

LEMMA IncrWrite ==
  ASSUME StoreInv, WriteInv, NEW key \in Key, Incr(key)
  PROVE  WriteInv'
<1> DEFINE d   == DropIfExpired(db, key, now)
           raw == d.data[key]
           old == IF raw = None THEN 0 ELSE raw
           w   == [op |-> "incr", key |-> key, value |-> old + 1,
                   deadline |-> d.expires[key]]
<1>0. call = None /\ WellFormed(db) BY NowIsInt DEF Incr
<1>1. WellFormed(d) /\ d \in KeyspaceType
  BY <1>0, DropIfExpiredWellFormed DEF WellFormed
<1>2. NoDeadlines => Undated(d) BY UndatedKeeps DEF WriteInv
<1>3. raw \in Value \cup {None} /\ d.expires[key] \in Int64 \cup {None}
  <2> HIDE DEF d
  <2> QED BY <1>1 DEF KeyspaceType
<1>4. CASE raw \in Text \/ raw = INT64_MAX
  <2>1. INT64_MAX \notin Text BY KeyspaceAssumption
  <2>2. db' = d /\ call' = None
    <3> HIDE DEF raw
    <3> QED BY <1>0, <1>4, <2>1 DEF Incr, raw
  <2> QED BY <1>2, <2>2 DEF WriteInv
<1>5. CASE raw \notin Text /\ raw # INT64_MAX
  <2>1. Admit(d, w)
    <3> HIDE DEF raw
    <3> QED BY <1>5 DEF Incr, raw
  <2>2. old + 1 \in Int64
    <3> HIDE DEF raw
    <3> QED BY <1>3, <1>5, KeyspaceAssumption DEF Value, Int64
  <2>3. w \in Pending
    <3> HIDE DEF d, old
    <3> QED BY <1>3, <2>2 DEF Pending, Value
  <2>4. w.op = "incr" /\ IncrOf(d, w) /\ w.deadline = d.expires[key]
    <3> HIDE DEF d
    <3> QED BY <1>5 DEF IncrOf
  <2>5. NoDeadlines => w.deadline = None BY <1>2, <2>4 DEF Undated
  <2> HIDE DEF w, d
  <2>6. /\ call' # None => Policy = "allkeys-lru" /\ call' = w
        /\ Undated(d) /\ w.deadline = None =>
             Undated(db') /\ (call' # None => db'.data = d.data)
    BY <1>0, <1>1, <2>1, <2>3, AdmitWrite
  <2>7. NoDeadlines /\ call' # None => Current(db', call')
    BY <1>2, <2>4, <2>5, <2>6 DEF Current, IncrOf
  <2> QED BY <1>2, <2>5, <2>6, <2>7 DEF WriteInv
<1> QED BY <1>4, <1>5

(* The steps that leave no write half-way.                                 *)
LEMMA QuietWrite ==
  ASSUME WriteInv, call' = None, NoDeadlines => Undated(db')
  PROVE  WriteInv'
BY DEF WriteInv

LEMMA WriteInvStep ==
  ASSUME StoreInv, LoadingIsQuiet, WriteInv, [Next]_vars
  PROVE  WriteInv'
<1>0. WellFormed(db) /\ db \in KeyspaceType /\ NoDeadlines => Undated(db)
  BY NowIsInt DEF WriteInv
<1>1. CASE Tick BY <1>1, QuietWrite DEF Tick, WriteInv
<1>2. CASE Load
  <2>1. call = None /\ call' = None
    BY <1>2 DEF LoadingIsQuiet, Load, Restore, SetDeadline, ClearDeadline,
                Discard, FinishLoad
  <2>2. ASSUME NoDeadlines PROVE Undated(db')
    <3>0. Undated(db) /\ RestoreDeadlines = {} BY <2>2 DEF WriteInv, NoDeadlines
    <3>1. ASSUME NEW key \in Key, NEW value, Restore(key, value, None)
          PROVE  Undated(db')
      BY <3>0, <3>1, NowIsInt
      DEF Restore, Restored, Written, WithDeadline, Undated, KeyspaceType
    <3>2. ASSUME NEW key \in Key, ClearDeadline(key) PROVE Undated(db')
      BY <3>0, <3>2, NowIsInt DEF ClearDeadline, WithDeadline, Undated, KeyspaceType
    <3>3. ASSUME NEW key \in Key, Discard(key) PROVE Undated(db')
      BY <3>0, <3>3, RemovedUndated DEF Discard
    <3>4. FinishLoad => Undated(db')
      BY <3>0, RemovedUndated DEF FinishLoad, DropExpired
    <3> QED BY <1>2, <3>0, <3>1, <3>2, <3>3, <3>4 DEF Load
  <2> QED BY <2>1, <2>2, QuietWrite
<1>3. ASSUME NEW key \in Key, Get(key) \/ Ttl(key) \/ Persist(key)
      PROVE  WriteInv'
  <2> DEFINE d == DropIfExpired(db, key, now)
  <2>1. call = None /\ call' = None
        /\ db' \in {d, Touched(d, key), WithDeadline(d, key, None)}
    BY <1>3 DEF Get, Ttl, Persist
  <2>2. d \in KeyspaceType BY <1>0, NowIsInt, DropIfExpiredWellFormed DEF WellFormed
  <2>3. NoDeadlines => Undated(d) BY UndatedKeeps DEF WriteInv
  <2> HIDE DEF d
  <2>4. NoDeadlines => Undated(db')
    BY <2>1, <2>2, <2>3 DEF Touched, WithDeadline, Undated, KeyspaceType
  <2> QED BY <2>1, <2>4, QuietWrite
<1>4. ASSUME NEW key \in Key, NEW ttl \in Ttls, Expire(key, ttl)
      PROVE  WriteInv'
  <2> DEFINE d == DropIfExpired(db, key, now)
  <2>1. /\ call = None /\ call' = None
        /\ db' = d \/ db' = Removed(d, {key}) \/ ttl > 0
    BY <1>4 DEF Expire
  <2>2. NoDeadlines => Undated(d) /\ ~(ttl > 0)
    BY UndatedKeeps, StoreAssumption DEF WriteInv, NoDeadlines
  <2> HIDE DEF d
  <2> QED BY <2>1, <2>2, RemovedUndated, QuietWrite
<1>5. CASE \/ \E ks \in KeyArgs : Delete(ks) \/ Exists(ks)
           \/ Dbsize \/ Flushdb
  <2>1. call = None /\ call' = None
    BY <1>5 DEF Delete, Exists, Dbsize, Flushdb, LoadingIsQuiet
  <2>2. (\E S : db' = Removed(db, S)) \/ db' = Flushed(db)
    BY <1>5 DEF Delete, Exists, Dbsize, Flushdb, DropExpired
  <2>3. Undated(Flushed(db)) BY DEF Undated, Flushed, EmptyKeyspace
  <2> QED BY <2>1, <2>2, <2>3, RemovedUndated, QuietWrite DEF WriteInv
<1>6. CASE EvictOne
  <2>1. \E sample \in Samples(call.key) :
          \E victim \in LeastRecent(sample.keys) : db' = Removed(db, {victim})
    BY <1>6 DEF EvictOne
  <2>2. PICK victim : victim # call.key /\ db' = Removed(db, {victim})
    BY <2>1, SamplesType DEF LeastRecent
  <2>3. call' = call /\ call \in Pending
    BY <1>6 DEF EvictOne, StoreInv, TypeOK
  <2>4. db'.data[call.key] = db.data[call.key]
    BY <2>2, <2>3 DEF Removed, Pending
  <2>5. Current(db, call) => Current(db', call')
    BY <2>3, <2>4 DEF Current, IncrOf
  <2> QED BY <2>2, <2>3, <2>5, RemovedUndated DEF WriteInv
<1>7. CASE FinishWrite
  <2>1. call' = None /\ call \in Pending /\ db' = Commit(db, call) /\ call # None
    BY <1>7 DEF FinishWrite, StoreInv, TypeOK
  <2>2. ASSUME NoDeadlines PROVE Undated(db')
    <3>1. Undated(db) /\ call.deadline = None /\ call.key \in Key
      BY <2>1, <2>2 DEF WriteInv, Current, Pending
    <3>2. /\ db.expires \in [Key -> Int64 \cup {None}]
          /\ db'.expires = [db.expires EXCEPT ![call.key] =
                              IF call.op = "set" THEN call.deadline
                              ELSE db.expires[call.key]]
      BY <2>1, NowIsInt, CommitData DEF KeyspaceType
    <3> QED BY <3>1, <3>2 DEF Undated
  <2> QED BY <2>1, <2>2, QuietWrite
<1>8. CASE TakeEvicted BY <1>8, QuietWrite DEF TakeEvicted, WriteInv
<1>9. CASE Sweep
  <2>1. /\ call = None /\ call' = None
        /\ \/ \E S : db' = Removed(db, S)
           \/ \E S, T : db' = Removed(Removed(db, S), T)
    BY <1>9 DEF Sweep
  <2> QED BY <2>1, RemovedUndated, QuietWrite DEF WriteInv
<1>10. CASE UNCHANGED vars BY <1>10 DEF vars, WriteInv
<1>11. CASE Operation BY <1>3, <1>4, <1>5, <1>11, SetWrite, IncrWrite DEF Operation
<1> QED BY <1>1, <1>2, <1>6, <1>7, <1>8, <1>9, <1>10, <1>11 DEF Next

LEMMA WriteInvariance == Spec => []WriteInv
<1>1. Init => WriteInv
  BY DEF Init, WriteInv, Undated, EmptyKeyspace
<1>2. StoreInv /\ LoadingIsQuiet /\ WriteInv /\ [Next]_vars => WriteInv'
  BY WriteInvStep
<1> QED BY <1>1, <1>2, Invariance, QuietWhileLoading, PTL DEF Spec

(* The end of a write that had to make room is seen as the whole write.    *)
LEMMA FinishWriteStep ==
  ASSUME StoreInv, LoadingIsQuiet, WriteInv, NoDeadlines, FinishWrite
  PROVE  \/ \E key \in Key, value \in SetValues : Map!Set(key, value, None)
         \/ \E key \in Key : Map!Incr(key)
<1> DEFINE m == LiveEntries
           key == call.key
           raw == db.data[key]
<1>0. /\ db \in KeyspaceType /\ WellFormed(db) /\ now \in Int
      /\ mode \in {"loading", "serving"}
  BY NowIsInt DEF StoreInv, TypeOK
<1>1. /\ call # None /\ call \in Pending /\ Undated(db) /\ Current(db, call)
      /\ key \in Key /\ call.value \in Value /\ call.op \in {"set", "incr"}
  BY DEF FinishWrite, WriteInv, StoreInv, TypeOK, Pending
<1>2. /\ mode = "serving" /\ mode' = mode /\ now' = now /\ db' = Commit(db, call)
      /\ result' = [op |-> call.op,
                    ret |-> IF call.op = "incr" THEN call.value ELSE None]
  BY <1>0, <1>1 DEF FinishWrite, Done, LoadingIsQuiet
<1>3. m = View(db, now) BY <1>2, LiveEntriesServing
<1>4. db.expires[key] = None /\ call.deadline = None
  BY <1>1 DEF Undated, Current
<1>5. /\ db'.data = [db.data EXCEPT ![key] = call.value]
      /\ db'.expires = [db.expires EXCEPT ![key] = None]
  BY <1>0, <1>1, <1>2, <1>4, CommitData
<1>6. db' \in KeyspaceType BY <1>0, <1>1, <1>2, CommitWellFormed DEF WellFormed
<1>7. Map!Call(call.op, IF call.op = "incr" THEN call.value ELSE None,
               Map!With(m, key, call.value, None))
  <2> DEFINE ret == IF call.op = "incr" THEN call.value ELSE None
  <2>1. now' \in Int /\ now' >= now /\ None \in Int64 \cup {None}
    BY <1>0, <1>2
  <2>2. result' = [op |-> call.op, ret |-> ret] BY <1>2
  <2> HIDE DEF ret
  <2>3. Map!Call(call.op, ret, Map!With(LiveEntries, key, call.value, None))
    BY <1>0, <1>1, <1>2, <1>5, <1>6, <2>1, <2>2, UpdateCallStep
  <2> QED BY <2>3 DEF ret
<1>8. CASE call.op = "set"
  <2>1. Map!Set(key, call.value, None) BY <1>7, <1>8 DEF Map!Set
  <2>2. call.value \in SetValues BY <1>1, <1>8 DEF Current
  <2> QED BY <1>1, <2>1, <2>2
<1>9. CASE call.op = "incr"
  <2>1. raw \notin Text /\ raw # INT64_MAX
        /\ call.value = (IF raw = None THEN 0 ELSE raw) + 1
    BY <1>1, <1>9 DEF Current, IncrOf
  <2>2. AliveAt(db, key, now) <=> raw # None
    BY <1>1, <1>4 DEF AliveAt, Present, ExpiredAt
  <2>3. m[key] = None <=> raw = None BY <1>0, <1>1, <1>3, <2>2, ViewEntry
  <2>4. m[key] # None => m[key].value = raw /\ m[key].deadline = None
    BY <1>0, <1>1, <1>3, <1>4, <2>2, <2>3, ViewEntry
  <2> DEFINE old == IF m[key] = None THEN 0 ELSE m[key].value
  <2>5. old \notin Text /\ old # INT64_MAX /\ call.value = old + 1
    <3>1. 0 \notin Text /\ INT64_MAX # 0 BY KeyspaceAssumption
    <3> HIDE DEF m, raw
    <3> QED BY <2>1, <2>3, <2>4, <3>1
  <2>6. (IF m[key] = None THEN None ELSE m[key].deadline) = None BY <2>4
  <2>7. Map!Call("incr", old + 1,
                 Map!With(m, key, old + 1,
                          IF m[key] = None THEN None ELSE m[key].deadline))
    <3> HIDE DEF m, old
    <3> QED BY <1>7, <1>9, <2>5, <2>6
  <2>8. Map!Incr(key) BY <2>5, <2>7 DEF Map!Incr
  <2> QED BY <1>1, <2>8
<1> QED BY <1>1, <1>8, <1>9

(* A write never makes room across a deadline: the policy refuses instead, *)
(* or there are no deadlines.  With both, `incr` may find its key alive    *)
(* and write it back without the deadline, and no map would answer so.     *)
NoRoomAcrossDeadlines == Policy = "noeviction" \/ NoDeadlines

LEMMA MapInit == Init => Map!Init
BY DEF Init, Map!Init, LiveEntries

LEMMA OperationStep ==
  ASSUME StoreInv, Operation
  PROVE  Map!Next \/ UNCHANGED Map!vars
<1>1. ASSUME NEW key \in Key, NEW value \in SetValues, NEW ttl \in Ttls \cup {None},
             Set(key, value, ttl)
      PROVE  Map!Next
  BY <1>1, SetStep DEF Map!Next
<1>2. ASSUME NEW key \in Key, Get(key) \/ Ttl(key) \/ Persist(key)
      PROVE  Map!Next
  BY <1>2, GetStep, TtlStep, PersistStep DEF Map!Next
<1>3. ASSUME NEW key \in Key, Incr(key) PROVE Map!Next
  BY <1>3, IncrStep DEF Map!Next
<1>4. ASSUME NEW key \in Key, NEW ttl \in Ttls, Expire(key, ttl) PROVE Map!Next
  BY <1>4, ExpireStep DEF Map!Next
<1>5. ASSUME NEW ks \in KeyArgs, Delete(ks) \/ Exists(ks) PROVE Map!Next
  BY <1>5, DeleteStep, ExistsStep DEF Map!Next
<1>6. Dbsize => Map!Next BY DbsizeStep DEF Map!Next
<1>7. Flushdb => Map!Next \/ UNCHANGED Map!vars BY FlushdbStep DEF Map!Next
<1> QED BY <1>1, <1>2, <1>3, <1>4, <1>5, <1>6, <1>7 DEF Operation

LEMMA MapStep ==
  ASSUME NoRoomAcrossDeadlines, StoreInv, LoadingIsQuiet, WriteInv, [Next]_vars
  PROVE  [Map!Next]_(Map!vars)
<1>1. CASE Tick BY <1>1, TickStep DEF Map!Next
<1>2. CASE Load BY <1>2, LoadMapStep DEF Map!Next
<1>3. CASE Operation BY <1>3, OperationStep
<1>4. CASE EvictOne
  <2>1. mode = "serving" /\ Policy = "allkeys-lru"
    BY <1>4 DEF EvictOne, LoadingIsQuiet, WriteInv, StoreInv, TypeOK
  <2> QED BY <1>4, <2>1, EvictMapStep DEF Map!Next
<1>5. CASE FinishWrite
  <2>1. NoDeadlines
    <3>1. Policy = "allkeys-lru" BY <1>5 DEF FinishWrite, WriteInv
    <3> QED BY <3>1 DEF NoRoomAcrossDeadlines
  <2> QED BY <1>5, <2>1, FinishWriteStep DEF Map!Next
<1>6. CASE TakeEvicted BY <1>6, TakeEvictedStep
<1>7. CASE Sweep BY <1>7, SweepStep
<1>8. CASE UNCHANGED vars BY <1>8 DEF vars, Map!vars, LiveEntries
<1> QED BY <1>1, <1>2, <1>3, <1>4, <1>5, <1>6, <1>7, <1>8 DEF Next

(* Whatever a client is answered, a map that forgets each key at its       *)
(* deadline would have answered too.                                       *)
THEOREM StoreImplementsMap ==
  ASSUME NoRoomAcrossDeadlines
  PROVE  Spec => ImplementsMap
<1>1. StoreInv /\ LoadingIsQuiet /\ WriteInv /\ [Next]_vars => [Map!Next]_(Map!vars)
  BY MapStep
<1> QED BY <1>1, MapInit, Invariance, QuietWhileLoading, WriteInvariance, PTL
        DEF Spec, ImplementsMap, Map!Spec
=============================================================================
