-------------------------- MODULE Durability_proofs --------------------------
(***************************************************************************)
(* What the journal guarantees of the store, for every keyspace, policy,   *)
(* limit and length of the log.                                            *)
(***************************************************************************)
EXTENDS Durability, KeyValueStore_proofs

FileProofs == INSTANCE AppendOnlyFile_proofs WITH Record <- LogRecord

USE DEF Idle, CanTouch, Returns, Answer, cursors

-----------------------------------------------------------------------------
(* Keyspaces as clients see them.                                          *)

(* The tables clients see something of.                                    *)
Tables(d) ==
  /\ d.data \in [Key -> Value \cup {None}]
  /\ d.expires \in [Key -> Int64 \cup {None}]

(* At time t, the key k is the same in d as in e.                          *)
Same(d, e, k, t) ==
  /\ AliveAt(d, k, t) <=> AliveAt(e, k, t)
  /\ AliveAt(d, k, t) => d.data[k] = e.data[k] /\ d.expires[k] = e.expires[k]

(* All keys are.                                                           *)
Agree(d, e, t) == \A k \in Key : Same(d, e, k, t)

LEMMA WellFormedTables ==
  ASSUME NEW d, WellFormed(d)
  PROVE  Tables(d) /\ d \in KeyspaceType
BY DEF WellFormed, KeyspaceType, Tables

(* An entry is told from no entry: LiveAt compares what Same compares.     *)
LEMMA SameIsLiveAt ==
  ASSUME NEW d, NEW e, Tables(d), Tables(e), NEW k \in Key, NEW t
  PROVE  LiveAt(d, t)[k] = LiveAt(e, t)[k] <=> Same(d, e, k, t)
<1> DEFINE Entry(x) == [value |-> x.data[k], deadline |-> x.expires[k]]
<1>1. ASSUME NEW x, Tables(x), AliveAt(x, k, t)
      PROVE  Entry(x) # None
  <2>1. x.data[k] \in Value /\ x.expires[k] \in Int64 \cup {None}
    BY <1>1 DEF Tables, AliveAt, Present
  <2>2. Entry(x) \in [value : Value, deadline : Int64 \cup {None}]
    BY <2>1
  <2> QED BY <2>2, StoreAssumption
<1>2. Entry(d) = Entry(e) <=> d.data[k] = e.data[k] /\ d.expires[k] = e.expires[k]
  OBVIOUS
<1>3. /\ LiveAt(d, t)[k] = IF AliveAt(d, k, t) THEN Entry(d) ELSE None
      /\ LiveAt(e, t)[k] = IF AliveAt(e, k, t) THEN Entry(e) ELSE None
  BY DEF LiveAt
<1> HIDE DEF Entry
<1> QED BY <1>1, <1>2, <1>3 DEF Same

LEMMA AgreeIsLiveAt ==
  ASSUME NEW d, NEW e, Tables(d), Tables(e), NEW t
  PROVE  LiveAt(d, t) = LiveAt(e, t) <=> Agree(d, e, t)
<1>1. LiveAt(d, t) = LiveAt(e, t) <=> \A k \in Key : LiveAt(d, t)[k] = LiveAt(e, t)[k]
  BY DEF LiveAt
<1> QED BY <1>1, SameIsLiveAt DEF Agree

(* What is the same stays so: time takes both or neither.                  *)
LEMMA SameLater ==
  ASSUME NEW d, NEW e, Tables(d), Tables(e), NEW k \in Key,
         NEW t \in Int, NEW u \in Int, t <= u, Same(d, e, k, t)
  PROVE  Same(d, e, k, u)
<1>1. d.expires[k] \in Int \cup {None} /\ e.expires[k] \in Int \cup {None}
  BY KeyspaceAssumption DEF Tables, Int64
<1> QED BY <1>1 DEF Same, AliveAt, ExpiredAt, Present

LEMMA AgreeLater ==
  ASSUME NEW d, NEW e, Tables(d), Tables(e),
         NEW t \in Int, NEW u \in Int, t <= u, Agree(d, e, t)
  PROVE  Agree(d, e, u)
BY SameLater DEF Agree

LEMMA SameTrans ==
  ASSUME NEW d, NEW e, NEW f, NEW k, NEW t, Same(d, e, k, t), Same(e, f, k, t)
  PROVE  Same(d, f, k, t)
BY DEF Same

LEMMA AgreeTrans ==
  ASSUME NEW d, NEW e, NEW f, NEW t, Agree(d, e, t), Agree(e, f, t)
  PROVE  Agree(d, f, t)
BY SameTrans DEF Agree

LEMMA AgreeSym ==
  ASSUME NEW d, NEW e, NEW t, Agree(d, e, t)
  PROVE  Agree(e, d, t)
BY DEF Agree, Same

(* Nothing is seen of the other tables.                                    *)
LEMMA SameEntry ==
  ASSUME NEW d, NEW e, NEW k \in Key, NEW t,
         d.data[k] = e.data[k], d.expires[k] = e.expires[k]
  PROVE  Same(d, e, k, t)
BY DEF Same, AliveAt, ExpiredAt, Present

(* Removing what has expired is not seen.                                  *)
LEMMA AgreeReclaimed ==
  ASSUME NEW d, NEW t, NEW S \in SUBSET ExpiredAt(d, t)
  PROVE  Agree(Removed(d, S), d, t)
BY DEF Agree, Same, AliveAt, ExpiredAt, Present, Removed

-----------------------------------------------------------------------------
(* What a record does to the tables.                                       *)

LEMMA RecordKinds ==
  ASSUME NEW r \in LogRecord
  PROVE  \/ /\ r.op = "SET" /\ r.key \in Key /\ r.value \in Value
            /\ r.deadline \in Int64 \cup {None}
         \/ r.op = "PEXPIREAT" /\ r.key \in Key /\ r.deadline \in Int64
         \/ r.op = "PERSIST" /\ r.key \in Key
         \/ r.op = "DEL" /\ r.keys \in SUBSET Key
         \/ r.op = "FLUSHDB"
BY DEF LogRecord

LEMMA RecordsTyped ==
  /\ \A k \in Key, v \in Value, t \in Int64 \cup {None} : SetRecord(k, v, t) \in LogRecord
  /\ \A k \in Key, t \in Int64 : ExpireRecord(k, t) \in LogRecord
  /\ \A k \in Key : PersistRecord(k) \in LogRecord
  /\ \A S \in SUBSET Key : DeleteRecord(S) \in LogRecord
  /\ FlushRecord \in LogRecord
BY DEF LogRecord, SetRecord, ExpireRecord, PersistRecord, DeleteRecord, FlushRecord

LEMMA NamedKeys ==
  ASSUME NEW r \in LogRecord
  PROVE  Named(r) \subseteq Key
BY RecordKinds DEF Named

(* A write puts its value and its deadline there.                          *)
LEMMA ApplySet ==
  ASSUME NEW d, WellFormed(d), NEW r \in LogRecord, r.op = "SET"
  PROVE  /\ WellFormed(Apply(d, r))
         /\ \A k \in Key :
              /\ Apply(d, r).data[k] = IF k = r.key THEN r.value ELSE d.data[k]
              /\ Apply(d, r).expires[k] = IF k = r.key THEN r.deadline ELSE d.expires[k]
<1> DEFINE e == Written(d, r.key, r.value)
<1>1. /\ r.key \in Key /\ r.value \in Value
      /\ r.deadline \in Int64 \cup {None}
  BY RecordKinds
<1>2. Apply(d, r) = WithDeadline(e, r.key, r.deadline)
  BY DEF Apply, Restored
<1>3. WellFormed(e) /\ r.key \in Present(e)
  BY <1>1, WrittenWellFormed
<1>4. /\ e.data = [d.data EXCEPT ![r.key] = r.value] /\ e.expires = d.expires
      /\ DOMAIN e = {"data", "expires", "access", "tick", "memory"}
  BY DEF Written, WellFormed, KeyspaceType
<1> HIDE DEF e
<1>5. WellFormed(WithDeadline(e, r.key, r.deadline))
  BY <1>1, <1>3, WithDeadlineWellFormed
<1>6. /\ WithDeadline(e, r.key, r.deadline).data = e.data
      /\ WithDeadline(e, r.key, r.deadline).expires = [e.expires EXCEPT ![r.key] = r.deadline]
  BY <1>4 DEF WithDeadline
<1>7. /\ d.data \in [Key -> Value \cup {None}]
      /\ d.expires \in [Key -> Int64 \cup {None}]
  BY WellFormedTables DEF Tables
<1> QED BY <1>1, <1>2, <1>4, <1>5, <1>6, <1>7

(* A new deadline is for a key that is there.                              *)
LEMMA WithDeadlineTables ==
  ASSUME NEW d, WellFormed(d), NEW key \in Key, NEW deadline, NEW k \in Key
  PROVE  /\ WithDeadline(d, key, deadline).data[k] = d.data[k]
         /\ WithDeadline(d, key, deadline).expires[k] =
              IF k = key THEN deadline ELSE d.expires[k]
<1>1. /\ DOMAIN d = {"data", "expires", "access", "tick", "memory"}
      /\ d.expires \in [Key -> Int64 \cup {None}]
  BY DEF WellFormed, KeyspaceType
<1> QED BY <1>1 DEF WithDeadline

LEMMA ApplyExpire ==
  ASSUME NEW d, WellFormed(d), NEW r \in LogRecord, r.op = "PEXPIREAT"
  PROVE  /\ WellFormed(Apply(d, r))
         /\ \A k \in Key :
              /\ Apply(d, r).data[k] = d.data[k]
              /\ Apply(d, r).expires[k] =
                   IF k = r.key /\ k \in Present(d) THEN r.deadline ELSE d.expires[k]
<1>1. r.key \in Key /\ r.deadline \in Int64
  BY RecordKinds
<1>2. Apply(d, r) = IF r.key \in Present(d)
                      THEN WithDeadline(d, r.key, r.deadline) ELSE d
  BY DEF Apply
<1>3. r.key \in Present(d) => WellFormed(WithDeadline(d, r.key, r.deadline))
  BY <1>1, WithDeadlineWellFormed
<1> QED BY <1>1, <1>2, <1>3, WithDeadlineTables

LEMMA ApplyPersist ==
  ASSUME NEW d, WellFormed(d), NEW r \in LogRecord, r.op = "PERSIST"
  PROVE  /\ WellFormed(Apply(d, r))
         /\ \A k \in Key :
              /\ Apply(d, r).data[k] = d.data[k]
              /\ Apply(d, r).expires[k] = IF k = r.key THEN None ELSE d.expires[k]
<1>1. r.key \in Key
  BY RecordKinds
<1>2. Apply(d, r) = WithDeadline(d, r.key, None)
  BY DEF Apply
<1>3. WellFormed(WithDeadline(d, r.key, None))
  BY <1>1, WithDeadlineWellFormed
<1> QED BY <1>1, <1>2, <1>3, WithDeadlineTables

(* A key that is not there has no deadline either.                         *)
LEMMA RemovedTables ==
  ASSUME NEW d, WellFormed(d), NEW S \in SUBSET Key,
         NEW e, e = Removed(d, S \cap Present(d))
  PROVE  /\ WellFormed(e)
         /\ \A k \in Key :
              /\ e.data[k] = IF k \in S THEN None ELSE d.data[k]
              /\ e.expires[k] = IF k \in S THEN None ELSE d.expires[k]
<1>1. S \cap Present(d) \in SUBSET Present(d)
  OBVIOUS
<1>2. WellFormed(Removed(d, S \cap Present(d)))
  BY <1>1, RemovedWellFormed
<1>3. \A k \in Key : k \notin Present(d) => d.data[k] = None /\ d.expires[k] = None
  BY DEF WellFormed, MetadataHasKey, Present
<1> QED BY <1>2, <1>3 DEF Removed

LEMMA ApplyDelete ==
  ASSUME NEW d, WellFormed(d), NEW r \in LogRecord, r.op = "DEL"
  PROVE  /\ WellFormed(Apply(d, r))
         /\ \A k \in Key :
              /\ Apply(d, r).data[k] = IF k \in r.keys THEN None ELSE d.data[k]
              /\ Apply(d, r).expires[k] = IF k \in r.keys THEN None ELSE d.expires[k]
<1>1. PICK S \in SUBSET Key : S = r.keys
  BY RecordKinds
<1>2. Apply(d, r) = Removed(d, S \cap Present(d))
  BY <1>1 DEF Apply
<1>3. /\ WellFormed(Apply(d, r))
      /\ \A k \in Key :
           /\ Apply(d, r).data[k] = IF k \in S THEN None ELSE d.data[k]
           /\ Apply(d, r).expires[k] = IF k \in S THEN None ELSE d.expires[k]
  BY <1>2, RemovedTables
<1> QED BY <1>1, <1>3

LEMMA ApplyFlush ==
  ASSUME NEW d, WellFormed(d), NEW r, r.op = "FLUSHDB"
  PROVE  /\ WellFormed(Apply(d, r))
         /\ \A k \in Key : Apply(d, r).data[k] = None /\ Apply(d, r).expires[k] = None
<1>1. Apply(d, r) = Flushed(d)
  BY DEF Apply
<1> QED BY <1>1, FlushedWellFormed DEF Flushed, EmptyKeyspace

LEMMA ApplyWellFormed ==
  ASSUME NEW d, WellFormed(d), NEW r \in LogRecord
  PROVE  WellFormed(Apply(d, r))
BY RecordKinds, ApplySet, ApplyExpire, ApplyPersist, ApplyDelete, ApplyFlush

(* A record is about the keys it names.                                    *)
LEMMA ApplyElsewhere ==
  ASSUME NEW d, WellFormed(d), NEW r \in LogRecord, NEW k \in Key \ Named(r)
  PROVE  Apply(d, r).data[k] = d.data[k] /\ Apply(d, r).expires[k] = d.expires[k]
<1>1. CASE r.op \in {"SET", "PEXPIREAT", "PERSIST"}
  <2>1. k # r.key
    BY <1>1 DEF Named
  <2> QED BY <1>1, <2>1, ApplySet, ApplyExpire, ApplyPersist
<1>2. CASE r.op = "DEL"
  <2>1. k \notin r.keys
    BY <1>2 DEF Named
  <2> QED BY <1>2, <2>1, ApplyDelete
<1>3. CASE r.op = "FLUSHDB"
  BY <1>3 DEF Named
<1> QED BY <1>1, <1>2, <1>3, RecordKinds

(* Nothing but the tables decides what a record does to them.              *)
LEMMA ApplyTables ==
  ASSUME NEW d, WellFormed(d), NEW e, WellFormed(e),
         \A k \in Key : d.data[k] = e.data[k] /\ d.expires[k] = e.expires[k],
         NEW r \in LogRecord, NEW k \in Key
  PROVE  /\ Apply(d, r).data[k] = Apply(e, r).data[k]
         /\ Apply(d, r).expires[k] = Apply(e, r).expires[k]
<1> Present(d) = Present(e)
  BY DEF Present
<1>1. CASE r.op = "SET"
  BY <1>1, ApplySet
<1>2. CASE r.op = "PEXPIREAT"
  BY <1>2, ApplyExpire
<1>3. CASE r.op = "PERSIST"
  BY <1>3, ApplyPersist
<1>4. CASE r.op = "DEL"
  BY <1>4, ApplyDelete
<1>5. CASE r.op = "FLUSHDB"
  BY <1>5, ApplyFlush
<1> QED BY <1>1, <1>2, <1>3, <1>4, <1>5, RecordKinds

-----------------------------------------------------------------------------
(* Replay, one record at a time.                                           *)

(* What Replay's function is: the keyspaces after 0, 1, .. n records.      *)
IsReplay(f, records) ==
  f = [n \in 0 .. Len(records) |->
         IF n = 0 THEN EmptyKeyspace ELSE Apply(f[n - 1], records[n])]

LEMMA ReplayChoice ==
  ASSUME NEW records
  PROVE  Replay(records) = (CHOOSE f : IsReplay(f, records))[Len(records)]
BY DEF Replay, IsReplay

(* There is one, ...                                                       *)
LEMMA ReplayExists ==
  ASSUME NEW records, Len(records) \in Nat
  PROVE  \E f : IsReplay(f, records)
<1> DEFINE Step(g, n, m) == IF m = 0 THEN EmptyKeyspace ELSE Apply(g[m - 1], records[m])
           Upto(g, n) == g = [m \in 0 .. n |-> IF m = 0 THEN EmptyKeyspace
                                                ELSE Apply(g[m - 1], records[m])]
           S == {n \in Nat : \E g : Upto(g, n)}
<1>1. 0 \in S
  <2> DEFINE g == [m \in 0 .. 0 |-> EmptyKeyspace]
  <2>1. Upto(g, 0)
    OBVIOUS
  <2> QED BY <2>1
<1>2. ASSUME NEW n \in 0 .. Len(records), n \in S, n < Len(records)
      PROVE  n + 1 \in S
  <2>1. PICK g : Upto(g, n)
    BY <1>2
  <2> DEFINE h == [m \in 0 .. n + 1 |-> IF m = n + 1 THEN Apply(g[n], records[n + 1])
                                         ELSE g[m]]
  <2>2. ASSUME NEW m \in 0 .. n + 1
        PROVE  h[m] = IF m = 0 THEN EmptyKeyspace ELSE Apply(h[m - 1], records[m])
    <3>1. CASE m = n + 1
      BY <3>1
    <3>2. CASE m # n + 1
      <4>1. m \in 0 .. n /\ (m # 0 => m - 1 \in 0 .. n)
        BY <3>2
      <4>2. g[m] = IF m = 0 THEN EmptyKeyspace ELSE Apply(g[m - 1], records[m])
        BY <2>1, <4>1
      <4> QED BY <3>2, <4>1, <4>2
    <3> QED BY <3>1, <3>2
  <2>3. Upto(h, n + 1)
    <3> HIDE DEF h
    <3>1. h = [m \in 0 .. n + 1 |-> h[m]]
      BY DEF h
    <3> QED BY <2>2, <3>1
  <2> HIDE DEF h, Upto
  <2> QED BY <1>2, <2>3
<1> HIDE DEF S
<1>3. 0 .. Len(records) \subseteq S
  BY <1>1, <1>2, InductionFrom
<1>4. Len(records) \in S
  BY <1>3
<1> QED BY <1>4 DEF S, IsReplay

LEMMA ReplaySteps ==
  ASSUME NEW f, NEW records, Len(records) \in Nat, IsReplay(f, records)
  PROVE  /\ f[0] = EmptyKeyspace
         /\ \A n \in 1 .. Len(records) : f[n] = Apply(f[n - 1], records[n])
BY DEF IsReplay

(* ... and of any two logs, it is the same as far as the logs are.         *)
LEMMA ReplayUnique ==
  ASSUME NEW f, NEW g, NEW s, NEW t, Len(s) \in Nat, Len(t) \in Nat,
         IsReplay(f, s), IsReplay(g, t), NEW n \in 0 .. Len(s), n <= Len(t),
         \A i \in 1 .. n : s[i] = t[i]
  PROVE  f[n] = g[n]
<1> DEFINE S == {m \in Nat : f[m] = g[m]}
<1>1. 0 \in S
  BY ReplaySteps
<1>2. ASSUME NEW m \in 0 .. n, m \in S, m < n
      PROVE  m + 1 \in S
  <2>1. m + 1 \in 1 .. n /\ m + 1 \in 1 .. Len(s) /\ m + 1 \in 1 .. Len(t)
        /\ (m + 1) - 1 = m
    BY <1>2
  <2>2. f[m + 1] = Apply(f[m], s[m + 1]) /\ g[m + 1] = Apply(g[m], t[m + 1])
    BY <2>1, ReplaySteps
  <2> QED BY <1>2, <2>1, <2>2
<1>0. n \in Nat
  OBVIOUS
<1> HIDE DEF S
<1>3. 0 .. n \subseteq S
  BY <1>0, <1>1, <1>2, InductionFrom
<1>4. n \in S
  BY <1>3
<1> QED BY <1>4 DEF S

LEMMA ReplayEmpty == Replay(<<>>) = EmptyKeyspace
<1>1. Len(<<>>) = 0
  OBVIOUS
<1>2. IsReplay(CHOOSE f : IsReplay(f, <<>>), <<>>)
  BY <1>1, ReplayExists
<1> QED BY <1>1, <1>2, ReplayChoice, ReplaySteps

(* A record is applied to what the records before it have left.            *)
LEMMA ReplayAppend ==
  ASSUME NEW s \in Seq(LogRecord), NEW r \in LogRecord
  PROVE  Replay(Append(s, r)) = Apply(Replay(s), r)
<1> DEFINE t == Append(s, r)
           f == CHOOSE f : IsReplay(f, s)
           g == CHOOSE g : IsReplay(g, t)
           n == Len(s)
<1>1. /\ n \in Nat /\ Len(t) = n + 1 /\ t[n + 1] = r
      /\ \A i \in 1 .. n : t[i] = s[i]
  OBVIOUS
<1> HIDE DEF t, n
<1>2. IsReplay(f, s) /\ IsReplay(g, t)
  BY <1>1, ReplayExists DEF n
<1>3. Replay(s) = f[n] /\ Replay(t) = g[n + 1]
  BY <1>1, ReplayChoice DEF n
<1> HIDE DEF f, g
<1>4. f[n] = g[n]
  BY <1>1, <1>2, ReplayUnique DEF n
<1>5. g[n + 1] = Apply(g[n], t[n + 1])
  <2>1. n + 1 \in 1 .. Len(t) /\ (n + 1) - 1 = n
    BY <1>1
  <2> QED BY <1>1, <1>2, <2>1, ReplaySteps, SMTT(20)
<1> QED BY <1>1, <1>3, <1>4, <1>5 DEF t

LEMMA ReplayStates ==
  ASSUME NEW f, NEW s \in Seq(LogRecord), IsReplay(f, s), NEW n \in 0 .. Len(s)
  PROVE  WellFormed(f[n])
<1> DEFINE S == {m \in Nat : WellFormed(f[m])}
<1>0. n \in Nat /\ Len(s) \in Nat
  OBVIOUS
<1>1. 0 \in S
  BY <1>0, ReplaySteps, EmptyWellFormed
<1>2. ASSUME NEW m \in 0 .. n, m \in S, m < n
      PROVE  m + 1 \in S
  <2>1. m + 1 \in 1 .. Len(s) /\ (m + 1) - 1 = m /\ m + 1 \in Nat
    BY <1>0, <1>2
  <2>2. f[m + 1] = Apply(f[m], s[m + 1]) /\ s[m + 1] \in LogRecord
    BY <1>0, <2>1, ReplaySteps
  <2> QED BY <1>2, <2>1, <2>2, ApplyWellFormed
<1> HIDE DEF S
<1>3. 0 .. n \subseteq S
  BY <1>0, <1>1, <1>2, InductionFrom
<1>4. n \in S
  BY <1>0, <1>3
<1> QED BY <1>4 DEF S

(* Whatever the log, what is rebuilt from it is well formed.               *)
LEMMA ReplayWellFormed ==
  ASSUME NEW s \in Seq(LogRecord)
  PROVE  WellFormed(Replay(s))
<1> DEFINE f == CHOOSE f : IsReplay(f, s)
<1>1. IsReplay(f, s)
  BY ReplayExists
<1>2. Replay(s) = f[Len(s)] /\ Len(s) \in 0 .. Len(s)
  BY ReplayChoice
<1> HIDE DEF f
<1> QED BY <1>1, <1>2, ReplayStates

LEMMA PrefixOf ==
  ASSUME NEW s \in Seq(LogRecord), NEW n \in 0 .. Len(s)
  PROVE  /\ SubSeq(s, 1, n) \in Seq(LogRecord) /\ Len(SubSeq(s, 1, n)) = n
         /\ \A i \in 1 .. n : SubSeq(s, 1, n)[i] = s[i]
<1>1. n \in Nat /\ n <= Len(s)
  OBVIOUS
<1> QED BY <1>1

(* What the end of a log is not about, it does not change.                 *)
LEMMA ReplayPrefix ==
  ASSUME NEW s \in Seq(LogRecord), NEW n \in 0 .. Len(s), NEW k \in Key,
         \A i \in n + 1 .. Len(s) : k \notin Named(s[i])
  PROVE  /\ Replay(SubSeq(s, 1, n)).data[k] = Replay(s).data[k]
         /\ Replay(SubSeq(s, 1, n)).expires[k] = Replay(s).expires[k]
<1> DEFINE p == SubSeq(s, 1, n)
           f == CHOOSE f : IsReplay(f, s)
           g == CHOOSE g : IsReplay(g, p)
           S == {m \in Nat : f[m].data[k] = f[n].data[k] /\ f[m].expires[k] = f[n].expires[k]}
<1>0. n \in Nat /\ Len(s) \in Nat /\ n <= Len(s)
  OBVIOUS
<1>1. Len(p) = n /\ \A i \in 1 .. n : p[i] = s[i]
  BY PrefixOf
<1> HIDE DEF p
<1>2. IsReplay(f, s) /\ IsReplay(g, p)
  BY <1>0, <1>1, ReplayExists
<1>3. Replay(s) = f[Len(s)] /\ Replay(p) = g[n]
  BY <1>1, ReplayChoice
<1> HIDE DEF f, g
<1>4. g[n] = f[n]
  <2>1. n \in 0 .. Len(p) /\ Len(p) \in Nat
    BY <1>0, <1>1
  <2> QED BY <1>0, <1>1, <1>2, <2>1, ReplayUnique
<1>5. n \in S
  BY <1>0
<1>6. ASSUME NEW m \in n .. Len(s), m \in S, m < Len(s)
      PROVE  m + 1 \in S
  <2>1. /\ m + 1 \in 1 .. Len(s) /\ (m + 1) - 1 = m /\ m + 1 \in Nat
        /\ m \in 0 .. Len(s) /\ m + 1 \in n + 1 .. Len(s)
    BY <1>0, <1>6
  <2>2. f[m + 1] = Apply(f[m], s[m + 1]) /\ s[m + 1] \in LogRecord
    BY <1>0, <1>2, <2>1, ReplaySteps
  <2>3. k \in Key \ Named(s[m + 1])
    BY <2>1
  <2>4. f[m + 1].data[k] = f[m].data[k] /\ f[m + 1].expires[k] = f[m].expires[k]
    BY <1>2, <2>1, <2>2, <2>3, ReplayStates, ApplyElsewhere
  <2> QED BY <1>6, <2>1, <2>4
<1> HIDE DEF S
<1>7. n .. Len(s) \subseteq S
  BY <1>0, <1>5, <1>6, InductionFrom
<1>8. Len(s) \in S
  BY <1>0, <1>7
<1> QED BY <1>3, <1>4, <1>8 DEF S, p

-----------------------------------------------------------------------------
(* What a command owes the journal.  Either clients see nothing of it, or  *)
(* its record does to any keyspace that looks like the store's what the    *)
(* command did to the store.                                               *)
Unseen == entry' = None /\ Agree(db', db, now')

Recorded ==
  /\ call' = None
  /\ entry' \in LogRecord
  /\ \A d : WellFormed(d) /\ Agree(d, db, now) => Agree(Apply(d, entry'), db', now')

Journalled == now' \in Int /\ now <= now' /\ (Unseen \/ Recorded)

LEMMA AgreeSelf == \A d, t : Agree(d, d, t)
BY DEF Agree, Same

LEMMA DropUnseen ==
  ASSUME NEW d, WellFormed(d), NEW key \in Key, NEW t
  PROVE  /\ WellFormed(DropIfExpired(d, key, t))
         /\ Agree(DropIfExpired(d, key, t), d, t)
<1>1. key \in ExpiredAt(d, t) => Agree(Removed(d, {key}), d, t)
  BY AgreeReclaimed
<1> QED BY <1>1, AgreeSelf, DropIfExpiredWellFormed DEF DropIfExpired

(* A write puts the same under its key whatever was there.                 *)
LEMMA CommitRecorded ==
  ASSUME NEW d, WellFormed(d), NEW e, WellFormed(e), NEW t, Agree(d, e, t),
         NEW w \in Pending,
         NEW r, r = SetRecord(w.key, Commit(e, w).data[w.key], Commit(e, w).expires[w.key])
  PROVE  r \in LogRecord /\ r.op = "SET" /\ r.key = w.key /\ Agree(Apply(d, r), Commit(e, w), t)
<1> DEFINE c == Commit(e, w)
<1>1. w.key \in Key /\ w.value \in Value /\ w.deadline \in Int64 \cup {None}
  BY DEF Pending
<1>2. /\ e.data \in [Key -> Value \cup {None}]
      /\ e.expires \in [Key -> Int64 \cup {None}]
      /\ e \in KeyspaceType
  BY WellFormedTables DEF Tables
<1>3. /\ c.data = [e.data EXCEPT ![w.key] = w.value]
      /\ c.expires = [e.expires EXCEPT ![w.key] = IF w.op = "set" THEN w.deadline
                                                  ELSE e.expires[w.key]]
  BY <1>2, CommitData
<1> HIDE DEF c
<1>4. /\ c.data[w.key] = w.value /\ c.expires[w.key] \in Int64 \cup {None}
      /\ \A k \in Key \ {w.key} : c.data[k] = e.data[k] /\ c.expires[k] = e.expires[k]
  BY <1>1, <1>2, <1>3
<1>5. r \in LogRecord
  BY <1>1, <1>4, RecordsTyped DEF c
<1>6. /\ r.op = "SET" /\ r.key = w.key
      /\ r.value = c.data[w.key] /\ r.deadline = c.expires[w.key]
  BY DEF SetRecord, c
<1>7. ASSUME NEW k \in Key
      PROVE  Same(Apply(d, r), c, k, t)
  <2>1. /\ Apply(d, r).data[k] = IF k = r.key THEN r.value ELSE d.data[k]
        /\ Apply(d, r).expires[k] = IF k = r.key THEN r.deadline ELSE d.expires[k]
    BY <1>5, <1>6, ApplySet
  <2>2. CASE k = w.key
    BY <1>6, <2>1, <2>2, SameEntry
  <2>3. CASE k # w.key
    <3>1. Same(Apply(d, r), d, k, t) /\ Same(e, c, k, t) /\ Same(d, e, k, t)
      BY <1>4, <1>6, <2>1, <2>3, SameEntry DEF Agree
    <3> QED BY <3>1, SameTrans
  <2> QED BY <2>2, <2>3
<1> QED BY <1>5, <1>6, <1>7 DEF Agree, c

(* The three ways out of _admit.                                           *)
LEMMA AdmitWays ==
  ASSUME StoreInv, call = None, NEW e, WellFormed(e), Agree(e, db, now),
         NEW w \in Pending, Admit(e, w)
  PROVE  /\ now' \in Int /\ now <= now'
         /\ \/ /\ call' = None /\ db' = Commit(e, w) /\ now' = now
               /\ result'.ret = IF w.op = "incr" THEN w.value ELSE None
            \/ call' = None /\ Agree(db', db, now') /\ result'.ret = OutOfMemoryError
            \/ call' = w /\ Agree(db', db, now')
<1>0. /\ now \in Int /\ MaxTime \in Int /\ Tables(db) /\ Tables(e)
  BY NowIsInt, StoreAssumption, WellFormedTables
<1>1. CASE Fits(e, w) /\ db' = Commit(e, w) /\ Done(w) /\ UNCHANGED <<now, call>>
  BY <1>0, <1>1 DEF Done
<1>2. CASE db' = e /\ Answer(w.op, OutOfMemoryError) /\ UNCHANGED <<now, call>>
  BY <1>0, <1>2
<1>3. CASE /\ \E t \in now .. MaxTime : now' = t /\ db' = DropExpired(e, t)
           /\ call' = w
  <2>1. PICK t \in now .. MaxTime : now' = t /\ db' = DropExpired(e, t)
    BY <1>3
  <2>2. t \in Int /\ now <= t
    BY <1>0
  <2>3. Agree(db', e, t)
    BY <2>1, AgreeReclaimed DEF DropExpired
  <2>4. Agree(e, db, t)
    BY <1>0, <2>2, AgreeLater
  <2>5. Agree(db', db, t)
    BY <2>3, <2>4, AgreeTrans
  <2> QED BY <1>3, <2>1, <2>2, <2>5
<1> QED BY <1>1, <1>2, <1>3 DEF Admit

LEMMA WriteJournalled ==
  ASSUME StoreInv, call = None, NEW e, WellFormed(e), Agree(e, db, now),
         NEW w \in Pending, Admit(e, w), w.op \in {"set", "incr"},
         w.op = "incr" => w.value \in Int64,
         entry' = IF /\ call' = None
                     /\ IF w.op = "set" THEN result'.ret = None ELSE result'.ret \in Int64
                    THEN WriteRecord(w.key) ELSE None
  PROVE  Journalled
<1>1. CASE /\ call' = None /\ db' = Commit(e, w) /\ now' = now
           /\ result'.ret = IF w.op = "incr" THEN w.value ELSE None
  <2>1. entry' = WriteRecord(w.key)
    BY <1>1
  <2>2. entry' = SetRecord(w.key, Commit(e, w).data[w.key], Commit(e, w).expires[w.key])
    BY <1>1, <2>1 DEF WriteRecord
  <2>3. ASSUME NEW d, WellFormed(d), Agree(d, db, now)
        PROVE  entry' \in LogRecord /\ Agree(Apply(d, entry'), db', now')
    <3>1. Agree(d, e, now)
      BY <2>3, AgreeSym, AgreeTrans
    <3> QED BY <1>1, <2>2, <2>3, <3>1, CommitRecorded
  <2>4. WellFormed(e) /\ Agree(e, db, now)
    OBVIOUS
  <2> QED BY <1>1, <2>3, <2>4, NowIsInt DEF Journalled, Recorded
<1>2. CASE call' = None /\ Agree(db', db, now') /\ result'.ret = OutOfMemoryError
  <2>1. OutOfMemoryError \notin Int64 /\ OutOfMemoryError # None
    BY DurabilityAssumption DEF Int64
  <2> QED BY <1>2, <2>1, AdmitWays DEF Journalled, Unseen
<1>3. CASE call' = w /\ Agree(db', db, now')
  BY <1>3, AdmitWays, DurabilityAssumption DEF Journalled, Unseen
<1> QED BY <1>1, <1>2, <1>3, AdmitWays

LEMMA SetJournalled ==
  ASSUME StoreInv, NEW key \in Key, NEW value \in SetValues,
         NEW ttl \in Ttls \cup {None}, SetCommand(key, value, ttl)
  PROVE  Journalled
<1>0. /\ call = None /\ WellFormed(db) /\ now \in Int /\ now \in Nat
      /\ Set(key, value, ttl)
      /\ entry' = IF call' = None /\ result'.ret = None THEN WriteRecord(key) ELSE None
  BY NowIsInt DEF SetCommand, Set, Journals, StoreInv, TypeOK
<1>1. CASE ttl # None /\ BadTtl(ttl, now)
  <2>1. db' = db /\ now' = now /\ result' = [op |-> "set", ret |-> InvalidExpireError]
    BY <1>0, <1>1 DEF Set
  <2>2. entry' = None
    BY <1>0, <2>1, DurabilityAssumption
  <2> QED BY <1>0, <2>1, <2>2, AgreeSelf DEF Journalled, Unseen
<1>2. CASE ~(ttl # None /\ BadTtl(ttl, now))
  <2> DEFINE w == [op |-> "set", key |-> key, value |-> value,
                   deadline |-> IF ttl = None THEN None ELSE now + ttl]
  <2>1. Admit(db, w)
    BY <1>0, <1>2 DEF Set
  <2>2. w \in Pending
    <3>1. ttl # None => now + ttl \in Int64
      <4> SUFFICES ASSUME ttl # None PROVE now + ttl \in Int64
        OBVIOUS
      <4>1. ttl \in Int
        BY StoreAssumption
      <4>2. ~(ttl <= 0) /\ ~(now + ttl > INT64_MAX)
        BY <1>2 DEF BadTtl
      <4> QED BY <1>0, <4>1, <4>2, KeyspaceAssumption DEF Int64
    <3> QED BY <3>1, StoreAssumption DEF Pending
  <2>3. w.op = "set" /\ w.key = key
    OBVIOUS
  <2> HIDE DEF w
  <2>4. entry' = IF call' = None /\ result'.ret = None THEN WriteRecord(w.key) ELSE None
    BY <1>0, <2>3
  <2> QED BY <1>0, <2>1, <2>2, <2>3, <2>4, AgreeSelf, WriteJournalled
<1> QED BY <1>1, <1>2

LEMMA IncrJournalled ==
  ASSUME StoreInv, NEW key \in Key, IncrCommand(key)
  PROVE  Journalled
<1> DEFINE d   == DropIfExpired(db, key, now)
           raw == d.data[key]
           old == IF raw = None THEN 0 ELSE raw
           w   == [op |-> "incr", key |-> key, value |-> old + 1,
                   deadline |-> d.expires[key]]
<1>0. /\ call = None /\ WellFormed(db) /\ now \in Int /\ Incr(key)
      /\ entry' = IF call' = None /\ result'.ret \in Int64 THEN WriteRecord(key) ELSE None
  BY NowIsInt DEF IncrCommand, Incr, Journals
<1>1. WellFormed(d) /\ Agree(d, db, now)
  BY <1>0, DropUnseen
<1>2. raw \in Value \cup {None} /\ d.expires[key] \in Int64 \cup {None}
  <2> HIDE DEF d
  <2> QED BY <1>1, WellFormedTables DEF Tables
<1>3. CASE raw \in Text \/ raw = INT64_MAX
  <2>1. INT64_MAX \notin Text
    BY KeyspaceAssumption
  <2>2. /\ db' = d /\ now' = now
        /\ result'.ret \in {NotAnIntegerError, IntegerOverflowError}
    <3> HIDE DEF raw
    <3> QED BY <1>0, <1>3, <2>1 DEF Incr, raw
  <2>3. entry' = None
    BY <1>0, <2>2, DurabilityAssumption DEF Int64
  <2> HIDE DEF d
  <2> QED BY <1>0, <1>1, <2>2, <2>3 DEF Journalled, Unseen
<1>4. CASE raw \notin Text /\ raw # INT64_MAX
  <2>1. Admit(d, w)
    <3> HIDE DEF raw
    <3> QED BY <1>0, <1>4 DEF Incr, raw
  <2>2. old + 1 \in Int64
    <3> HIDE DEF raw
    <3> QED BY <1>2, <1>4, KeyspaceAssumption DEF Value, Int64
  <2>3. w \in Pending
    <3> HIDE DEF d, old
    <3> QED BY <1>2, <2>2 DEF Pending, Value
  <2>4. w.op = "incr" /\ w.key = key /\ w.value \in Int64
    <3> HIDE DEF old
    <3> QED BY <2>2
  <2> HIDE DEF w, d
  <2>5. entry' = IF call' = None /\ result'.ret \in Int64 THEN WriteRecord(w.key) ELSE None
    BY <1>0, <2>4
  <2> QED BY <1>0, <1>1, <2>1, <2>3, <2>4, <2>5, WriteJournalled
<1> QED BY <1>3, <1>4

(* A deletion that found nothing alive removed what had expired.           *)
LEMMA DeleteJournalled ==
  ASSUME StoreInv, NEW ks \in KeyArgs, DeleteCommand(ks)
  PROVE  Journalled
<1> DEFINE n == Len(ks)
           named == {ks[i] : i \in DOMAIN ks}
<1>0. /\ WellFormed(db) /\ db \in KeyspaceType /\ now \in Int /\ call = None /\ call' = None
      /\ entry' = IF result'.ret > 0 THEN DeleteRecord(named) ELSE None
  BY NowIsInt DEF DeleteCommand, Delete, Journals
<1>1. PICK ts \in Readings(n) :
        /\ now' = ts[n]
        /\ db' = Removed(db, named \cap Present(db))
        /\ result' = [op |-> "delete",
                      ret |-> Cardinality({i \in DOMAIN ks :
                                /\ AliveAt(db, ks[i], ts[i])
                                /\ \A j \in 1 .. i - 1 : ks[j] # ks[i]})]
  BY DEF DeleteCommand, Delete
<1>2. DOMAIN ks = 1 .. n /\ n \in Nat /\ n \in 1 .. n
      /\ \A i \in 1 .. n : ks[i] \in Key
  <2>1. ks \in Seq(Key) /\ ks # <<>>
    BY StoreAssumption
  <2> QED BY <2>1
<1> HIDE DEF n
<1>3. now' \in Int /\ now <= now'
      /\ \A i \in 1 .. n : ts[i] \in Int /\ now <= ts[i] /\ ts[i] <= now'
  BY <1>1, <1>2, ReadingsGoUp
<1>4. named \in SUBSET Key
  BY <1>2
<1> DEFINE hits == {i \in DOMAIN ks : /\ AliveAt(db, ks[i], ts[i])
                                      /\ \A j \in 1 .. i - 1 : ks[j] # ks[i]}
<1>5. /\ WellFormed(db')
      /\ \A k \in Key :
           /\ db'.data[k] = IF k \in named THEN None ELSE db.data[k]
           /\ db'.expires[k] = IF k \in named THEN None ELSE db.expires[k]
  <2> HIDE DEF named
  <2> QED BY <1>0, <1>1, <1>4, RemovedTables
<1>6. CASE hits = {}
  <2>1. ASSUME NEW k \in named
        PROVE  ~AliveAt(db, k, now')
    <3> SUFFICES ASSUME AliveAt(db, k, now') PROVE FALSE
      OBVIOUS
    <3> DEFINE T == {i \in 1 .. n : ks[i] = k}
    <3>1. PICK i \in T : \A j \in T : i <= j
      <4>1. T \in SUBSET Nat /\ T # {}
        BY <1>2
      <4> HIDE DEF T
      <4> QED BY <4>1, LeastNat
    <3>2. i \in 1 .. n /\ ks[i] = k /\ k \in Key
      BY <1>2, <3>1
    <3>3. \A j \in 1 .. i - 1 : ks[j] # ks[i]
      BY <1>2, <3>1, <3>2
    <3>4. AliveAt(db, ks[i], ts[i])
      BY <1>0, <1>3, <3>2, AliveBefore
    <3> QED BY <1>2, <1>6, <3>2, <3>3, <3>4
  <2>2. result'.ret = 0
    BY <1>1, <1>6, FS_EmptySet
  <2>3. entry' = None
    BY <1>0, <2>2
  <2> HIDE DEF named
  <2>4. Agree(db', db, now')
    BY <1>5, <2>1 DEF Agree, Same, AliveAt, ExpiredAt, Present
  <2> QED BY <1>3, <2>3, <2>4 DEF Journalled, Unseen
<1>7. CASE hits # {}
  <2>1. IsFiniteSet(hits)
    <3>1. IsFiniteSet(1 .. n) /\ hits \in SUBSET (1 .. n)
      BY <1>2, FS_Interval
    <3> HIDE DEF hits
    <3> QED BY <3>1, FS_Subset
  <2>2. result'.ret = Cardinality(hits)
    BY <1>1
  <2> HIDE DEF hits, named
  <2>3. Cardinality(hits) \in Nat /\ Cardinality(hits) # 0
    BY <1>7, <2>1, FS_EmptySet, FS_CardinalityType
  <2>4. entry' = DeleteRecord(named)
    BY <1>0, <2>2, <2>3
  <2>5. entry' \in LogRecord /\ entry'.op = "DEL" /\ entry'.keys = named
    BY <1>4, <2>4, RecordsTyped DEF DeleteRecord
  <2>6. ASSUME NEW d, WellFormed(d), Agree(d, db, now)
        PROVE  Agree(Apply(d, entry'), db', now')
    <3>1. \A k \in Key :
            /\ Apply(d, entry').data[k] = IF k \in named THEN None ELSE d.data[k]
            /\ Apply(d, entry').expires[k] = IF k \in named THEN None ELSE d.expires[k]
      BY <2>5, <2>6, ApplyDelete
    <3>2. Agree(d, db, now')
      BY <1>0, <1>3, <2>6, AgreeLater, WellFormedTables
    <3> QED BY <1>5, <3>1, <3>2 DEF Agree, Same, AliveAt, ExpiredAt, Present
  <2> QED BY <1>0, <1>3, <2>5, <2>6 DEF Journalled, Recorded
<1> QED BY <1>6, <1>7

LEMMA ExpireJournalled ==
  ASSUME StoreInv, NEW key \in Key, NEW ttl \in Ttls, ExpireCommand(key, ttl)
  PROVE  Journalled
<1> DEFINE c == DropIfExpired(db, key, now)
<1>0. /\ WellFormed(db) /\ now \in Int /\ call = None /\ call' = None
      /\ MaxTime \in Int /\ ttl \in Int
      /\ entry' = IF result'.ret = 1
                    THEN IF db'.expires[key] = None THEN DeleteRecord({key})
                         ELSE ExpireRecord(key, db'.expires[key])
                    ELSE None
      /\ \/ /\ db' = c /\ result'.ret = 0 /\ now' = now
         \/ /\ key \in Present(c) /\ db' = Removed(c, {key})
            /\ result'.ret = 1 /\ now' = now
         \/ /\ key \in Present(c) /\ ttl > 0
            /\ \E t \in now .. MaxTime :
                 /\ now' = t
                 /\ \/ db' = c /\ result'.ret = InvalidExpireError
                    \/ /\ ~BadTtl(ttl, t) /\ db' = WithDeadline(c, key, t + ttl)
                       /\ result'.ret = 1
  BY NowIsInt, StoreAssumption DEF ExpireCommand, Expire, Journals
<1>1. WellFormed(c) /\ Agree(c, db, now)
  BY <1>0, DropUnseen
<1> HIDE DEF c
<1>2. Tables(c) /\ Tables(db)
  BY <1>0, <1>1, WellFormedTables
<1>3. CASE db' = c /\ result'.ret = 0 /\ now' = now
  BY <1>0, <1>1, <1>3 DEF Journalled, Unseen
<1>4. CASE key \in Present(c) /\ db' = Removed(c, {key}) /\ result'.ret = 1 /\ now' = now
  <2>1. /\ db'.expires[key] = None /\ db'.data[key] = None
        /\ \A k \in Key \ {key} : /\ db'.data[k] = c.data[k]
                                  /\ db'.expires[k] = c.expires[k]
    BY <1>4 DEF Removed
  <2>2. entry' = DeleteRecord({key})
    BY <1>0, <1>4, <2>1
  <2>3. entry' \in LogRecord /\ entry'.op = "DEL" /\ entry'.keys = {key}
    BY <2>2, RecordsTyped DEF DeleteRecord
  <2>4. ASSUME NEW d, WellFormed(d), Agree(d, db, now)
        PROVE  Agree(Apply(d, entry'), db', now')
    <3>1. \A k \in Key :
            /\ Apply(d, entry').data[k] = IF k \in {key} THEN None ELSE d.data[k]
            /\ Apply(d, entry').expires[k] = IF k \in {key} THEN None ELSE d.expires[k]
      BY <2>3, <2>4, ApplyDelete
    <3>2. Agree(d, c, now)
      BY <1>1, <2>4, AgreeSym, AgreeTrans
    <3> QED BY <1>4, <2>1, <3>1, <3>2, SMTT(20) DEF Agree, Same, AliveAt, ExpiredAt, Present
  <2> QED BY <1>0, <1>4, <2>3, <2>4, SMTT(20) DEF Journalled, Recorded
<1>5. ASSUME key \in Present(c), ttl > 0, NEW t \in now .. MaxTime, now' = t,
             \/ db' = c /\ result'.ret = InvalidExpireError
             \/ /\ ~BadTtl(ttl, t) /\ db' = WithDeadline(c, key, t + ttl)
                /\ result'.ret = 1
      PROVE  Journalled
  <2>1. t \in Int /\ now <= t
    BY <1>0
  <2>2. CASE db' = c /\ result'.ret = InvalidExpireError
    <3>1. entry' = None
      BY <1>0, <2>2, DurabilityAssumption
    <3>2. Agree(db', db, now')
      BY <1>0, <1>1, <1>2, <1>5, <2>1, <2>2, AgreeLater
    <3> QED BY <1>5, <2>1, <3>1, <3>2 DEF Journalled, Unseen
  <2>3. CASE /\ ~BadTtl(ttl, t) /\ db' = WithDeadline(c, key, t + ttl)
             /\ result'.ret = 1
    <3>1. t + ttl \in Int64 /\ t + ttl # None
      <4>1. ~(t + ttl > INT64_MAX) /\ t \in Nat
        BY <1>5, <2>1, <2>3 DEF BadTtl, StoreInv, TypeOK
      <4> QED BY <1>0, <1>5, <2>1, <4>1, KeyspaceAssumption DEF Int64
    <3>2. \A k \in Key : /\ db'.data[k] = c.data[k]
                         /\ db'.expires[k] = IF k = key THEN t + ttl ELSE c.expires[k]
      BY <1>1, <2>3, WithDeadlineTables
    <3>3. entry' = ExpireRecord(key, t + ttl)
      BY <1>0, <2>3, <3>1, <3>2
    <3>4. /\ entry' \in LogRecord /\ entry'.op = "PEXPIREAT"
          /\ entry'.key = key /\ entry'.deadline = t + ttl
      BY <3>1, <3>3, RecordsTyped DEF ExpireRecord
    <3>5. AliveAt(c, key, now)
      BY <1>1, <1>5 DEF Agree, Same, AliveAt, c, DropIfExpired, Removed, Present, ExpiredAt
    <3>6. ASSUME NEW d, WellFormed(d), Agree(d, db, now), NEW k \in Key
          PROVE  Same(Apply(d, entry'), db', k, now')
      <4>1. Same(d, c, key, now) /\ Same(d, c, k, now)
        BY <1>1, <3>6, AgreeSym, AgreeTrans DEF Agree
      <4>2. key \in Present(d) /\ d.data[key] = c.data[key]
        BY <3>5, <4>1 DEF Same, AliveAt
      <4>3. /\ Apply(d, entry').data[k] = d.data[k]
            /\ Apply(d, entry').expires[k] = IF k = key THEN t + ttl ELSE d.expires[k]
        BY <3>4, <3>6, <4>2, ApplyExpire
      <4>4. CASE k = key
        BY <3>2, <4>2, <4>3, <4>4, SameEntry
      <4>5. CASE k # key
        <5>1. Same(d, c, k, now')
          BY <1>0, <1>2, <1>5, <2>1, <3>6, <4>1, SameLater, WellFormedTables
        <5> QED BY <3>2, <4>3, <4>5, <5>1, SameEntry, SameTrans
      <4> QED BY <4>4, <4>5
    <3> QED BY <1>0, <1>5, <2>1, <3>4, <3>6 DEF Journalled, Recorded, Agree
  <2> QED BY <1>5, <2>2, <2>3
<1> QED BY <1>0, <1>3, <1>4, <1>5

LEMMA PersistJournalled ==
  ASSUME StoreInv, NEW key \in Key, PersistCommand(key)
  PROVE  Journalled
<1> DEFINE c   == DropIfExpired(db, key, now)
           has == key \in Present(c) /\ c.expires[key] # None
<1>0. /\ WellFormed(db) /\ now \in Int /\ call = None /\ call' = None /\ now' = now
      /\ entry' = IF result'.ret = 1 THEN PersistRecord(key) ELSE None
      /\ db' = IF has THEN WithDeadline(c, key, None) ELSE c
      /\ result'.ret = IF has THEN 1 ELSE 0
  BY NowIsInt DEF PersistCommand, Persist, Journals
<1>1. WellFormed(c) /\ Agree(c, db, now)
  BY <1>0, DropUnseen
<1>2. key \in Present(c) => AliveAt(c, key, now)
  BY DEF AliveAt, DropIfExpired, Removed, Present, ExpiredAt
<1> HIDE DEF c
<1>3. CASE ~has
  BY <1>0, <1>1, <1>3 DEF Journalled, Unseen
<1>4. CASE has
  <2>1. \A k \in Key : /\ db'.data[k] = c.data[k]
                       /\ db'.expires[k] = IF k = key THEN None ELSE c.expires[k]
    BY <1>0, <1>1, <1>4, WithDeadlineTables
  <2>2. entry' \in LogRecord /\ entry'.op = "PERSIST" /\ entry'.key = key
    BY <1>0, <1>4, RecordsTyped DEF PersistRecord
  <2>3. ASSUME NEW d, WellFormed(d), Agree(d, db, now), NEW k \in Key
        PROVE  Same(Apply(d, entry'), db', k, now')
    <3>1. Same(d, c, key, now) /\ Same(d, c, k, now)
      BY <1>1, <2>3, AgreeSym, AgreeTrans DEF Agree
    <3>2. d.data[key] = c.data[key]
      BY <1>2, <1>4, <3>1 DEF Same
    <3>3. /\ Apply(d, entry').data[k] = d.data[k]
          /\ Apply(d, entry').expires[k] = IF k = key THEN None ELSE d.expires[k]
      BY <2>2, <2>3, ApplyPersist
    <3>4. CASE k = key
      BY <2>1, <3>2, <3>3, <3>4, SameEntry
    <3>5. CASE k # key
      BY <1>0, <2>1, <3>1, <3>3, <3>5, SameEntry, SameTrans
    <3> QED BY <3>4, <3>5
  <2> QED BY <1>0, <2>2, <2>3 DEF Journalled, Recorded, Agree
<1> QED BY <1>3, <1>4

LEMMA FlushJournalled ==
  ASSUME StoreInv, FlushdbCommand
  PROVE  Journalled
<1>1. /\ now \in Int /\ now' = now /\ call' = None
      /\ db' = Flushed(db) /\ entry' = FlushRecord
  BY NowIsInt DEF FlushdbCommand, Flushdb, Journals, Admitted, Quiet
<1>2. entry' \in LogRecord /\ entry'.op = "FLUSHDB"
  BY <1>1, RecordsTyped DEF FlushRecord
<1>3. ASSUME NEW d, WellFormed(d)
      PROVE  Agree(Apply(d, entry'), db', now')
  <2>1. \A k \in Key : Apply(d, entry').data[k] = None
    BY <1>2, <1>3, ApplyFlush
  <2>2. \A k \in Key : db'.data[k] = None
    BY <1>1 DEF Flushed, EmptyKeyspace
  <2> QED BY <2>1, <2>2 DEF Agree, Same, AliveAt, Present
<1> QED BY <1>1, <1>2, <1>3 DEF Journalled, Recorded

LEMMA MutationJournalled ==
  ASSUME StoreInv, Mutation
  PROVE  Journalled
BY SetJournalled, IncrJournalled, ExpireJournalled, PersistJournalled,
   DeleteJournalled, FlushJournalled DEF Mutation

-----------------------------------------------------------------------------
(* The phases of a command: eviction, the write, the victims' records, the *)
(* write's own.                                                            *)

Busy == call # None \/ evicted # {} \/ victims # {} \/ entry # None

(* A command that has not finished journalling finds the journal as it was *)
(* when dispatch admitted it.  What it evicts is never the key it writes.  *)
Phases ==
  /\ mode = "loading" <=> journal = "closed"
  /\ Busy => journal = "open"
  /\ journal # "failed" => buffer = None
  /\ call # None => entry = None /\ victims = {} /\ call.key \notin evicted
  /\ evicted # {} => victims = {}
  /\ call = None /\ evicted \cup victims # {} =>
       entry # None /\ entry.op = "SET" /\ entry.key \notin evicted \cup victims

FileOK == FileProofs!FileInv

Kept ==
  /\ victims \subseteq Key
  /\ entry \in LogRecord \cup {None}
  /\ doubtful \subseteq Key
  /\ Tables(settled)

BaseInv == StoreInv /\ FileOK /\ Phases /\ Kept

LEMMA FileFacts ==
  ASSUME FileOK
  PROVE  /\ log \in Seq(LogRecord) /\ Len(log) \in Nat /\ synced \in 0 .. Len(log)
         /\ buffer \in LogRecord \cup {None}
         /\ journal \in {"closed", "open", "failed"}
         /\ policy \in FsyncPolicy
         /\ journal = "open" => tail = "none"
BY DEF FileOK, FileProofs!FileInv, FileProofs!FileTypeOK, FileProofs!CleanWhileOpen

(* The proofs about the journal, for the records of this one.              *)
LEMMA FileKept ==
  ASSUME FileOK,
         \/ File!Open \/ File!Sync \/ File!Close
         \/ \E r \in LogRecord : File!AppendOk(r) \/ File!AppendFail(r)
         \/ \E writing \in BOOLEAN : File!Kill(writing) \/ File!PowerLoss(writing)
  PROVE  FileOK'
<1>0. /\ None \notin LogRecord
      /\ FsyncPolicy \subseteq {"always", "everysec", "no"} /\ FsyncPolicy # {}
      /\ MaxLog \in Nat
  BY DurabilityAssumption
<1>1. CASE File!Open
  <2>1. FileProofs!Open
    BY <1>1 DEF File!Open, FileProofs!Open
  <2> QED BY <1>0, <2>1, FileProofs!OpenKeeps DEF FileProofs!Keeps, FileOK
<1>2. CASE File!Sync
  <2>1. FileProofs!Sync
    BY <1>2 DEF File!Sync, FileProofs!Sync
  <2> QED BY <1>0, <2>1, FileProofs!SyncKeeps DEF FileProofs!Keeps, FileOK
<1>3. CASE File!Close
  <2>1. FileProofs!Close
    BY <1>3 DEF File!Close, FileProofs!Close
  <2> QED BY <1>0, <2>1, FileProofs!CloseKeeps DEF FileProofs!Keeps, FileOK
<1>4. ASSUME NEW r \in LogRecord, File!AppendOk(r)
      PROVE  FileOK'
  <2>1. FileProofs!AppendOk(r)
    BY <1>4 DEF File!AppendOk, FileProofs!AppendOk, File!Land, FileProofs!Land
  <2> QED BY <1>0, <2>1, FileProofs!AppendOkKeeps DEF FileProofs!Keeps, FileOK
<1>5. ASSUME NEW r \in LogRecord, File!AppendFail(r)
      PROVE  FileOK'
  <2>1. FileProofs!AppendFail(r)
    BY <1>5 DEF File!AppendFail, FileProofs!AppendFail, File!Land, FileProofs!Land
  <2> QED BY <1>0, <2>1, FileProofs!AppendFailKeeps DEF FileProofs!Keeps, FileOK
<1>6. ASSUME NEW writing \in BOOLEAN, File!Kill(writing)
      PROVE  FileOK'
  <2>1. FileProofs!Kill(writing)
    BY <1>6 DEF File!Kill, FileProofs!Kill
  <2> QED BY <1>0, <2>1, FileProofs!KillKeeps DEF FileProofs!Keeps, FileOK
<1>7. ASSUME NEW writing \in BOOLEAN, File!PowerLoss(writing)
      PROVE  FileOK'
  <2>1. FileProofs!PowerLoss(writing)
    BY <1>7 DEF File!PowerLoss, FileProofs!PowerLoss
  <2> QED BY <1>0, <2>1, FileProofs!PowerLossKeeps DEF FileProofs!Keeps, FileOK
<1> QED BY <1>1, <1>2, <1>3, <1>4, <1>5, <1>6, <1>7

LEMMA FileStays ==
  ASSUME FileOK, UNCHANGED fileVars
  PROVE  FileOK'
BY DurabilityAssumption, FileProofs!StutterKeeps DEF FileOK, fileVars, FileProofs!fileVars

(* What a mutation leaves alone.                                           *)
LEMMA MutationFrame ==
  ASSUME StoreInv, Mutation
  PROVE  /\ Quiet /\ journal # "failed"
         /\ UNCHANGED <<fileVars, reportVars, victims>>
         /\ evicted' = {} /\ mode' = "serving"
         /\ Operation
<1>1. ASSUME NEW key \in Key, NEW value \in SetValues, NEW ttl \in Ttls \cup {None},
             SetCommand(key, value, ttl)
      PROVE  Admitted /\ Set(key, value, ttl) /\ NoJournalling
             /\ evicted' = evicted /\ mode' = mode
  BY <1>1 DEF SetCommand, Journals, Set, Admit
<1>2. ASSUME NEW key \in Key, IncrCommand(key)
      PROVE  Admitted /\ Incr(key) /\ NoJournalling /\ evicted' = evicted /\ mode' = mode
  BY <1>2 DEF IncrCommand, Journals, Incr, Admit
<1>3. ASSUME NEW key \in Key, NEW ttl \in Ttls, ExpireCommand(key, ttl)
      PROVE  Admitted /\ Expire(key, ttl) /\ NoJournalling
             /\ evicted' = evicted /\ mode' = mode
  BY <1>3 DEF ExpireCommand, Journals, Expire
<1>4. ASSUME NEW key \in Key, PersistCommand(key)
      PROVE  Admitted /\ Persist(key) /\ NoJournalling /\ evicted' = evicted /\ mode' = mode
  BY <1>4 DEF PersistCommand, Journals, Persist
<1>5. ASSUME NEW ks \in KeyArgs, DeleteCommand(ks)
      PROVE  Admitted /\ Delete(ks) /\ NoJournalling /\ evicted' = evicted /\ mode' = mode
  BY <1>5 DEF DeleteCommand, Journals, Delete
<1>6. ASSUME FlushdbCommand
      PROVE  Admitted /\ Flushdb /\ NoJournalling /\ evicted' = evicted /\ mode' = mode
  BY <1>6 DEF FlushdbCommand, Journals, Flushdb
<1>7. Admitted /\ Operation /\ NoJournalling /\ evicted' = evicted /\ mode' = mode
  BY <1>1, <1>2, <1>3, <1>4, <1>5, <1>6 DEF Mutation, Operation
<1> QED BY <1>7 DEF Admitted, Quiet, NoJournalling

(* What reads, the sweep and the clock leave alone.  Clients see nothing   *)
(* of what they do.                                                        *)
Unnoticed ==
  /\ UNCHANGED <<fileVars, reportVars, victims, entry, evicted, mode, call>>
  /\ now' \in Int /\ now <= now'
  /\ Agree(db', db, now')

LEMMA ReadUnnoticed ==
  ASSUME StoreInv, ReadCommand
  PROVE  Operation /\ Unnoticed
<1>0. /\ WellFormed(db) /\ now \in Int
      /\ UNCHANGED <<fileVars, reportVars, victims, entry>>
  BY NowIsInt DEF ReadCommand, NoJournalling
<1>1. ASSUME NEW key \in Key, Get(key)
      PROVE  Operation /\ Unnoticed
  <2> DEFINE d == DropIfExpired(db, key, now)
  <2>1. /\ db' = IF key \in Present(d) THEN Touched(d, key) ELSE d
        /\ UNCHANGED <<evicted, mode, call>> /\ now' = now
    BY <1>1 DEF Get
  <2>2. WellFormed(d) /\ Agree(d, db, now)
    BY <1>0, DropUnseen
  <2> HIDE DEF d
  <2>3. db'.data = d.data /\ db'.expires = d.expires
    BY <2>1 DEF Touched, WellFormed, KeyspaceType
  <2>4. Agree(db', d, now)
    BY <2>3, SameEntry DEF Agree
  <2>5. Agree(db', db, now)
    BY <2>2, <2>4, AgreeTrans
  <2> QED BY <1>0, <1>1, <2>1, <2>5 DEF Unnoticed, Operation
<1>2. ASSUME NEW key \in Key, Ttl(key)
      PROVE  Operation /\ Unnoticed
  <2>1. /\ db' = DropIfExpired(db, key, now)
        /\ UNCHANGED <<evicted, mode, call>> /\ now' = now
    BY <1>2 DEF Ttl
  <2>2. Agree(db', db, now)
    BY <1>0, <2>1, DropUnseen
  <2> QED BY <1>0, <1>2, <2>1, <2>2 DEF Unnoticed, Operation
<1>3. ASSUME NEW ks \in KeyArgs, Exists(ks)
      PROVE  Operation /\ Unnoticed
  <2> DEFINE n == Len(ks)
  <2>1. PICK ts \in Readings(n) :
          /\ now' = ts[n]
          /\ db' = Removed(db, {ks[i] : i \in {j \in DOMAIN ks :
                                                ks[j] \in ExpiredAt(db, ts[j])}})
          /\ UNCHANGED <<evicted, mode, call>>
    BY <1>3 DEF Exists
  <2>2. DOMAIN ks = 1 .. n /\ n \in Nat /\ n \in 1 .. n
        /\ \A i \in 1 .. n : ks[i] \in Key
    <3>1. ks \in Seq(Key) /\ ks # <<>>
      BY StoreAssumption
    <3> QED BY <3>1
  <2> HIDE DEF n
  <2>3. now' \in Int /\ now <= now'
        /\ \A i \in 1 .. n : ts[i] \in Int /\ now <= ts[i] /\ ts[i] <= now'
    BY <2>1, <2>2, ReadingsGoUp
  <2> DEFINE gone == {ks[i] : i \in {j \in DOMAIN ks : ks[j] \in ExpiredAt(db, ts[j])}}
  <2>4. gone \in SUBSET ExpiredAt(db, now')
    <3>1. \A k \in Key : db.expires[k] \in Int \cup {None}
      BY <1>0, KeyspaceAssumption DEF WellFormed, KeyspaceType, Int64
    <3>2. ASSUME NEW j \in 1 .. n, ks[j] \in ExpiredAt(db, ts[j])
          PROVE  ks[j] \in ExpiredAt(db, now')
      <4>1. ts[j] \in Int /\ ts[j] <= now' /\ now' \in Int
        BY <2>3
      <4> QED BY <3>1, <3>2, <4>1 DEF ExpiredAt
    <3> QED BY <2>2, <3>2
  <2> HIDE DEF gone
  <2>5. db' = Removed(db, gone)
    BY <2>1 DEF gone
  <2>6. Agree(db', db, now')
    BY <2>4, <2>5, AgreeReclaimed
  <2> QED BY <1>0, <1>3, <2>1, <2>3, <2>6 DEF Unnoticed, Operation
<1>4. ASSUME Dbsize
      PROVE  Operation /\ Unnoticed
  <2>1. /\ db' = DropExpired(db, now)
        /\ UNCHANGED <<evicted, mode, call>> /\ now' = now
    BY <1>4 DEF Dbsize
  <2>2. Agree(db', db, now)
    BY <2>1, AgreeReclaimed DEF DropExpired
  <2> QED BY <1>0, <1>4, <2>1, <2>2 DEF Unnoticed, Operation
<1> QED BY <1>1, <1>2, <1>3, <1>4 DEF ReadCommand

LEMMA SweepUnnoticed ==
  ASSUME StoreInv, SweeperStep
  PROVE  Unnoticed
<1> DEFINE due   == ExpiredAt(db, now)
           first == Removed(db, sweepCursor \cap due)
<1>0. /\ WellFormed(db) /\ now \in Int /\ now' = now
      /\ UNCHANGED <<fileVars, reportVars, victims, entry, evicted, mode, call>>
  BY NowIsInt DEF SweeperStep, NoJournalling, Sweep
<1>1. \/ \E seen : db' = Removed(db, seen \cap due)
      \/ \E seen : db' = Removed(first, seen \cap due)
  BY DEF SweeperStep, Sweep
<1>2. CASE \E seen : db' = Removed(db, seen \cap due)
  <2>1. Agree(db', db, now)
    BY <1>2, AgreeReclaimed
  <2> QED BY <1>0, <2>1 DEF Unnoticed
<1>3. CASE \E seen : db' = Removed(first, seen \cap due)
  <2>1. PICK seen : db' = Removed(first, seen \cap due)
    BY <1>3
  <2>2. \A k \in Key : \/ db'.data[k] = db.data[k] /\ db'.expires[k] = db.expires[k]
                       \/ k \in due /\ db'.data[k] = None /\ db'.expires[k] = None
    BY <2>1 DEF Removed
  <2>3. Agree(db', db, now)
    BY <2>2 DEF Agree, Same, AliveAt, Present, ExpiredAt
  <2> QED BY <1>0, <2>3 DEF Unnoticed
<1> QED BY <1>1, <1>2, <1>3

LEMMA ClockUnnoticed ==
  ASSUME StoreInv, ClockStep
  PROVE  Unnoticed
<1>1. /\ now \in Int /\ now' = now + 1 /\ db' = db
      /\ UNCHANGED <<fileVars, reportVars, victims, entry, evicted, mode, call>>
  BY NowIsInt DEF ClockStep, Tick, NoJournalling
<1> QED BY <1>1, AgreeSelf DEF Unnoticed

-----------------------------------------------------------------------------
(* Every step keeps the invariant: the steps of the store first, ...       *)

LEMMA StoreUntouched ==
  ASSUME StoreInv, UNCHANGED <<db, now, cursors, evicted, mode, call>>
  PROVE  StoreInv'
BY DEF StoreInv, TypeOK, CallAdmissible

LEMMA UnnoticedBase ==
  ASSUME BaseInv, StoreInv', Unnoticed
  PROVE  BaseInv'
<1>1. FileOK'
  BY FileStays DEF BaseInv, Unnoticed
<1>2. Phases'
  BY DEF BaseInv, Unnoticed, Phases, Busy, fileVars
<1>3. Kept'
  BY DEF BaseInv, Unnoticed, Kept, Tables, reportVars
<1> QED BY <1>1, <1>2, <1>3 DEF BaseInv

LEMMA MutationBase ==
  ASSUME BaseInv, Mutation
  PROVE  BaseInv'
<1>0. StoreInv /\ Phases /\ Kept
  BY DEF BaseInv
<1>1. /\ Quiet /\ journal # "failed"
      /\ UNCHANGED <<fileVars, reportVars, victims>>
      /\ evicted' = {} /\ mode' = "serving" /\ Operation
  BY <1>0, MutationFrame
<1>2. Journalled
  BY <1>0, MutationJournalled
<1>3. StoreInv'
  BY <1>0, <1>1, OperationInv
<1>4. FileOK'
  BY <1>1, FileStays DEF BaseInv
<1>5. journal = "open" /\ buffer = None /\ victims = {} /\ mode = "serving"
  <2>1. journal \in {"closed", "open", "failed"}
    BY FileFacts DEF BaseInv
  <2> QED BY <1>0, <1>1, <2>1 DEF Quiet, Phases
<1>6. Phases'
  <2>1. call' # None => entry' = None
    BY <1>2 DEF Journalled, Unseen, Recorded
  <2> QED BY <1>1, <1>5, <2>1 DEF Phases, Busy, fileVars
<1>7. Kept'
  <2>1. entry' \in LogRecord \cup {None}
    BY <1>2 DEF Journalled, Unseen, Recorded
  <2> QED BY <1>0, <1>1, <2>1 DEF Kept, Tables, reportVars
<1> QED BY <1>3, <1>4, <1>6, <1>7 DEF BaseInv

LEMMA RefuseUnnoticed ==
  ASSUME BaseInv, RefuseMutation
  PROVE  StoreInv' /\ Unnoticed
<1>1. UNCHANGED <<db, now, cursors, evicted, mode, call, entry, fileVars, victims, reportVars>>
  BY DEF RefuseMutation, NoJournalling
<1>2. StoreInv'
  BY <1>1, StoreUntouched DEF BaseInv
<1>3. now' \in Int /\ now <= now'
  BY <1>1, NowIsInt DEF BaseInv
<1>4. Unnoticed
  BY <1>1, <1>3, AgreeSelf DEF Unnoticed
<1> QED BY <1>2, <1>4

(* A victim is never the key being written.                                *)
LEMMA VictimIsOther ==
  ASSUME StoreInv, EvictOne
  PROVE  \E v \in Present(db) \ {call.key} :
           db' = Removed(db, {v}) /\ evicted' = evicted \cup {v}
<1>1. PICK sample \in Samples(call.key) :
        \E victim \in LeastRecent(sample.keys) :
          db' = Removed(db, {victim}) /\ evicted' = evicted \cup {victim}
  BY DEF EvictOne
<1> QED BY <1>1, SamplesType DEF LeastRecent

LEMMA EvictBase ==
  ASSUME BaseInv, EvictStep
  PROVE  BaseInv'
<1>0. StoreInv /\ Phases /\ Kept
  BY DEF BaseInv
<1>1. /\ EvictOne /\ call # None /\ call' = call /\ mode' = mode
      /\ UNCHANGED <<entry, fileVars, victims, reportVars>>
  BY DEF EvictStep, EvictOne, NoJournalling
<1>2. StoreInv'
  BY <1>0, <1>1, EvictOneInv
<1>3. FileOK'
  BY <1>1, FileStays DEF BaseInv
<1>4. PICK v \in Present(db) \ {call.key} :
        db' = Removed(db, {v}) /\ evicted' = evicted \cup {v}
  BY <1>0, <1>1, VictimIsOther
<1>5. Phases'
  BY <1>0, <1>1, <1>4 DEF Phases, Busy, fileVars
<1>6. Kept'
  BY <1>0, <1>1 DEF Kept, Tables, reportVars
<1> QED BY <1>2, <1>3, <1>5, <1>6 DEF BaseInv

(* The record a write journals once it has made room.                      *)
LEMMA WriteRecorded ==
  ASSUME BaseInv, WriteStep
  PROVE  /\ call \in Pending /\ call # None /\ db' = Commit(db, call) /\ now' = now
         /\ entry' \in LogRecord /\ entry'.op = "SET" /\ entry'.key = call.key
         /\ \A d : WellFormed(d) /\ Agree(d, db, now) => Agree(Apply(d, entry'), db', now)
         /\ call' = None /\ entry = None
         /\ UNCHANGED <<fileVars, victims, reportVars, evicted, mode>>
<1>1. /\ FinishWrite /\ entry' = WriteRecord(call.key) /\ NoJournalling
      /\ call # None /\ db' = Commit(db, call) /\ now' = now
      /\ call' = None /\ UNCHANGED <<evicted, mode>>
  BY DEF WriteStep, Journals, FinishWrite
<1>2. /\ call \in Pending /\ WellFormed(db) /\ entry = None
  BY <1>1, NowIsInt DEF BaseInv, StoreInv, TypeOK, Phases
<1>3. entry' = SetRecord(call.key, Commit(db, call).data[call.key],
                         Commit(db, call).expires[call.key])
  BY <1>1 DEF WriteRecord
<1>4. ASSUME NEW d, WellFormed(d), Agree(d, db, now)
      PROVE  /\ entry' \in LogRecord /\ entry'.op = "SET" /\ entry'.key = call.key
             /\ Agree(Apply(d, entry'), db', now)
  BY <1>1, <1>2, <1>3, <1>4, CommitRecorded
<1>5. Agree(db, db, now)
  BY AgreeSelf
<1> QED BY <1>1, <1>2, <1>4, <1>5 DEF NoJournalling

LEMMA WriteBase ==
  ASSUME BaseInv, WriteStep
  PROVE  BaseInv'
<1>0. StoreInv /\ Phases /\ Kept
  BY DEF BaseInv
<1>1. /\ call # None /\ entry' \in LogRecord /\ entry'.op = "SET" /\ entry'.key = call.key
      /\ call' = None
      /\ UNCHANGED <<fileVars, victims, reportVars, evicted, mode>>
  BY WriteRecorded
<1>2. StoreInv'
  BY <1>0, FinishWriteInv DEF WriteStep
<1>3. FileOK'
  BY <1>1, FileStays DEF BaseInv
<1>4. Phases'
  BY <1>0, <1>1, DurabilityAssumption DEF Phases, Busy, fileVars
<1>5. Kept'
  BY <1>0, <1>1 DEF Kept, Tables, reportVars
<1> QED BY <1>2, <1>3, <1>4, <1>5 DEF BaseInv

LEMMA VictimsBase ==
  ASSUME BaseInv, VictimsStep
  PROVE  BaseInv'
<1>0. StoreInv /\ Phases /\ Kept
  BY DEF BaseInv
<1>1. /\ TakeEvicted /\ victims' = evicted /\ evicted' = {} /\ evicted # {}
      /\ call = None
      /\ UNCHANGED <<fileVars, entry, reportVars, db, now, mode, call>>
  BY DEF VictimsStep, TakeEvicted
<1>2. StoreInv'
  BY <1>0, <1>1, StoreInvStep DEF Next
<1>3. FileOK'
  BY <1>1, FileStays DEF BaseInv
<1>4. Phases'
  BY <1>0, <1>1 DEF Phases, Busy, fileVars
<1>5. Kept'
  BY <1>0, <1>1 DEF Kept, Tables, reportVars, StoreInv, TypeOK
<1> QED BY <1>2, <1>3, <1>4, <1>5 DEF BaseInv

(* ... then the journal's, ...                                             *)

(* What is being written is a victim's record or the command's own.        *)
NextIs(r) ==
  \/ /\ victims = {} /\ r = entry /\ entry # None
     /\ entry' = None /\ victims' = {}
  \/ \E k \in victims : /\ r = DeleteRecord({k})
                        /\ entry' = entry /\ entry # None /\ victims' = victims \ {k}

LEMMA WritingFacts ==
  ASSUME BaseInv, Writing
  PROVE  /\ call = None /\ evicted = {} /\ mode = "serving" /\ journal = "open"
         /\ buffer = None /\ tail = "none"
         /\ victims \subseteq Key /\ entry \in LogRecord
         /\ \A r \in NextRecords :
              /\ r \in LogRecord
              /\ \/ victims = {} /\ r = entry
                 \/ \E k \in victims : r = DeleteRecord({k}) /\ r.keys = {k} /\ r # entry
<1>1. Busy /\ Phases /\ Kept /\ evicted = {} /\ (entry # None \/ victims # {})
  BY DEF Writing, Busy, BaseInv
<1>2. /\ call = None /\ journal = "open" /\ buffer = None
      /\ entry # None /\ entry \in LogRecord /\ victims \subseteq Key
      /\ victims # {} => entry.op = "SET"
  BY <1>1 DEF Phases, Kept
<1>3. tail = "none"
  BY <1>2, FileFacts DEF BaseInv
<1>4. mode = "serving"
  BY <1>1, <1>2 DEF Phases, BaseInv, StoreInv, TypeOK
<1>5. ASSUME NEW r \in NextRecords
      PROVE  /\ r \in LogRecord
             /\ \/ victims = {} /\ r = entry
                \/ \E k \in victims : r = DeleteRecord({k}) /\ r.keys = {k} /\ r # entry
  <2>1. CASE victims = {}
    BY <1>2, <1>5, <2>1 DEF NextRecords
  <2>2. CASE victims # {}
    <3>1. PICK k \in victims : r = DeleteRecord({k})
      BY <1>5, <2>2 DEF NextRecords
    <3>2. r.op = "DEL" /\ r.keys = {k} /\ r \in LogRecord
      <4>1. {k} \in SUBSET Key
        BY <1>2
      <4> QED BY <3>1, <4>1, RecordsTyped DEF DeleteRecord
    <3> QED BY <1>2, <2>2, <3>1, <3>2
  <2> QED BY <2>1, <2>2
<1> QED BY <1>1, <1>2, <1>3, <1>4, <1>5

(* An append, and what is reported once it was the last.                   *)
LEMMA AppendEffect ==
  ASSUME BaseInv, AppendStep
  PROVE  \E r \in LogRecord :
           /\ NextIs(r) /\ File!AppendOk(r)
           /\ log' = Append(log, r) /\ journal' = journal /\ policy' = policy
           /\ buffer' = buffer
           /\ synced' = IF policy = "always" THEN Len(log') ELSE synced
           /\ UNCHANGED vars
           /\ IF entry' = None
                THEN /\ settled' = Image(db) /\ victims' = {}
                     /\ doubtful' = IF policy = "always" THEN {} ELSE doubtful
                ELSE UNCHANGED reportVars
<1>0. Writing
  BY DEF AppendStep
<1>1. PICK r \in NextRecords :
        /\ File!AppendOk(r)
        /\ IF r = entry THEN entry' = None /\ UNCHANGED victims
                        ELSE victims' = victims \ r.keys /\ UNCHANGED entry
  BY DEF AppendStep
<1>2. /\ tail = "none" /\ entry \in LogRecord /\ r \in LogRecord
      /\ \/ victims = {} /\ r = entry
         \/ \E k \in victims : r = DeleteRecord({k}) /\ r.keys = {k} /\ r # entry
  BY <1>0, <1>1, WritingFacts
<1>3. NextIs(r)
  BY <1>1, <1>2, DurabilityAssumption DEF NextIs
<1>4. /\ log' = Append(log, r) /\ journal' = journal /\ policy' = policy
      /\ buffer' = buffer
      /\ synced' = IF policy = "always" THEN Len(log') ELSE synced
  BY <1>1, <1>2 DEF File!AppendOk, File!Land
<1>5. UNCHANGED vars
      /\ IF entry' = None /\ victims' = {}
           THEN /\ settled' = Image(db)
                /\ doubtful' = IF policy = "always" THEN {} ELSE doubtful
           ELSE UNCHANGED reportVars
  BY DEF AppendStep
<1>6. entry' = None => victims' = {}
  BY <1>3 DEF NextIs
<1> QED BY <1>1, <1>2, <1>3, <1>4, <1>5, <1>6

LEMMA AppendBase ==
  ASSUME BaseInv, AppendStep
  PROVE  BaseInv'
<1>0. StoreInv /\ Phases /\ Kept /\ Writing
  BY DEF BaseInv, AppendStep
<1>1. PICK r \in LogRecord :
        /\ NextIs(r) /\ File!AppendOk(r)
        /\ log' = Append(log, r) /\ journal' = journal /\ buffer' = buffer
        /\ UNCHANGED vars
        /\ \/ settled' = Image(db) /\ (doubtful' = {} \/ doubtful' = doubtful)
           \/ UNCHANGED reportVars
  BY AppendEffect
<1>2. StoreInv'
  BY <1>0, <1>1, StoreUntouched DEF vars
<1>3. FileOK'
  BY <1>1, FileKept DEF BaseInv
<1>4. /\ call = None /\ evicted = {} /\ journal = "open" /\ buffer = None
      /\ mode = "serving"
  BY <1>0, WritingFacts
<1>5. Phases'
  BY <1>0, <1>1, <1>4 DEF Phases, Busy, NextIs, vars
<1>6. Kept'
  <2>1. Tables(Image(db))
    BY <1>0, NowIsInt, WellFormedTables DEF Image, Tables
  <2>2. Tables(settled') /\ doubtful' \subseteq Key
    BY <1>0, <1>1, <2>1 DEF Kept, reportVars
  <2>3. entry' \in LogRecord \cup {None} /\ victims' \subseteq Key
    BY <1>0, <1>1 DEF Kept, NextIs
  <2> QED BY <2>2, <2>3 DEF Kept
<1> QED BY <1>2, <1>3, <1>5, <1>6 DEF BaseInv

LEMMA AppendErrorBase ==
  ASSUME BaseInv, AppendError
  PROVE  BaseInv'
<1>0. StoreInv /\ Phases /\ Kept /\ Writing
  BY DEF BaseInv, AppendError
<1>1. PICK r \in NextRecords : File!AppendFail(r)
  BY DEF AppendError
<1>2. /\ victims' = {} /\ entry' = None
      /\ UNCHANGED <<db, now, cursors, evicted, mode, call, reportVars>>
  BY DEF AppendError
<1>3. /\ r \in LogRecord /\ call = None /\ evicted = {} /\ mode = "serving"
  BY <1>0, WritingFacts
<1>4. StoreInv'
  BY <1>0, <1>2, StoreUntouched
<1>5. FileOK'
  BY <1>1, <1>3, FileKept DEF BaseInv
<1>6. journal' = "failed"
  BY <1>1 DEF File!AppendFail
<1>7. Phases'
  BY <1>2, <1>3, <1>6 DEF Phases, Busy
<1>8. Kept'
  BY <1>0, <1>2 DEF Kept, Tables, reportVars
<1> QED BY <1>4, <1>5, <1>7, <1>8 DEF BaseInv

LEMMA SyncBase ==
  ASSUME BaseInv, SyncStep
  PROVE  BaseInv'
<1>0. StoreInv /\ Phases /\ Kept
  BY DEF BaseInv
<1>1. /\ Quiet /\ File!Sync /\ journal = "open" /\ journal' \in {"open", "failed"}
      /\ buffer' = buffer
      /\ UNCHANGED <<vars, victims, entry, reportVars>>
  BY DEF SyncStep, File!Sync
<1>2. StoreInv'
  BY <1>0, <1>1, StoreUntouched DEF vars
<1>3. FileOK'
  BY <1>1, FileKept DEF BaseInv
<1>4. Phases'
  BY <1>0, <1>1 DEF Phases, Busy, Quiet, vars
<1>5. Kept'
  BY <1>0, <1>1 DEF Kept, Tables, reportVars
<1> QED BY <1>2, <1>3, <1>4, <1>5 DEF BaseInv

(* ... and the stops and the start.                                        *)

LEMMA UncommittedKeys == FileOK => Uncommitted \subseteq Key
<1> SUFFICES ASSUME FileOK PROVE Uncommitted \subseteq Key
  OBVIOUS
<1>1. ASSUME NEW i \in synced + 1 .. Len(log)
      PROVE  Named(log[i]) \subseteq Key
  <2>1. i \in 1 .. Len(log) /\ log \in Seq(LogRecord)
    BY FileFacts
  <2>2. log[i] \in LogRecord
    BY <2>1
  <2> QED BY <2>2, NamedKeys
<1> QED BY <1>1 DEF Uncommitted

(* The three ways to stop.                                                 *)
Stopped ==
  \/ Stop
  \/ Killed
  \/ PowerFailure

LEMMA StoppedEffect ==
  ASSUME BaseInv, Stopped
  PROVE  /\ \/ File!Close \/ \E writing \in BOOLEAN : File!Kill(writing)
            \/ \E writing \in BOOLEAN : File!PowerLoss(writing)
         /\ journal' = "closed" /\ buffer' = None
         /\ db' = EmptyKeyspace /\ mode' = "loading" /\ call' = None
         /\ evicted' = {} /\ victims' = {} /\ entry' = None
         /\ sweepCursor' = {} /\ evictCursor' = {}
         /\ UNCHANGED <<now, settled>>
         /\ doubtful' \subseteq Key
<1>1. \E atRisk \in SUBSET Key : LoseMemory(atRisk)
  <2>1. Uncommitted \in SUBSET Key
    BY UncommittedKeys DEF BaseInv
  <2> QED BY <2>1 DEF Stopped, Stop, Killed, PowerFailure
<1>2. \/ File!Close \/ \E writing \in BOOLEAN : File!Kill(writing)
      \/ \E writing \in BOOLEAN : File!PowerLoss(writing)
  BY DEF Stopped, Stop, Killed, PowerFailure, Writing
<1>3. journal' = "closed" /\ buffer' = None
  BY <1>2 DEF File!Close, File!Kill, File!PowerLoss
<1>4. doubtful' \subseteq Key
  BY <1>1 DEF LoseMemory, Unsettled, BaseInv, Kept
<1> QED BY <1>1, <1>2, <1>3, <1>4 DEF LoseMemory

LEMMA StoppedBase ==
  ASSUME BaseInv, Stopped
  PROVE  BaseInv'
<1>0. StoreInv /\ Phases /\ Kept
  BY DEF BaseInv
<1>1. FileOK'
  BY StoppedEffect, FileKept DEF BaseInv
<1>2. StoreInv'
  <2>1. WellFormed(db') /\ StoresNothing
    BY StoppedEffect, EmptyWellFormed DEF StoresNothing, EmptyKeyspace
  <2> QED BY <1>0, <2>1, StoppedEffect, QuietStep DEF StoreInv, TypeOK
<1>3. Phases'
  BY StoppedEffect DEF Phases, Busy
<1>4. Kept'
  BY <1>0, StoppedEffect DEF Kept, Tables
<1> QED BY <1>1, <1>2, <1>3, <1>4 DEF BaseInv

(* What recovery finds: nothing half-way, and a keyspace from the log.     *)
LEMMA RecoverEffect ==
  ASSUME BaseInv, Recover
  PROVE  /\ File!Open /\ ~Busy /\ buffer = None /\ buffer' = None
         /\ log \in Seq(LogRecord) /\ log' = log /\ journal = "closed" /\ journal' = "open"
         /\ WellFormed(Replay(log))
         /\ db' = DropExpired(Replay(log), now) /\ WellFormed(db')
         /\ Agree(db', Replay(log), now)
<1>1. /\ File!Open /\ log' = log /\ journal = "closed" /\ journal' = "open"
      /\ buffer' = buffer /\ db' = DropExpired(Replay(log), now)
  BY DEF Recover, File!Open
<1>2. ~Busy /\ buffer = None
  BY <1>1 DEF BaseInv, Phases
<1>3. log \in Seq(LogRecord) /\ WellFormed(Replay(log))
  BY FileFacts, ReplayWellFormed DEF BaseInv
<1>4. WellFormed(db') /\ Agree(db', Replay(log), now)
  BY <1>1, <1>3, DropExpiredWellFormed, AgreeReclaimed DEF DropExpired
<1> QED BY <1>1, <1>2, <1>3, <1>4

LEMMA RecoverBase ==
  ASSUME BaseInv, Recover
  PROVE  BaseInv'
<1>0. StoreInv /\ Phases /\ Kept
  BY DEF BaseInv
<1>1. /\ mode' = "serving" /\ settled' = Image(db')
      /\ doubtful' = IF policy' = "always" THEN Uncommitted' ELSE {}
      /\ UNCHANGED <<now, cursors, evicted, call, result, victims, entry>>
  BY DEF Recover
<1>2. FileOK'
  BY RecoverEffect, FileKept DEF BaseInv
<1>3. StoreInv'
  BY <1>0, <1>1, RecoverEffect DEF StoreInv, TypeOK, WellFormed, CallAdmissible
<1>4. Phases'
  BY <1>1, RecoverEffect DEF Phases, Busy
<1>5. Kept'
  <2>1. Tables(settled')
    BY <1>1, RecoverEffect, WellFormedTables DEF Image, Tables
  <2>2. (FileOK => Uncommitted \subseteq Key)'
    BY UncommittedKeys, PTL
  <2>3. doubtful' \subseteq Key
    BY <1>1, <1>2, <2>2
  <2> QED BY <1>0, <1>1, <2>1, <2>3 DEF Kept
<1> QED BY <1>2, <1>3, <1>4, <1>5 DEF BaseInv

LEMMA BaseInit == DurableInit => BaseInv
<1> SUFFICES ASSUME DurableInit PROVE BaseInv
  OBVIOUS
<1>1. StoreInv
  BY StoreInvInit DEF DurableInit
<1>2. FileOK
  BY DEF DurableInit, File!FileInit, FileOK, FileProofs!FileInv, FileProofs!FileTypeOK,
         FileProofs!NeverDamaged, FileProofs!CleanWhileOpen
<1>3. Phases
  BY DEF DurableInit, Init, File!FileInit, Phases, Busy
<1>4. Kept
  <2>1. Tables(Image(EmptyKeyspace))
    BY EmptyWellFormed, WellFormedTables DEF Image, Tables
  <2> QED BY <2>1 DEF DurableInit, Kept
<1> QED BY <1>1, <1>2, <1>3, <1>4 DEF BaseInv

LEMMA BaseStep ==
  ASSUME BaseInv, [DurableNext]_allVars
  PROVE  BaseInv'
<1>0. StoreInv
  BY DEF BaseInv
<1>1. CASE ReadCommand
  <2>1. StoreInv' /\ Unnoticed
    BY <1>0, <1>1, ReadUnnoticed, OperationInv
  <2> QED BY <2>1, UnnoticedBase
<1>2. CASE SweeperStep
  <2>1. StoreInv' /\ Unnoticed
    BY <1>0, <1>2, SweepUnnoticed, SweepInv DEF SweeperStep
  <2> QED BY <2>1, UnnoticedBase
<1>3. CASE ClockStep
  <2>1. StoreInv' /\ Unnoticed
    BY <1>0, <1>3, ClockUnnoticed, StoreInvStep DEF ClockStep, Next
  <2> QED BY <2>1, UnnoticedBase
<1>4. CASE UNCHANGED allVars
  <2>1. StoreInv'
    BY <1>0, <1>4, StoreUntouched DEF allVars, vars
  <2>2. Unnoticed
    BY <1>0, <1>4, NowIsInt, AgreeSelf DEF Unnoticed, allVars, vars
  <2> QED BY <2>1, <2>2, UnnoticedBase
<1>5. CASE Stop \/ Killed \/ PowerFailure
  BY <1>5, StoppedBase DEF Stopped
<1> QED BY <1>1, <1>2, <1>3, <1>4, <1>5, MutationBase, RefuseUnnoticed, UnnoticedBase, EvictBase,
           WriteBase, VictimsBase, AppendBase, AppendErrorBase, SyncBase,
           RecoverBase DEF DurableNext

LEMMA BaseInvariance == DurableSpec => []BaseInv
<1>1. BaseInv /\ [DurableNext]_allVars => BaseInv'
  BY BaseStep
<1> QED BY <1>1, BaseInit, PTL DEF DurableSpec

(* The store, the file and what waits to be journalled stay in their       *)
(* ranges, over every order of commands, failures, crashes and recoveries. *)
THEOREM DurableTypes == DurableSpec => []DurableTypeOK
<1>1. BaseInv => DurableTypeOK
  BY DEF BaseInv, StoreInv, FileOK, FileProofs!FileInv, FileProofs!FileTypeOK,
         File!FileTypeOK, Kept, DurableTypeOK
<1> QED BY <1>1, BaseInvariance, PTL

-----------------------------------------------------------------------------
(* After a failure of the journal.                                         *)

(* What clients see, once dispatch refuses mutations.                      *)
LEMMA FailedStep ==
  ASSUME BaseInv, [DurableNext]_allVars, journal = "failed", journal' = "failed"
  PROVE  LiveAt(db', now') = LiveAt(db, now')
<1>0. /\ StoreInv /\ Phases /\ StoreInv' /\ ~Busy /\ mode # "loading"
  BY BaseStep DEF BaseInv, Phases
<1>1. Agree(db', db, now')
  <2>1. CASE Mutation
    BY <1>0, <2>1, MutationFrame
  <2>2. CASE RefuseMutation
    BY <2>2, AgreeSelf DEF RefuseMutation
  <2>3. CASE ReadCommand \/ SweeperStep \/ ClockStep
    BY <1>0, <2>3, ReadUnnoticed, SweepUnnoticed, ClockUnnoticed DEF Unnoticed
  <2>4. CASE EvictStep \/ WriteStep \/ VictimsStep
    BY <1>0, <2>4 DEF EvictStep, EvictOne, WriteStep, FinishWrite, VictimsStep,
                      TakeEvicted, Busy
  <2>5. CASE AppendStep \/ AppendError
    BY <1>0, <2>5 DEF AppendStep, AppendError, Writing, Busy
  <2>6. CASE SyncStep
    BY <2>6 DEF SyncStep, File!Sync
  <2>7. CASE Stop \/ Killed \/ PowerFailure
    BY <2>7, StoppedEffect DEF Stopped
  <2>8. CASE Recover
    BY <1>0, <2>8 DEF Recover
  <2>9. CASE UNCHANGED allVars
    BY <2>9, AgreeSelf DEF allVars, vars
  <2> QED BY <2>1, <2>2, <2>3, <2>4, <2>5, <2>6, <2>7, <2>8, <2>9 DEF DurableNext
<1>2. Tables(db) /\ Tables(db')
  BY <1>0, WellFormedTables DEF StoreInv
<1> QED BY <1>1, <1>2, AgreeIsLiveAt

(* The journal can no longer tell what memory holds once it has failed:    *)
(* dispatch refuses mutations before they reach the store, and what can    *)
(* still run -- reads, the sweep, the clock -- only lets keys expire.      *)
THEOREM FailedJournalIsReadOnly == DurableSpec => FailedIsReadOnly
<1>1. BaseInv /\ [DurableNext]_allVars =>
        [journal = "failed" /\ journal' = "failed" =>
           LiveAt(db', now') = LiveAt(db, now')]_allVars
  BY FailedStep
<1> QED BY <1>1, BaseInvariance, PTL DEF DurableSpec, FailedIsReadOnly

-----------------------------------------------------------------------------
(* The log and the keyspace.                                               *)

(* What d becomes when the victims S and the record r are journalled.      *)
Owed(d, S, r) ==
  LET e == Removed(d, S \cap Present(d))
  IN  IF r = None THEN e ELSE Apply(e, r)

(* LogMatchesMemory in the middle of a command too: the log and what is    *)
(* still to be journalled make up the keyspace.                            *)
MatchInv ==
  journal = "open" => Agree(Owed(Replay(log), victims \cup evicted, entry), db, now)

LEMMA OwedVictims ==
  ASSUME NEW d, WellFormed(d), NEW S \in SUBSET Key
  PROVE  /\ WellFormed(Owed(d, S, None))
         /\ \A k \in Key :
              /\ Owed(d, S, None).data[k] = IF k \in S THEN None ELSE d.data[k]
              /\ Owed(d, S, None).expires[k] = IF k \in S THEN None ELSE d.expires[k]
         /\ \A r \in LogRecord : Owed(d, S, r) = Apply(Owed(d, S, None), r)
<1>1. Owed(d, S, None) = Removed(d, S \cap Present(d))
  BY DEF Owed
<1>2. \A r \in LogRecord : r # None
  BY DurabilityAssumption
<1>3. \A r \in LogRecord : Owed(d, S, r) = Apply(Owed(d, S, None), r)
  BY <1>1, <1>2 DEF Owed
<1> QED BY <1>1, <1>3, RemovedTables

LEMMA OwedWellFormed ==
  ASSUME NEW d, WellFormed(d), NEW S \in SUBSET Key, NEW r \in LogRecord \cup {None}
  PROVE  WellFormed(Owed(d, S, r))
<1>1. CASE r = None
  BY <1>1, OwedVictims
<1>2. CASE r \in LogRecord
  <2>1. /\ WellFormed(Owed(d, S, None))
        /\ Owed(d, S, r) = Apply(Owed(d, S, None), r)
    BY <1>2, OwedVictims
  <2> QED BY <1>2, <2>1, ApplyWellFormed
<1> QED BY <1>1, <1>2

(* It depends on the tables alone.                                         *)
LEMMA OwedTables ==
  ASSUME NEW d, WellFormed(d), NEW e, WellFormed(e), NEW S \in SUBSET Key,
         NEW T \in SUBSET Key, NEW r \in LogRecord \cup {None}, NEW t,
         \A k \in Key :
           /\ (IF k \in S THEN None ELSE d.data[k]) = IF k \in T THEN None ELSE e.data[k]
           /\ (IF k \in S THEN None ELSE d.expires[k])
                = IF k \in T THEN None ELSE e.expires[k]
  PROVE  Agree(Owed(d, S, r), Owed(e, T, r), t)
<1>1. /\ WellFormed(Owed(d, S, None)) /\ WellFormed(Owed(e, T, None))
      /\ \A k \in Key : /\ Owed(d, S, None).data[k] = Owed(e, T, None).data[k]
                        /\ Owed(d, S, None).expires[k] = Owed(e, T, None).expires[k]
  BY OwedVictims
<1>2. \A k \in Key : /\ Owed(d, S, r).data[k] = Owed(e, T, r).data[k]
                     /\ Owed(d, S, r).expires[k] = Owed(e, T, r).expires[k]
  <2>1. CASE r = None
    BY <1>1, <2>1
  <2>2. CASE r \in LogRecord
    BY <1>1, <2>2, OwedVictims, ApplyTables
  <2> QED BY <2>1, <2>2
<1> QED BY <1>2, SameEntry DEF Agree

LEMMA OwedNothing ==
  ASSUME NEW d, WellFormed(d), NEW t
  PROVE  /\ Agree(Owed(d, {}, None), d, t) /\ Agree(d, Owed(d, {}, None), t)
         /\ \A r \in LogRecord : /\ Agree(Owed(d, {}, r), Apply(d, r), t)
                                 /\ Agree(Apply(d, r), Owed(d, {}, r), t)
<1>1. /\ WellFormed(Owed(d, {}, None))
      /\ \A k \in Key : /\ Owed(d, {}, None).data[k] = d.data[k]
                        /\ Owed(d, {}, None).expires[k] = d.expires[k]
  BY OwedVictims
<1>2. \A r \in LogRecord : Owed(d, {}, r) = Apply(Owed(d, {}, None), r)
  BY OwedVictims
<1>3. \A r \in LogRecord, k \in Key :
        /\ Owed(d, {}, r).data[k] = Apply(d, r).data[k]
        /\ Owed(d, {}, r).expires[k] = Apply(d, r).expires[k]
  BY <1>1, <1>2, ApplyTables
<1> QED BY <1>1, <1>3, SameEntry DEF Agree

(* A command that is over leaves a log that makes up the keyspace.         *)
LEMMA MatchQuiet ==
  BaseInv /\ MatchInv /\ ~Busy /\ journal = "open" => Agree(Replay(log), db, now)
<1> SUFFICES ASSUME BaseInv, MatchInv, ~Busy, journal = "open"
             PROVE  Agree(Replay(log), db, now)
  OBVIOUS
<1>1. WellFormed(Replay(log))
  BY FileFacts, ReplayWellFormed DEF BaseInv
<1>2. Agree(Owed(Replay(log), {}, None), db, now)
  <2>1. victims \cup evicted = {} /\ entry = None
    BY DEF Busy
  <2> QED BY <2>1 DEF MatchInv
<1> QED BY <1>1, <1>2, OwedNothing, AgreeTrans

LEMMA MatchMutation ==
  ASSUME BaseInv, MatchInv, Mutation
  PROVE  MatchInv'
<1> DEFINE d == Replay(log)
<1>0. StoreInv /\ Phases /\ WellFormed(db) /\ now \in Int
  BY NowIsInt DEF BaseInv
<1>1. /\ Quiet /\ journal # "failed" /\ log' = log /\ journal' = journal
      /\ victims' = {} /\ evicted' = {}
  BY <1>0, MutationFrame DEF Quiet, fileVars
<1>2. Journalled
  BY <1>0, MutationJournalled
<1>3. /\ journal = "open" /\ ~Busy
  <2>1. journal \in {"closed", "open", "failed"}
    BY FileFacts DEF BaseInv
  <2> QED BY <1>0, <1>1, <2>1 DEF Quiet, Phases, Busy
<1>4. Agree(d, db, now)
  BY <1>3, MatchQuiet
<1>5. WellFormed(d)
  BY FileFacts, ReplayWellFormed DEF BaseInv
<1> HIDE DEF d
<1>6. Agree(Owed(d, {}, entry'), db', now')
  <2>1. CASE Unseen
    <3>1. Agree(d, db, now')
      BY <1>0, <1>2, <1>4, <1>5, WellFormedTables, AgreeLater DEF Journalled
    <3>2. Agree(d, db', now')
      BY <2>1, <3>1, AgreeSym, AgreeTrans DEF Unseen
    <3> QED BY <1>5, <2>1, <3>2, OwedNothing, AgreeTrans DEF Unseen
  <2>2. CASE Recorded
    <3>1. Agree(Apply(d, entry'), db', now') /\ entry' \in LogRecord
      BY <1>4, <1>5, <2>2 DEF Recorded
    <3> QED BY <1>5, <3>1, OwedNothing, AgreeTrans
  <2> QED BY <1>2, <2>1, <2>2 DEF Journalled
<1>7. d = Replay(log') /\ victims' \cup evicted' = {}
  BY <1>1 DEF d
<1> QED BY <1>6, <1>7 DEF MatchInv

LEMMA MatchUnnoticed ==
  ASSUME BaseInv, MatchInv, Unnoticed, StoreInv'
  PROVE  MatchInv'
<1> DEFINE d == Owed(Replay(log), victims \cup evicted, entry)
<1>1. /\ WellFormed(db) /\ WellFormed(db') /\ now \in Int /\ now' \in Int
      /\ UNCHANGED <<log, journal, victims, evicted, entry>>
  BY NowIsInt DEF BaseInv, StoreInv, Unnoticed, fileVars
<1>2. WellFormed(d)
  <2>1. /\ WellFormed(Replay(log)) /\ victims \cup evicted \in SUBSET Key
        /\ entry \in LogRecord \cup {None}
    BY FileFacts, ReplayWellFormed DEF BaseInv, Kept, StoreInv, TypeOK
  <2> QED BY <2>1, OwedWellFormed
<1> SUFFICES ASSUME journal = "open" PROVE Agree(d, db', now')
  BY <1>1 DEF MatchInv
<1>3. Agree(d, db, now)
  BY DEF MatchInv
<1> HIDE DEF d
<1>4. Agree(d, db, now')
  BY <1>1, <1>2, <1>3, WellFormedTables, AgreeLater DEF Unnoticed
<1> QED BY <1>4, AgreeSym, AgreeTrans DEF Unnoticed

(* A victim leaves the keyspace, and is owed.                              *)
LEMMA MatchEvict ==
  ASSUME BaseInv, MatchInv, EvictStep
  PROVE  MatchInv'
<1> DEFINE d == Replay(log)
<1>1. /\ call # None /\ entry = None /\ victims = {} /\ entry' = None /\ victims' = {}
      /\ UNCHANGED <<log, journal, now>> /\ journal = "open"
  BY DEF EvictStep, EvictOne, NoJournalling, fileVars, BaseInv, Phases, Busy
<1>2. PICK v \in Present(db) \ {call.key} :
        db' = Removed(db, {v}) /\ evicted' = evicted \cup {v}
  BY VictimIsOther DEF EvictStep, BaseInv
<1>3. WellFormed(d) /\ evicted \in SUBSET Key /\ v \in Key
  BY FileFacts, ReplayWellFormed DEF BaseInv, StoreInv, TypeOK, Present
<1>4. Agree(Owed(d, evicted, None), db, now)
  <2>1. victims \cup evicted = evicted
    BY <1>1
  <2> QED BY <1>1, <2>1 DEF MatchInv
<1> HIDE DEF d
<1>5. ASSUME NEW k \in Key
      PROVE  Same(Owed(d, evicted', None), db', k, now)
  <2>1. /\ Owed(d, evicted, None).data[k] = IF k \in evicted THEN None ELSE d.data[k]
        /\ Owed(d, evicted, None).expires[k] = IF k \in evicted THEN None ELSE d.expires[k]
    BY <1>3, OwedVictims
  <2>2. /\ Owed(d, evicted', None).data[k] = IF k \in evicted' THEN None ELSE d.data[k]
        /\ Owed(d, evicted', None).expires[k] = IF k \in evicted' THEN None ELSE d.expires[k]
    <3>1. evicted' \in SUBSET Key
      BY <1>2, <1>3
    <3> QED BY <1>3, <3>1, OwedVictims
  <2>3. CASE k = v
    <3>1. db'.data[k] = None /\ db'.expires[k] = None /\ k \in evicted'
      BY <1>2, <1>3, <2>3 DEF Removed
    <3> QED BY <2>2, <3>1, SameEntry
  <2>4. CASE k # v
    <3>1. db'.data[k] = db.data[k] /\ db'.expires[k] = db.expires[k]
          /\ (k \in evicted' <=> k \in evicted)
      BY <1>2, <1>3, <2>4 DEF Removed
    <3>2. /\ Same(Owed(d, evicted', None), Owed(d, evicted, None), k, now)
          /\ Same(Owed(d, evicted, None), db, k, now) /\ Same(db, db', k, now)
      BY <1>4, <2>1, <2>2, <3>1, SameEntry DEF Agree
    <3> QED BY <3>2, SameTrans
  <2> QED BY <2>3, <2>4
<1>6. d = Replay(log') /\ victims' \cup evicted' = evicted'
  BY <1>1 DEF d
<1> QED BY <1>1, <1>5, <1>6 DEF MatchInv, Agree

(* The write itself.                                                       *)
LEMMA MatchWrite ==
  ASSUME BaseInv, MatchInv, WriteStep
  PROVE  MatchInv'
<1> DEFINE d == Replay(log)
           S == victims \cup evicted
<1>1. /\ call # None /\ entry = None /\ now' = now /\ entry' \in LogRecord
      /\ \A e : WellFormed(e) /\ Agree(e, db, now) => Agree(Apply(e, entry'), db', now)
      /\ UNCHANGED <<fileVars, victims, evicted>>
  BY WriteRecorded
<1>2. journal = "open"
  BY <1>1 DEF BaseInv, Phases, Busy
<1>3. WellFormed(d) /\ S \in SUBSET Key
  BY FileFacts, ReplayWellFormed DEF BaseInv, StoreInv, TypeOK, Kept
<1>4. Agree(Owed(d, S, None), db, now)
  BY <1>1, <1>2 DEF MatchInv
<1>5. d' = d /\ S' = S
  BY <1>1 DEF fileVars
<1> HIDE DEF d, S
<1>6. /\ WellFormed(Owed(d, S, None))
      /\ Owed(d, S, entry') = Apply(Owed(d, S, None), entry')
  BY <1>1, <1>3, OwedVictims
<1>7. Agree(Owed(d, S, entry'), db', now)
  BY <1>1, <1>4, <1>6
<1>8. Agree(Owed(d', S', entry'), db', now')
  BY <1>1, <1>5, <1>7
<1> QED BY <1>8 DEF MatchInv, d, S

(* A record that is journalled is no longer owed.                          *)
LEMMA MatchAppend ==
  ASSUME BaseInv, MatchInv, AppendStep
  PROVE  MatchInv'
<1> DEFINE d == Replay(log)
<1>0. /\ evicted = {} /\ victims \in SUBSET Key /\ entry \in LogRecord
      /\ journal = "open"
  BY WritingFacts DEF AppendStep
<1>1. PICK r \in LogRecord : /\ NextIs(r) /\ log' = Append(log, r)
                             /\ UNCHANGED vars
  BY AppendEffect
<1>2. log \in Seq(LogRecord) /\ WellFormed(d)
  BY FileFacts, ReplayWellFormed DEF BaseInv
<1>3. Replay(log') = Apply(d, r) /\ WellFormed(Apply(d, r))
  BY <1>1, <1>2, ReplayAppend, ApplyWellFormed
<1>4. Agree(Owed(d, victims, entry), db, now)
  <2>1. victims \cup evicted = victims
    BY <1>0
  <2> QED BY <1>0, <2>1 DEF MatchInv
<1> HIDE DEF d
<1>5. Agree(Owed(Apply(d, r), victims', entry'), Owed(d, victims, entry), now)
  <2>1. CASE victims = {} /\ r = entry /\ entry' = None /\ victims' = {}
    BY <1>2, <1>3, <2>1, OwedNothing, AgreeTrans
  <2>2. CASE \E k \in victims : /\ r = DeleteRecord({k})
                                /\ entry' = entry /\ victims' = victims \ {k}
    <3>1. PICK k \in victims : r = DeleteRecord({k}) /\ entry' = entry
                               /\ victims' = victims \ {k}
      BY <2>2
    <3>2. r.op = "DEL" /\ r.keys = {k}
      BY <3>1 DEF DeleteRecord
    <3>3. \A j \in Key :
            /\ Apply(d, r).data[j] = IF j \in {k} THEN None ELSE d.data[j]
            /\ Apply(d, r).expires[j] = IF j \in {k} THEN None ELSE d.expires[j]
      BY <1>2, <3>2, ApplyDelete
    <3>4. victims' \in SUBSET Key
      BY <1>0, <3>1
    <3> QED BY <1>0, <1>2, <1>3, <3>1, <3>3, <3>4, OwedTables
  <2> QED BY <1>1, <2>1, <2>2 DEF NextIs
<1>6. Agree(Owed(Apply(d, r), victims', entry'), db, now)
  BY <1>4, <1>5, AgreeTrans
<1>7. victims' \cup evicted' = victims' /\ db' = db /\ now' = now
  BY <1>0, <1>1 DEF vars
<1> QED BY <1>3, <1>6, <1>7 DEF MatchInv

(* What is rebuilt is what the log says.                                   *)
LEMMA MatchRecover ==
  ASSUME BaseInv, Recover
  PROVE  MatchInv'
<1>1. /\ log' = log /\ now' = now /\ WellFormed(Replay(log))
      /\ Agree(db', Replay(log), now)
      /\ victims' \cup evicted' = {} /\ entry' = None
  BY RecoverEffect DEF Recover, Busy
<1>2. Agree(Owed(Replay(log), {}, None), db', now)
  BY <1>1, OwedNothing, AgreeSym, AgreeTrans
<1> QED BY <1>1, <1>2 DEF MatchInv

LEMMA MatchStep ==
  ASSUME BaseInv, MatchInv, [DurableNext]_allVars
  PROVE  MatchInv'
<1>0. StoreInv /\ StoreInv' /\ now \in Int
  BY BaseStep, NowIsInt DEF BaseInv
<1>1. CASE ReadCommand \/ SweeperStep \/ ClockStep
  BY <1>0, <1>1, ReadUnnoticed, SweepUnnoticed, ClockUnnoticed, MatchUnnoticed
<1>2. CASE RefuseMutation
  <2>1. journal' # "open"
    BY <1>2 DEF RefuseMutation, NoJournalling, fileVars
  <2> QED BY <2>1 DEF MatchInv
<1>3. CASE VictimsStep
  <2>1. /\ victims' \cup evicted' = victims \cup evicted
        /\ UNCHANGED <<log, journal, entry, db, now>>
    BY <1>3 DEF VictimsStep, TakeEvicted, fileVars, BaseInv, Phases
  <2> QED BY <2>1 DEF MatchInv
<1>4. CASE AppendError
  <2>1. journal' # "open"
    BY <1>4 DEF AppendError, File!AppendFail
  <2> QED BY <2>1 DEF MatchInv
<1>5. CASE SyncStep
  <2>1. UNCHANGED <<log, entry, victims, evicted, db, now>> /\ journal = "open"
    BY <1>5 DEF SyncStep, File!Sync, vars
  <2> QED BY <2>1 DEF MatchInv
<1>6. CASE Stop \/ Killed \/ PowerFailure
  BY <1>6, StoppedEffect DEF Stopped, MatchInv
<1>7. CASE UNCHANGED allVars
  BY <1>7 DEF allVars, vars, fileVars, MatchInv
<1> QED BY <1>1, <1>2, <1>3, <1>4, <1>5, <1>6, <1>7, MatchMutation, MatchEvict,
           MatchWrite, MatchAppend, MatchRecover DEF DurableNext

LEMMA MatchInvariance == DurableSpec => []MatchInv
<1>1. DurableInit => MatchInv
  BY DEF DurableInit, File!FileInit, MatchInv
<1>2. BaseInv /\ MatchInv /\ [DurableNext]_allVars => MatchInv'
  BY MatchStep
<1> QED BY <1>1, <1>2, BaseInvariance, PTL DEF DurableSpec

(* Between commands a working journal replays to what clients see: set and *)
(* incr by what they left, relative deadlines as the absolute ones they    *)
(* became, victims and past deadlines as deletions (commands.py:156-169).  *)
THEOREM LogIsTheKeyspace == DurableSpec => []LogMatchesMemory
<1>1. BaseInv /\ MatchInv => LogMatchesMemory
  <2> SUFFICES ASSUME BaseInv, MatchInv, Quiet, journal = "open"
               PROVE  LiveAt(Replay(log), now) = LiveAt(db, now)
    BY DEF LogMatchesMemory
  <2>1. Agree(Replay(log), db, now)
    BY MatchQuiet DEF Quiet, Busy
  <2>2. Tables(Replay(log)) /\ Tables(db)
    BY FileFacts, ReplayWellFormed, WellFormedTables DEF BaseInv, StoreInv
  <2> QED BY <2>1, <2>2, AgreeIsLiveAt
<1> QED BY <1>1, BaseInvariance, MatchInvariance, PTL

-----------------------------------------------------------------------------
(* What a restart may find.                                                *)

(* The logs a stop may leave of the present one: as it is; completed by    *)
(* what a failed write left in the buffer; and, when a power failure takes *)
(* what is not committed, any prefix that is.  Under the other policies    *)
(* the keys at risk are in doubt by then.                                  *)
Found ==
  {log} \cup (IF buffer # None THEN {Append(log, buffer)} ELSE {})
        \cup (IF policy = "always" THEN {SubSeq(log, 1, n) : n \in synced .. Len(log)}
                                   ELSE {})

(* Nothing of the command in progress is in the log, if there is one.      *)
Unlogged == mode = "loading" \/ call # None \/ evicted # {}

(* Each of them gives every key that is not in doubt what was acknowledged *)
(* last, or what the command now being journalled has made of it.          *)
AckInv ==
  /\ \A k \in Key \ doubtful, s \in Found :
       \/ Same(Replay(s), settled, k, now)
       \/ ~Unlogged /\ Same(Replay(s), db, k, now)
  /\ Quiet /\ journal = "open" => Agree(settled, db, now)
  /\ journal = "open" /\ policy = "always" => Uncommitted \subseteq doubtful

LEMMA FoundLogs ==
  ASSUME FileOK, NEW s \in Found
  PROVE  s \in Seq(LogRecord) /\ WellFormed(Replay(s)) /\ Tables(Replay(s))
<1>1. s \in Seq(LogRecord)
  <2>1. CASE s = log
    BY <2>1, FileFacts
  <2>2. CASE buffer # None /\ s = Append(log, buffer)
    BY <2>2, FileFacts
  <2>3. CASE \E n \in synced .. Len(log) : s = SubSeq(log, 1, n)
    <3>1. PICK n \in 0 .. Len(log) : s = SubSeq(log, 1, n)
      BY <2>3, FileFacts
    <3> QED BY <3>1, FileFacts, PrefixOf
  <2> QED BY <2>1, <2>2, <2>3 DEF Found
<1> QED BY <1>1, ReplayWellFormed, WellFormedTables

(* Among them, the log itself.                                             *)
LEMMA LogFound == log \in Found
BY DEF Found

(* In an open journal, what is not in doubt does not depend on what is not *)
(* committed.                                                              *)
LEMMA FoundOpen ==
  FileOK /\ journal = "open" /\ buffer = None
    /\ (policy = "always" => Uncommitted \subseteq doubtful)
  => \A k \in Key \ doubtful, s \in Found : \A t : Same(Replay(s), Replay(log), k, t)
<1> SUFFICES ASSUME FileOK, journal = "open", buffer = None,
                    policy = "always" => Uncommitted \subseteq doubtful,
                    NEW k \in Key \ doubtful, NEW s \in Found, NEW t
             PROVE  Same(Replay(s), Replay(log), k, t)
  OBVIOUS
<1>1. CASE s = log
  BY <1>1, AgreeSelf DEF Agree
<1>2. CASE s # log
  <2>1. policy = "always"
    BY <1>2 DEF Found
  <2>2. PICK n \in synced .. Len(log) : s = SubSeq(log, 1, n)
    BY <1>2 DEF Found
  <2>3. /\ log \in Seq(LogRecord) /\ n \in 0 .. Len(log)
        /\ synced \in Nat /\ n \in Nat /\ synced <= n
    BY FileFacts
  <2>4. ASSUME NEW i \in n + 1 .. Len(log)
        PROVE  k \notin Named(log[i])
    <3>1. i \in synced + 1 .. Len(log)
      BY <2>3
    <3> QED BY <2>1, <3>1 DEF Uncommitted
  <2> QED BY <2>2, <2>3, <2>4, ReplayPrefix, SameEntry
<1> QED BY <1>1, <1>2

LEMMA AckUnnoticed ==
  ASSUME BaseInv, AckInv, Unnoticed, StoreInv'
  PROVE  AckInv'
<1>1. /\ UNCHANGED <<fileVars, reportVars, victims, entry, evicted, mode, call>>
      /\ now \in Int /\ now' \in Int /\ now <= now' /\ Agree(db', db, now')
      /\ Tables(db) /\ Tables(settled)
  BY NowIsInt, WellFormedTables DEF BaseInv, Unnoticed, Kept
<1>2. Found' = Found /\ (Unlogged' <=> Unlogged) /\ Uncommitted' = Uncommitted
  BY <1>1 DEF Found, Unlogged, Uncommitted, fileVars
<1>3. ASSUME NEW k \in Key \ doubtful, NEW s \in Found
      PROVE  \/ Same(Replay(s), settled', k, now')
             \/ ~Unlogged' /\ Same(Replay(s), db', k, now')
  <2>1. Tables(Replay(s))
    BY FoundLogs DEF BaseInv
  <2>2. CASE Same(Replay(s), settled, k, now)
    <3>1. Same(Replay(s), settled, k, now')
      BY <1>1, <2>1, <2>2, SameLater
    <3> QED BY <1>1, <3>1 DEF reportVars
  <2>3. CASE ~Unlogged /\ Same(Replay(s), db, k, now)
    <3>1. Same(Replay(s), db, k, now')
      BY <1>1, <2>1, <2>3, SameLater
    <3>2. Same(db, db', k, now')
      BY <1>1, AgreeSym DEF Agree
    <3> QED BY <1>2, <2>3, <3>1, <3>2, SameTrans
  <2> QED BY <2>2, <2>3 DEF AckInv
<1>4. ASSUME Quiet', journal' = "open"
      PROVE  Agree(settled', db', now')
  <2>1. Quiet /\ journal = "open"
    BY <1>1, <1>4 DEF Quiet, fileVars
  <2>2. Agree(settled, db, now')
    BY <1>1, <2>1, AgreeLater DEF AckInv
  <2>3. Agree(settled, db', now')
    BY <1>1, <2>2, AgreeSym, AgreeTrans
  <2> QED BY <1>1, <2>3 DEF reportVars
<1> QED BY <1>1, <1>2, <1>3, <1>4 DEF AckInv, fileVars, reportVars

(* Until its first record is written, a command leaves the log what it was *)
(* when everything acknowledged was in it.                                 *)
LEMMA AckUnlogged ==
  ASSUME BaseInv, AckInv, Unlogged, mode # "loading",
         UNCHANGED <<fileVars, reportVars, mode, now>>, ~Quiet'
  PROVE  AckInv'
<1>1. Found' = Found /\ Uncommitted' = Uncommitted /\ doubtful' = doubtful
      /\ settled' = settled /\ now' = now
  BY DEF Found, Uncommitted, fileVars, reportVars
<1>2. \A k \in Key \ doubtful, s \in Found : Same(Replay(s), settled, k, now)
  BY DEF AckInv
<1>3. journal' = "open" /\ policy' = "always" => Uncommitted' \subseteq doubtful'
  BY <1>1 DEF AckInv, fileVars
<1> QED BY <1>1, <1>2, <1>3 DEF AckInv

LEMMA AckMutation ==
  ASSUME BaseInv, AckInv, Mutation
  PROVE  AckInv'
<1>0. StoreInv /\ Tables(db) /\ Tables(settled) /\ now \in Int
  BY NowIsInt, WellFormedTables DEF BaseInv, Kept
<1>1. /\ Quiet /\ journal # "failed"
      /\ UNCHANGED <<fileVars, reportVars, victims>>
      /\ evicted' = {} /\ mode' = "serving"
  BY <1>0, MutationFrame
<1>2. Journalled
  BY <1>0, MutationJournalled
<1>3. journal = "open" /\ ~Unlogged
  <2>1. journal \in {"closed", "open", "failed"}
    BY FileFacts DEF BaseInv
  <2> QED BY <1>1, <2>1 DEF Quiet, BaseInv, Phases, Unlogged
<1>4. Agree(settled, db, now)
  BY <1>1, <1>3 DEF AckInv
<1>5. /\ Found' = Found /\ Uncommitted' = Uncommitted /\ doubtful' = doubtful
      /\ settled' = settled /\ policy' = policy /\ journal' = journal
  BY <1>1 DEF Found, Uncommitted, fileVars, reportVars
<1>6. ASSUME NEW k \in Key \ doubtful, NEW s \in Found
      PROVE  Same(Replay(s), settled, k, now')
  <2>1. Tables(Replay(s))
    BY FoundLogs DEF BaseInv
  <2>2. Same(settled, db, k, now) /\ Same(db, settled, k, now)
    BY <1>4, AgreeSym DEF Agree
  <2>3. Same(Replay(s), settled, k, now)
    BY <2>2, SameTrans DEF AckInv
  <2> QED BY <1>0, <1>2, <2>1, <2>3, SameLater DEF Journalled
<1>7. ASSUME Quiet'
      PROVE  Agree(settled, db', now')
  <2>1. Unseen
    BY <1>2, <1>7, DurabilityAssumption DEF Journalled, Recorded, Quiet
  <2>2. Agree(settled, db, now')
    BY <1>0, <1>2, <1>4, AgreeLater DEF Journalled
  <2> QED BY <2>1, <2>2, AgreeSym, AgreeTrans DEF Unseen
<1>8. journal' = "open" /\ policy' = "always" => Uncommitted' \subseteq doubtful'
  BY <1>5 DEF AckInv
<1> QED BY <1>5, <1>6, <1>7, <1>8 DEF AckInv

(* A record makes the keys it is about what they are in memory: the        *)
(* command's own comes last, and is not about a victim.                    *)
LEMMA RecordTakesEffect ==
  ASSUME BaseInv, MatchInv, Writing, NEW r \in NextRecords, NEW k \in Named(r)
  PROVE  k \in Key /\ Same(Apply(Replay(log), r), db, k, now)
<1> DEFINE d == Replay(log)
<1>1. /\ evicted = {} /\ journal = "open" /\ victims \in SUBSET Key
      /\ entry \in LogRecord /\ r \in LogRecord
      /\ \/ victims = {} /\ r = entry
         \/ \E j \in victims : r = DeleteRecord({j}) /\ r.keys = {j}
  BY WritingFacts
<1>2. WellFormed(d)
  BY FileFacts, ReplayWellFormed DEF BaseInv
<1>3. Agree(Owed(d, victims, entry), db, now)
  <2>1. victims \cup evicted = victims
    BY <1>1
  <2> QED BY <1>1, <2>1 DEF MatchInv
<1> HIDE DEF d
<1>4. k \in Key
  BY <1>1, NamedKeys
<1>5. Same(Apply(d, r), Owed(d, victims, entry), k, now)
  <2>1. CASE victims = {} /\ r = entry
    BY <1>1, <1>2, <1>4, <2>1, OwedNothing DEF Agree
  <2>2. CASE \E j \in victims : r = DeleteRecord({j}) /\ r.keys = {j}
    <3>1. r.op = "DEL" /\ r.keys = {k} /\ k \in victims
      BY <2>2 DEF DeleteRecord, Named
    <3>2. Apply(d, r).data[k] = None /\ Apply(d, r).expires[k] = None
      BY <1>1, <1>2, <1>4, <3>1, ApplyDelete
    <3>3. /\ WellFormed(Owed(d, victims, None))
          /\ Owed(d, victims, None).data[k] = None
          /\ Owed(d, victims, None).expires[k] = None
          /\ Owed(d, victims, entry) = Apply(Owed(d, victims, None), entry)
      BY <1>1, <1>2, <1>4, <3>1, OwedVictims
    <3>4. entry.op = "SET" /\ entry.key # k
      <4>1. entry.op = "SET" /\ entry.key \notin evicted \cup victims
        BY <1>1, <3>1, WritingFacts DEF BaseInv, Phases
      <4> QED BY <3>1, <4>1
    <3>5. Owed(d, victims, entry).data[k] = None /\ Owed(d, victims, entry).expires[k] = None
      BY <1>1, <1>4, <3>3, <3>4, ApplySet
    <3> QED BY <3>2, <3>5, SameEntry, <1>4
  <2> QED BY <1>1, <2>1, <2>2
<1>6. Same(Apply(d, r), db, k, now)
  BY <1>3, <1>4, <1>5, SameTrans DEF Agree
<1> QED BY <1>4, <1>6 DEF d

(* So a log that ends with it is as good as the log before it.             *)
LEMMA AppendedIsSame ==
  ASSUME BaseInv, MatchInv, AckInv, Writing, NEW r \in NextRecords,
         NEW k \in Key \ doubtful
  PROVE  \/ Same(Replay(Append(log, r)), settled, k, now)
         \/ Same(Replay(Append(log, r)), db, k, now)
<1>1. log \in Seq(LogRecord) /\ WellFormed(Replay(log)) /\ r \in LogRecord
  BY FileFacts, ReplayWellFormed, WritingFacts DEF BaseInv
<1>2. Replay(Append(log, r)) = Apply(Replay(log), r)
  BY <1>1, ReplayAppend
<1>3. CASE k \in Named(r)
  BY <1>2, <1>3, RecordTakesEffect
<1>4. CASE k \notin Named(r)
  <2>1. Same(Apply(Replay(log), r), Replay(log), k, now)
    BY <1>1, <1>4, ApplyElsewhere, SameEntry
  <2>2. Same(Replay(log), settled, k, now) \/ Same(Replay(log), db, k, now)
    BY LogFound DEF AckInv
  <2> QED BY <1>2, <2>1, <2>2, SameTrans
<1> QED BY <1>3, <1>4

LEMMA AckAppend ==
  ASSUME BaseInv, MatchInv, AckInv, AppendStep
  PROVE  AckInv'
<1>0. /\ call = None /\ evicted = {} /\ mode = "serving" /\ journal = "open"
      /\ buffer = None /\ Writing
  BY WritingFacts DEF AppendStep
<1>1. PICK r \in LogRecord :
        /\ NextIs(r) /\ log' = Append(log, r) /\ journal' = journal /\ policy' = policy
        /\ buffer' = buffer
        /\ synced' = IF policy = "always" THEN Len(log') ELSE synced
        /\ UNCHANGED vars
        /\ IF entry' = None
             THEN /\ settled' = Image(db) /\ victims' = {}
                  /\ doubtful' = IF policy = "always" THEN {} ELSE doubtful
             ELSE UNCHANGED reportVars
  BY AppendEffect
<1>2. r \in NextRecords
  BY <1>1 DEF NextIs, NextRecords
<1>3. log' \in Seq(LogRecord) /\ Len(log') \in Nat
  <2>1. log \in Seq(LogRecord)
    BY FileFacts DEF BaseInv
  <2> QED BY <1>1, <2>1
<1>4. Found' = {log'} /\ ~Unlogged' /\ db' = db /\ now' = now
  <2>1. policy' = "always" =>
          {SubSeq(log', 1, n) : n \in synced' .. Len(log')} = {log'}
    <3> SUFFICES ASSUME policy' = "always"
                 PROVE  {SubSeq(log', 1, n) : n \in synced' .. Len(log')} = {log'}
      OBVIOUS
    <3>1. synced' .. Len(log') = {Len(log')}
      BY <1>1, <1>3
    <3>2. SubSeq(log', 1, Len(log')) = log'
      BY <1>3
    <3> QED BY <3>1, <3>2
  <2> QED BY <1>0, <1>1, <2>1 DEF Found, Unlogged, vars
<1>5. policy' = "always" => Uncommitted' = {}
  <2> SUFFICES ASSUME policy' = "always" PROVE Uncommitted' = {}
    OBVIOUS
  <2>1. synced' + 1 .. Len(log') = {}
    BY <1>1, <1>3
  <2> QED BY <2>1 DEF Uncommitted
<1>6. CASE entry' = None
  <2>1. Agree(Replay(log'), db', now')
    <3>1. (BaseInv /\ MatchInv /\ ~Busy /\ journal = "open" => Agree(Replay(log), db, now))'
      BY MatchQuiet, PTL
    <3>2. BaseInv' /\ MatchInv'
      <4>1. AppendStep => DurableNext
        BY DEF DurableNext
      <4> QED BY <4>1, BaseStep, MatchStep
    <3>3. ~Busy' /\ journal' = "open"
      BY <1>0, <1>1, <1>6 DEF Busy, vars
    <3> QED BY <3>1, <3>2, <3>3
  <2>2. Agree(settled', db', now')
    BY <1>1, <1>4, <1>6, SameEntry DEF Agree, Image
  <2> QED BY <1>4, <1>5, <2>1, <2>2 DEF AckInv, Agree
<1>7. CASE entry' # None
  <2>1. settled' = settled /\ doubtful' = doubtful
    BY <1>1, <1>7 DEF reportVars
  <2>2. ASSUME NEW k \in Key \ doubtful
        PROVE  Same(Replay(log'), settled, k, now) \/ Same(Replay(log'), db, k, now)
    BY <1>0, <1>1, <1>2, AppendedIsSame
  <2>3. ~Quiet'
    BY <1>7 DEF Quiet
  <2> QED BY <1>4, <1>5, <2>1, <2>2, <2>3 DEF AckInv
<1> QED BY <1>6, <1>7

LEMMA AckAppendError ==
  ASSUME BaseInv, MatchInv, AckInv, AppendError
  PROVE  AckInv'
<1>0. /\ call = None /\ evicted = {} /\ mode = "serving" /\ journal = "open"
      /\ buffer = None /\ tail = "none" /\ Writing
  BY WritingFacts DEF AppendError
<1>1. PICK r \in NextRecords : File!AppendFail(r)
  BY DEF AppendError
<1>2. UNCHANGED <<db, now, evicted, mode, call, settled, doubtful>>
  BY DEF AppendError, reportVars
<1>3. /\ journal' = "failed" /\ policy' = policy /\ synced' = synced
      /\ \/ log' = log /\ buffer' = r
         \/ log' = Append(log, r) /\ buffer' = None
  BY <1>0, <1>1 DEF File!AppendFail, File!Land
<1>4. Found' \subseteq Found \cup {Append(log, r)}
  <2>1. CASE log' = log /\ buffer' = r
    BY <1>3, <2>1 DEF Found
  <2>2. CASE log' = Append(log, r) /\ buffer' = None
    <3>1. log \in Seq(LogRecord) /\ r \in LogRecord /\ synced \in 0 .. Len(log)
      BY <1>0, FileFacts, WritingFacts DEF BaseInv
    <3>2. Len(log') = Len(log) + 1 /\ Len(log) \in Nat /\ synced \in Nat
          /\ log' \in Seq(LogRecord)
      BY <2>2, <3>1
    <3>3. ASSUME policy = "always", NEW n \in synced .. Len(log')
          PROVE  SubSeq(log', 1, n) \in Found \cup {Append(log, r)}
      <4>1. CASE n = Len(log')
        BY <2>2, <3>2, <4>1
      <4>2. CASE n # Len(log')
        <5>1. n \in synced .. Len(log) /\ n \in 0 .. Len(log)
          BY <3>2, <4>2
        <5>2. SubSeq(log', 1, n) = SubSeq(log, 1, n)
          BY <2>2, <3>1, <5>1, DurabilityAssumption, FileProofs!PrefixOfAppend
        <5> QED BY <3>3, <5>1, <5>2 DEF Found
      <4> QED BY <4>1, <4>2
    <3> QED BY <1>3, <2>2, <3>3 DEF Found
  <2> QED BY <1>3, <2>1, <2>2
<1>5. ~Unlogged'
  BY <1>0, <1>2 DEF Unlogged
<1>6. ASSUME NEW k \in Key \ doubtful, NEW s \in Found'
      PROVE  Same(Replay(s), settled, k, now) \/ Same(Replay(s), db, k, now)
  <2>1. CASE s \in Found
    BY <2>1 DEF AckInv
  <2>2. CASE s = Append(log, r)
    BY <1>0, <2>2, AppendedIsSame
  <2> QED BY <1>4, <2>1, <2>2
<1> QED BY <1>2, <1>3, <1>5, <1>6 DEF AckInv

LEMMA AckSync ==
  ASSUME BaseInv, AckInv, SyncStep
  PROVE  AckInv'
<1>1. /\ Quiet /\ policy = "everysec" /\ journal = "open"
      /\ UNCHANGED <<log, buffer, policy, vars, settled, doubtful>>
  BY DEF SyncStep, File!Sync, reportVars
<1>2. Found' = Found /\ (Unlogged' <=> Unlogged)
  BY <1>1 DEF Found, Unlogged, vars
<1> QED BY <1>1, <1>2 DEF AckInv, vars

(* A stop leaves one of the logs it may leave, but for the keys at risk.   *)
LEMMA StoppedFound ==
  ASSUME BaseInv, Stopped, NEW s \in Found', NEW k \in Key \ doubtful', NEW t
  PROVE  \E p \in Found : Same(Replay(s), Replay(p), k, t)
<1>0. /\ log \in Seq(LogRecord) /\ synced \in 0 .. Len(log) /\ synced \in Nat
      /\ Len(log) \in Nat /\ buffer \in LogRecord \cup {None} /\ buffer' = None
  BY FileFacts, StoppedEffect DEF BaseInv
<1>1. CASE s \in Found
  BY <1>1, AgreeSelf DEF Agree
<1>2. ASSUME s \notin Found
      PROVE  \E p \in Found : Same(Replay(s), Replay(p), k, t)
  <2>1. CASE File!Kill(Writing) /\ LoseMemory({})
    <3>1. Found' \subseteq Found
      BY <1>0, <2>1 DEF File!Kill, Found
    <3> QED BY <1>2, <3>1
  <2>2. CASE File!Close /\ LoseMemory({})
    <3>1. CASE log' = log
      <4>1. synced' \in {synced, Len(log)} /\ policy' = policy
        BY <2>2 DEF File!Close
      <4>2. Found' \subseteq Found
        BY <1>0, <3>1, <4>1 DEF Found
      <4> QED BY <1>2, <4>2
    <3>2. CASE log' = Append(log, buffer) /\ buffer # None /\ synced' = synced
      <4>1. policy' = policy /\ log' \in Found
        BY <2>2, <3>2 DEF File!Close, Found
      <4>2. buffer \in LogRecord /\ Len(log') = Len(log) + 1 /\ log' \in Seq(LogRecord)
        BY <1>0, <3>2
      <4>3. ASSUME policy = "always", NEW n \in synced .. Len(log')
            PROVE  SubSeq(log', 1, n) \in Found
        <5>1. CASE n = Len(log')
          <6>1. SubSeq(log', 1, n) = log'
            BY <4>2, <5>1
          <6> QED BY <4>1, <6>1
        <5>2. CASE n # Len(log')
          <6>1. n \in synced .. Len(log) /\ n \in 0 .. Len(log)
            BY <1>0, <4>2, <5>2
          <6>2. SubSeq(log', 1, n) = SubSeq(log, 1, n)
            BY <1>0, <3>2, <4>2, <6>1, DurabilityAssumption, FileProofs!PrefixOfAppend
          <6> QED BY <4>3, <6>1, <6>2 DEF Found
        <5> QED BY <5>1, <5>2
      <4>4. Found' \subseteq Found
        BY <1>0, <3>2, <4>1, <4>3 DEF Found
      <4> QED BY <1>2, <4>4
    <3> QED BY <2>2, <3>1, <3>2 DEF File!Close
  <2>3. CASE /\ File!PowerLoss(Writing)
             /\ LoseMemory(IF policy = "always" THEN {} ELSE Uncommitted)
    <3>1. PICK n \in synced .. Len(log) : log' = SubSeq(log, 1, n) /\ synced' = n
      BY <2>3 DEF File!PowerLoss
    <3>2. n \in 0 .. Len(log) /\ n \in Nat /\ synced <= n
      BY <1>0, <3>1
    <3>3. log' \in Seq(LogRecord) /\ Len(log') = n
      BY <1>0, <3>1, <3>2, PrefixOf
    <3>4. Found' = {log'}
      <4>1. n .. n = {n} /\ SubSeq(log', 1, n) = log'
        BY <3>2, <3>3
      <4> QED BY <1>0, <3>1, <3>3, <4>1 DEF Found
    <3>5. CASE policy = "always"
      BY <1>2, <3>1, <3>4, <3>5 DEF Found
    <3>6. CASE policy # "always"
      <4>1. k \notin Uncommitted
        BY <2>3, <3>6 DEF LoseMemory
      <4>2. ASSUME NEW i \in n + 1 .. Len(log)
            PROVE  k \notin Named(log[i])
        <5>1. i \in synced + 1 .. Len(log)
          BY <1>0, <3>2
        <5> QED BY <4>1, <5>1 DEF Uncommitted
      <4>3. Same(Replay(log'), Replay(log), k, t)
        BY <1>0, <3>1, <3>2, <4>2, ReplayPrefix, SameEntry
      <4> QED BY <3>4, <4>3, LogFound
    <3> QED BY <3>5, <3>6
  <2> QED BY <2>1, <2>2, <2>3 DEF Stopped, Stop, Killed, PowerFailure
<1> QED BY <1>1, <1>2

LEMMA AckStopped ==
  ASSUME BaseInv, AckInv, Stopped
  PROVE  AckInv'
<1>1. /\ journal' = "closed" /\ mode' = "loading" /\ UNCHANGED <<now, settled>>
  BY StoppedEffect
<1>2. /\ doubtful \subseteq doubtful'
      /\ mode = "serving" => Unsettled \subseteq doubtful'
  BY DEF Stopped, Stop, Killed, PowerFailure, LoseMemory
<1>3. ASSUME NEW k \in Key \ doubtful', NEW s \in Found'
      PROVE  Same(Replay(s), settled, k, now)
  <2>1. PICK p \in Found : Same(Replay(s), Replay(p), k, now)
    BY <1>3, StoppedFound
  <2>2. k \in Key \ doubtful
    BY <1>2
  <2>3. Same(Replay(p), settled, k, now)
    <3>1. CASE Same(Replay(p), settled, k, now)
      BY <3>1
    <3>2. CASE ~Unlogged /\ Same(Replay(p), db, k, now)
      <4>1. mode = "serving"
        BY <3>2 DEF Unlogged, BaseInv, StoreInv, TypeOK
      <4>2. LiveAt(db, now)[k] = LiveAt(settled, now)[k]
        BY <1>2, <4>1 DEF Unsettled
      <4>3. Tables(db) /\ Tables(settled)
        BY WellFormedTables DEF BaseInv, StoreInv, Kept
      <4>4. Same(db, settled, k, now)
        BY <4>2, <4>3, SameIsLiveAt
      <4> QED BY <3>2, <4>4, SameTrans
    <3> QED BY <2>2, <3>1, <3>2 DEF AckInv
  <2> QED BY <2>1, <2>3, SameTrans
<1> QED BY <1>1, <1>3 DEF AckInv

LEMMA AckRecover ==
  ASSUME BaseInv, Recover
  PROVE  AckInv'
<1>0. (FileOK /\ journal = "open" /\ buffer = None
         /\ (policy = "always" => Uncommitted \subseteq doubtful)
       => \A k \in Key \ doubtful, s \in Found :
            \A t : Same(Replay(s), Replay(log), k, t))'
  BY FoundOpen, PTL
<1>1. /\ journal' = "open" /\ log' = log /\ buffer' = None /\ now' = now
      /\ Agree(db', Replay(log), now) /\ settled' = Image(db')
      /\ doubtful' = IF policy' = "always" THEN Uncommitted' ELSE {}
  BY RecoverEffect DEF Recover
<1>2. Agree(settled', db', now') /\ Agree(db', settled', now')
  BY <1>1, SameEntry DEF Agree, Image
<1>3. ASSUME NEW k \in Key \ doubtful', NEW s \in Found'
      PROVE  Same(Replay(s), settled', k, now')
  <2>1. FileOK'
    BY RecoverBase DEF BaseInv
  <2>2. Same(Replay(s), Replay(log), k, now)
    BY <1>0, <1>1, <1>3, <2>1
  <2>3. Same(Replay(log), db', k, now)
    BY <1>1, AgreeSym DEF Agree
  <2> QED BY <1>1, <1>2, <2>2, <2>3, SameTrans DEF Agree
<1> QED BY <1>1, <1>2, <1>3 DEF AckInv

LEMMA AckStep ==
  ASSUME BaseInv, MatchInv, AckInv, [DurableNext]_allVars
  PROVE  AckInv'
<1>0. StoreInv /\ StoreInv'
  BY BaseStep DEF BaseInv
<1>1. CASE ReadCommand \/ SweeperStep \/ ClockStep \/ RefuseMutation
  BY <1>0, <1>1, ReadUnnoticed, SweepUnnoticed, ClockUnnoticed, RefuseUnnoticed,
     AckUnnoticed
<1>2. CASE EvictStep \/ WriteStep
  <2>1. /\ call # None /\ UNCHANGED <<fileVars, reportVars, mode, now>>
        /\ call' # None \/ entry' # None
    <3>1. CASE EvictStep
      BY <3>1 DEF EvictStep, EvictOne, NoJournalling
    <3>2. CASE WriteStep
      BY <3>2, WriteRecorded, DurabilityAssumption
    <3> QED BY <1>2, <3>1, <3>2
  <2>2. Unlogged /\ mode # "loading" /\ ~Quiet'
    BY <2>1 DEF Unlogged, Quiet, BaseInv, Phases, Busy
  <2> QED BY <2>1, <2>2, AckUnlogged
<1>3. CASE VictimsStep
  <2>1. /\ evicted # {} /\ victims' # {}
        /\ UNCHANGED <<fileVars, reportVars, mode, now>>
    BY <1>3 DEF VictimsStep, TakeEvicted
  <2>2. Unlogged /\ mode # "loading" /\ ~Quiet'
    BY <2>1 DEF Unlogged, Quiet, BaseInv, Phases, Busy
  <2> QED BY <2>1, <2>2, AckUnlogged
<1>4. CASE Stop \/ Killed \/ PowerFailure
  BY <1>4, AckStopped DEF Stopped
<1>5. CASE UNCHANGED allVars
  <2>1. Unnoticed
    BY <1>0, <1>5, NowIsInt, AgreeSelf DEF Unnoticed, allVars, vars
  <2> QED BY <1>0, <2>1, AckUnnoticed
<1> QED BY <1>1, <1>2, <1>3, <1>4, <1>5, AckMutation, AckAppend, AckAppendError,
           AckSync, AckRecover DEF DurableNext

LEMMA AckInvariance == DurableSpec => []AckInv
<1>1. DurableInit => AckInv
  <2> SUFFICES ASSUME DurableInit PROVE AckInv
    OBVIOUS
  <2>1. /\ log = <<>> /\ synced = 0 /\ buffer = None /\ journal = "closed"
        /\ settled = Image(EmptyKeyspace)
    BY DEF DurableInit, File!FileInit
  <2>2. Found = {<<>>}
    <3>1. {SubSeq(<<>>, 1, n) : n \in 0 .. Len(<<>>)} = {<<>>}
      <4>1. Len(<<>>) = 0 /\ SubSeq(<<>>, 1, 0) = <<>> /\ 0 .. 0 = {0}
        OBVIOUS
      <4> QED BY <4>1
    <3> QED BY <2>1, <3>1 DEF Found
  <2>3. \A k \in Key : Same(Replay(<<>>), settled, k, now)
    BY <2>1, ReplayEmpty, SameEntry DEF Image
  <2> QED BY <2>1, <2>2, <2>3 DEF AckInv
<1>2. BaseInv /\ MatchInv /\ AckInv /\ [DurableNext]_allVars => AckInv'
  BY AckStep
<1> QED BY <1>1, <1>2, BaseInvariance, MatchInvariance, PTL DEF DurableSpec

(* What AckedSurvives asks of a step.                                      *)
AckedKept ==
  mode = "loading" /\ mode' = "serving" =>
    \A k \in Key \ doubtful : LiveAt(db', now')[k] = LiveAt(settled, now')[k]

LEMMA OnlyRecoverStarts ==
  ASSUME BaseInv, [DurableNext]_allVars, mode = "loading", mode' = "serving"
  PROVE  Recover
<1>0. StoreInv /\ Phases /\ ~Busy
  BY DEF BaseInv, Phases
<1>1. CASE Mutation
  BY <1>0, <1>1, MutationFrame DEF Quiet
<1>2. CASE ReadCommand \/ SweeperStep \/ ClockStep \/ RefuseMutation
  BY <1>0, <1>2, ReadUnnoticed, SweepUnnoticed, ClockUnnoticed, RefuseUnnoticed
  DEF Unnoticed
<1>3. CASE EvictStep \/ WriteStep \/ VictimsStep \/ AppendStep \/ AppendError
  BY <1>0, <1>3 DEF EvictStep, EvictOne, WriteStep, FinishWrite, VictimsStep, TakeEvicted,
                    AppendStep, AppendError, Writing, Busy
<1>4. CASE SyncStep
  BY <1>4 DEF SyncStep, vars
<1>5. CASE Stop \/ Killed \/ PowerFailure
  BY <1>5, StoppedEffect DEF Stopped
<1>6. CASE UNCHANGED allVars
  BY <1>6 DEF allVars, vars
<1> QED BY <1>1, <1>2, <1>3, <1>4, <1>5, <1>6 DEF DurableNext

(* A restart gives back every acknowledged change: after a kill or a stop  *)
(* under any policy, after a power failure under always, and under the     *)
(* others but for what was not committed.                                  *)
THEOREM AcknowledgedSurvives == DurableSpec => AckedSurvives
<1>1. BaseInv /\ AckInv /\ [DurableNext]_allVars => [AckedKept]_allVars
  <2> SUFFICES ASSUME BaseInv, AckInv, [DurableNext]_allVars,
                      mode = "loading", mode' = "serving", NEW k \in Key \ doubtful
               PROVE  LiveAt(db', now')[k] = LiveAt(settled, now')[k]
    BY DEF AckedKept
  <2>1. Recover
    BY OnlyRecoverStarts
  <2>2. /\ WellFormed(db') /\ Agree(db', Replay(log), now) /\ now' = now
    BY <2>1, RecoverEffect DEF Recover
  <2>3. Same(Replay(log), settled, k, now)
    BY LogFound DEF AckInv, Unlogged
  <2>4. Same(db', settled, k, now)
    BY <2>2, <2>3, SameTrans DEF Agree
  <2>5. Tables(db') /\ Tables(settled)
    BY <2>2, WellFormedTables DEF BaseInv, Kept
  <2> QED BY <2>2, <2>4, <2>5, SameIsLiveAt
<1> QED BY <1>1, BaseInvariance, AckInvariance, PTL
        DEF DurableSpec, AckedSurvives, AckedKept

-----------------------------------------------------------------------------
(* What a restart takes of the memory.                                     *)

(* A keyspace with fewer of the same entries is no larger.                 *)
LEMMA Cheaper ==
  ASSUME NEW d, WellFormed(d), NEW e, WellFormed(e),
         \A k \in Key : e.data[k] \in {None, d.data[k]}
  PROVE  e.memory <= d.memory /\ e.memory \in Int /\ d.memory \in Int
<1> DEFINE S == Present(e)
           T == Present(d) \ Present(e)
<1>1. /\ d \in KeyspaceType /\ e \in KeyspaceType
      /\ S \in SUBSET Present(d) /\ T \in SUBSET Present(d)
      /\ S \cap T = {} /\ S \cup T = Present(d)
      /\ \A k \in S : e.data[k] = d.data[k]
  BY DEF WellFormed, Present
<1> HIDE DEF T
<1>2. Costed(d.data, S) /\ Costed(d.data, T)
  BY <1>1, PresentCosted
<1>3. /\ TotalCost(d.data, S) \in Nat /\ TotalCost(d.data, T) \in Nat
      /\ TotalCost(d.data, S \cup T) = TotalCost(d.data, S) + TotalCost(d.data, T)
  BY <1>1, <1>2, TotalCostNat, TotalCostUnion
<1>4. TotalCost(e.data, S) = TotalCost(d.data, S)
  BY <1>1, TotalCostSame
<1>5. e.memory = TotalCost(e.data, S) /\ d.memory = TotalCost(d.data, S \cup T)
  BY <1>1 DEF WellFormed, MemoryExact
<1> HIDE DEF S
<1> QED BY <1>3, <1>4, <1>5

(* What d takes once recovery has dropped what has expired.                *)
LiveCost(d, t) == DropExpired(d, t).memory

LEMMA DroppedTables ==
  ASSUME NEW d, WellFormed(d), NEW t
  PROVE  /\ WellFormed(DropExpired(d, t))
         /\ \A k \in Key : DropExpired(d, t).data[k] = IF AliveAt(d, k, t) THEN d.data[k]
                                                                         ELSE None
<1>1. WellFormed(DropExpired(d, t))
  BY DropExpiredWellFormed
<1>2. ASSUME NEW k \in Key
      PROVE  DropExpired(d, t).data[k] = IF AliveAt(d, k, t) THEN d.data[k] ELSE None
  BY DEF DropExpired, Removed, AliveAt, Present
<1> QED BY <1>1, <1>2

(* It is at most what d takes, ...                                         *)
LEMMA LiveCostBelow ==
  ASSUME NEW d, WellFormed(d), NEW t
  PROVE  LiveCost(d, t) <= d.memory /\ LiveCost(d, t) \in Int /\ d.memory \in Int
BY DroppedTables, Cheaper DEF LiveCost

(* ... and of two keyspaces, one shows no more than the other.             *)
LEMMA LiveCostLess ==
  ASSUME NEW d, WellFormed(d), NEW e, WellFormed(e), NEW t, NEW u,
         \A k \in Key : AliveAt(e, k, u) => AliveAt(d, k, t) /\ e.data[k] = d.data[k]
  PROVE  LiveCost(e, u) <= LiveCost(d, t) /\ LiveCost(e, u) \in Int
         /\ LiveCost(d, t) \in Int
<1>1. \A k \in Key : DropExpired(e, u).data[k] \in {None, DropExpired(d, t).data[k]}
  BY DroppedTables
<1>2. WellFormed(DropExpired(d, t)) /\ WellFormed(DropExpired(e, u))
  BY DroppedTables
<1> QED BY <1>1, <1>2, Cheaper DEF LiveCost

LEMMA LiveCostLater ==
  ASSUME NEW d, WellFormed(d), NEW t \in Int, NEW u \in Int, t <= u
  PROVE  LiveCost(d, u) <= LiveCost(d, t) /\ LiveCost(d, u) \in Int
         /\ LiveCost(d, t) \in Int
<1>1. \A k \in Key : AliveAt(d, k, u) => AliveAt(d, k, t)
  BY AliveBefore DEF WellFormed
<1> QED BY <1>1, LiveCostLess

(* The prefixes of what a stop may leave.                                  *)
Prefixes ==
  {SubSeq(log, 1, n) : n \in 0 .. Len(log)}
    \cup (IF buffer # None THEN {Append(log, buffer)} ELSE {})

(* Cut anywhere, the log brings the store up within the limit.             *)
FitInv ==
  MaxMemory # 0 =>
    /\ db.memory <= MaxMemory
    /\ \A s \in Prefixes : LiveCost(Replay(s), now) <= MaxMemory

LEMMA PrefixLogs ==
  ASSUME FileOK, NEW s \in Prefixes
  PROVE  s \in Seq(LogRecord) /\ WellFormed(Replay(s))
<1>1. s \in Seq(LogRecord)
  <2>1. CASE \E n \in 0 .. Len(log) : s = SubSeq(log, 1, n)
    BY <2>1, FileFacts, PrefixOf
  <2>2. CASE buffer # None /\ s = Append(log, buffer)
    BY <2>2, FileFacts
  <2> QED BY <2>1, <2>2 DEF Prefixes
<1> QED BY <1>1, ReplayWellFormed

LEMMA LogIsPrefix ==
  ASSUME FileOK
  PROVE  log \in Prefixes
<1>1. log \in Seq(LogRecord) /\ Len(log) \in 0 .. Len(log)
  BY FileFacts
<1>2. SubSeq(log, 1, Len(log)) = log
  BY <1>1
<1> QED BY <1>1, <1>2 DEF Prefixes

(* Time only helps.                                                        *)
LEMMA FitFrame ==
  ASSUME BaseInv, FitInv, now' \in Int, now <= now',
         \A s \in Prefixes' : \/ s \in Prefixes
                              \/ /\ s \in Seq(LogRecord)
                                 /\ MaxMemory # 0 => LiveCost(Replay(s), now) <= MaxMemory,
         MaxMemory # 0 => db'.memory <= MaxMemory
  PROVE  FitInv'
<1> SUFFICES ASSUME MaxMemory # 0, NEW s \in Prefixes'
             PROVE  LiveCost(Replay(s), now') <= MaxMemory
  BY DEF FitInv
<1>1. now \in Int /\ MaxMemory \in Int
  BY NowIsInt, StoreAssumption DEF BaseInv
<1>2. WellFormed(Replay(s)) /\ LiveCost(Replay(s), now) <= MaxMemory
  BY PrefixLogs, ReplayWellFormed DEF BaseInv, FitInv
<1>3. /\ LiveCost(Replay(s), now') <= LiveCost(Replay(s), now)
      /\ LiveCost(Replay(s), now') \in Int /\ LiveCost(Replay(s), now) \in Int
  BY <1>1, <1>2, LiveCostLater
<1> QED BY <1>1, <1>2, <1>3

(* A step of the store, while clients are served.                          *)
LEMMA FitStore ==
  ASSUME BaseInv, FitInv, StoreInv', LimitKept, mode = "serving",
         now' \in Int, now <= now', UNCHANGED fileVars
  PROVE  FitInv'
<1>1. ASSUME MaxMemory # 0 PROVE db'.memory <= MaxMemory
  <2>1. CASE \E k \in Key : db'.data[k] \notin {None, db.data[k]}
    BY <1>1, <2>1 DEF LimitKept
  <2>2. CASE \A k \in Key : db'.data[k] \in {None, db.data[k]}
    <3>1. /\ db'.memory <= db.memory /\ db'.memory \in Int /\ db.memory \in Int
      BY <2>2, Cheaper DEF BaseInv, StoreInv
    <3> QED BY <1>1, <3>1, StoreAssumption DEF FitInv
  <2> QED BY <2>1, <2>2
<1>2. Prefixes' = Prefixes
  BY DEF Prefixes, fileVars
<1> QED BY <1>1, <1>2, FitFrame

(* The next record deletes a victim, or makes of the log what memory has.  *)
LEMMA NextFits ==
  ASSUME BaseInv, MatchInv, FitInv, Writing, NEW r \in NextRecords, MaxMemory # 0
  PROVE  LiveCost(Replay(Append(log, r)), now) <= MaxMemory
<1> DEFINE d == Replay(log)
<1>1. /\ evicted = {} /\ journal = "open" /\ victims \in SUBSET Key
      /\ entry \in LogRecord /\ r \in LogRecord
      /\ \/ victims = {} /\ r = entry
         \/ \E j \in victims : r = DeleteRecord({j}) /\ r.keys = {j}
  BY WritingFacts
<1>2. log \in Seq(LogRecord) /\ WellFormed(d) /\ WellFormed(db) /\ MaxMemory \in Int
  BY FileFacts, ReplayWellFormed, StoreAssumption DEF BaseInv, StoreInv
<1>3. Replay(Append(log, r)) = Apply(d, r) /\ WellFormed(Apply(d, r))
  BY <1>1, <1>2, ReplayAppend, ApplyWellFormed
<1>4. LiveCost(d, now) <= MaxMemory /\ db.memory <= MaxMemory
  BY LogIsPrefix DEF FitInv, BaseInv
<1>5. MatchInv => Agree(Owed(d, victims, entry), db, now)
  <2>1. victims \cup evicted = victims
    BY <1>1
  <2> QED BY <1>1, <2>1 DEF MatchInv
<1> HIDE DEF d
<1>6. CASE victims = {} /\ r = entry
  <2>1. Agree(Apply(d, r), db, now)
    BY <1>1, <1>2, <1>5, <1>6, OwedNothing, AgreeTrans
  <2>2. /\ LiveCost(Apply(d, r), now) <= LiveCost(db, now)
        /\ LiveCost(Apply(d, r), now) \in Int /\ LiveCost(db, now) \in Int
    BY <1>2, <1>3, <2>1, LiveCostLess DEF Agree, Same
  <2>3. LiveCost(db, now) <= db.memory /\ db.memory \in Int
    BY <1>2, LiveCostBelow
  <2> QED BY <1>2, <1>3, <1>4, <2>2, <2>3
<1>7. CASE \E j \in victims : r = DeleteRecord({j}) /\ r.keys = {j}
  <2>1. r.op = "DEL"
    BY <1>7 DEF DeleteRecord
  <2>2. \A k \in Key :
          /\ Apply(d, r).data[k] = IF k \in r.keys THEN None ELSE d.data[k]
          /\ Apply(d, r).expires[k] = IF k \in r.keys THEN None ELSE d.expires[k]
    BY <1>1, <1>2, <2>1, ApplyDelete
  <2>3. \A k \in Key : AliveAt(Apply(d, r), k, now) =>
                         AliveAt(d, k, now) /\ Apply(d, r).data[k] = d.data[k]
    BY <2>2 DEF AliveAt, Present, ExpiredAt
  <2>4. /\ LiveCost(Apply(d, r), now) <= LiveCost(d, now)
        /\ LiveCost(Apply(d, r), now) \in Int /\ LiveCost(d, now) \in Int
    BY <1>2, <1>3, <2>3, LiveCostLess
  <2> QED BY <1>2, <1>3, <1>4, <2>4
<1> QED BY <1>1, <1>6, <1>7

(* What an append adds to the prefixes.                                    *)
LEMMA AppendedPrefixes ==
  ASSUME NEW s \in Seq(LogRecord), NEW r \in LogRecord, NEW n \in 0 .. Len(Append(s, r))
  PROVE  \/ SubSeq(Append(s, r), 1, n) = Append(s, r)
         \/ n \in 0 .. Len(s) /\ SubSeq(Append(s, r), 1, n) = SubSeq(s, 1, n)
<1>1. /\ Append(s, r) \in Seq(LogRecord) /\ Len(Append(s, r)) = Len(s) + 1
      /\ Len(s) \in Nat
  OBVIOUS
<1>2. CASE n = Len(Append(s, r))
  BY <1>1, <1>2
<1>3. CASE n # Len(Append(s, r))
  <2>1. n \in 0 .. Len(s)
    BY <1>1, <1>3
  <2> QED BY <2>1, DurabilityAssumption, FileProofs!PrefixOfAppend
<1> QED BY <1>2, <1>3

LEMMA FitAppended ==
  ASSUME BaseInv, MatchInv, FitInv, Writing, NEW r \in NextRecords,
         UNCHANGED <<db, now>>,
         \/ log' = log /\ buffer' \in {None, r}
         \/ log' = Append(log, r) /\ buffer' = None
  PROVE  FitInv'
<1>0. /\ now \in Int /\ log \in Seq(LogRecord) /\ r \in LogRecord
      /\ Append(log, r) \in Seq(LogRecord)
  BY NowIsInt, FileFacts, WritingFacts DEF BaseInv
<1>1. MaxMemory # 0 => LiveCost(Replay(Append(log, r)), now) <= MaxMemory
  BY NextFits
<1>2. ASSUME NEW s \in Prefixes'
      PROVE  s \in Prefixes \/ s = Append(log, r)
  <2>1. CASE log' = log /\ buffer' \in {None, r}
    BY <1>2, <2>1 DEF Prefixes
  <2>2. CASE log' = Append(log, r) /\ buffer' = None
    <3>1. PICK n \in 0 .. Len(Append(log, r)) : s = SubSeq(Append(log, r), 1, n)
      BY <1>2, <2>2 DEF Prefixes
    <3> QED BY <1>0, <3>1, AppendedPrefixes DEF Prefixes
  <2> QED BY <2>1, <2>2
<1>3. MaxMemory # 0 => db'.memory <= MaxMemory
  BY DEF FitInv
<1>4. \A s \in Prefixes' : \/ s \in Prefixes
                           \/ /\ s \in Seq(LogRecord)
                              /\ MaxMemory # 0 => LiveCost(Replay(s), now) <= MaxMemory
  BY <1>0, <1>1, <1>2
<1> QED BY <1>0, <1>3, <1>4, FitFrame

(* A stop cuts the log, or completes it with what is in the buffer.        *)
LEMMA StoppedPrefixes ==
  ASSUME BaseInv, Stopped
  PROVE  Prefixes' \subseteq Prefixes
<1>0. /\ log \in Seq(LogRecord) /\ synced \in 0 .. Len(log) /\ Len(log) \in Nat
      /\ buffer \in LogRecord \cup {None} /\ buffer' = None
  BY FileFacts, StoppedEffect DEF BaseInv
<1>1. CASE log' = log
  BY <1>0, <1>1 DEF Prefixes
<1>2. CASE log' = Append(log, buffer) /\ buffer # None
  <2>1. ASSUME NEW n \in 0 .. Len(log')
        PROVE  SubSeq(log', 1, n) \in Prefixes
    BY <1>0, <1>2, <2>1, AppendedPrefixes DEF Prefixes
  <2> QED BY <1>0, <2>1 DEF Prefixes
<1>3. CASE \E m \in 0 .. Len(log) : log' = SubSeq(log, 1, m)
  <2>1. PICK m \in 0 .. Len(log) : log' = SubSeq(log, 1, m)
    BY <1>3
  <2>2. Len(log') = m
    BY <1>0, <2>1, PrefixOf
  <2>3. ASSUME NEW n \in 0 .. Len(log')
        PROVE  SubSeq(log', 1, n) \in Prefixes
    <3>1. n \in 0 .. m /\ n \in 0 .. Len(log)
      BY <1>0, <2>2
    <3>2. SubSeq(log', 1, n) = SubSeq(log, 1, n)
      BY <1>0, <2>1, <3>1, DurabilityAssumption, FileProofs!PrefixOfPrefix
    <3> QED BY <3>1, <3>2 DEF Prefixes
  <2> QED BY <1>0, <2>3 DEF Prefixes
<1>4. CASE \E n \in synced .. Len(log) : log' = SubSeq(log, 1, n)
  BY <1>0, <1>3, <1>4
<1>5. \/ log' = log
      \/ log' = Append(log, buffer) /\ buffer # None
      \/ \E n \in synced .. Len(log) : log' = SubSeq(log, 1, n)
  BY StoppedEffect DEF File!Close, File!Kill, File!PowerLoss
<1> QED BY <1>1, <1>2, <1>4, <1>5

LEMMA FitStep ==
  ASSUME BaseInv, MatchInv, FitInv, [DurableNext]_allVars
  PROVE  FitInv'
<1>0. StoreInv /\ StoreInv' /\ Phases /\ now \in Int /\ MaxMemory \in Nat
  BY BaseStep, NowIsInt, StoreAssumption DEF BaseInv
<1>1. CASE Mutation \/ ReadCommand \/ SweeperStep \/ EvictStep \/ WriteStep
  <2>1. LimitKept /\ mode = "serving" /\ UNCHANGED fileVars
        /\ now' \in Int /\ now <= now'
    <3>1. CASE Mutation
      <4>1. Operation /\ mode = "serving" /\ UNCHANGED fileVars
        BY <1>0, <3>1, MutationFrame DEF Quiet
      <4> QED BY <1>0, <3>1, <4>1, OperationInv, MutationJournalled DEF Journalled
    <3>2. CASE ReadCommand
      <4>1. Operation /\ Unnoticed /\ mode = "serving"
        BY <1>0, <3>2, ReadUnnoticed DEF ReadCommand, Quiet
      <4> QED BY <1>0, <4>1, OperationInv DEF Unnoticed
    <3>3. CASE SweeperStep
      <4>1. Sweep /\ Unnoticed /\ mode = "serving"
        BY <1>0, <3>3, SweepUnnoticed DEF SweeperStep, Quiet
      <4> QED BY <1>0, <4>1, SweepInv DEF Unnoticed
    <3>4. CASE EvictStep
      <4>1. EvictOne /\ now' = now /\ UNCHANGED fileVars /\ call # None
        BY <3>4 DEF EvictStep, EvictOne, NoJournalling
      <4>2. mode = "serving"
        BY <1>0, <4>1 DEF Phases, Busy, StoreInv, TypeOK
      <4> QED BY <1>0, <4>1, <4>2, EvictOneInv
    <3>5. CASE WriteStep
      <4>1. FinishWrite /\ now' = now /\ UNCHANGED fileVars /\ call # None
        BY <3>5, WriteRecorded DEF WriteStep
      <4>2. mode = "serving"
        BY <1>0, <4>1 DEF Phases, Busy, StoreInv, TypeOK
      <4> QED BY <1>0, <4>1, <4>2, FinishWriteInv
    <3> QED BY <1>1, <3>1, <3>2, <3>3, <3>4, <3>5
  <2> QED BY <1>0, <2>1, FitStore
<1>2. CASE ClockStep \/ RefuseMutation \/ VictimsStep \/ UNCHANGED allVars
  <2>1. db' = db /\ UNCHANGED fileVars /\ now' \in Int /\ now <= now'
    <3>1. CASE ClockStep
      BY <1>0, <3>1 DEF ClockStep, Tick, NoJournalling
    <3>2. CASE RefuseMutation
      BY <1>0, <3>2 DEF RefuseMutation, NoJournalling
    <3>3. CASE VictimsStep
      BY <1>0, <3>3 DEF VictimsStep, TakeEvicted
    <3>4. CASE UNCHANGED allVars
      BY <1>0, <3>4 DEF allVars, vars
    <3> QED BY <1>2, <3>1, <3>2, <3>3, <3>4
  <2>2. Prefixes' = Prefixes
    BY <2>1 DEF Prefixes, fileVars
  <2>3. MaxMemory # 0 => db'.memory <= MaxMemory
    BY <2>1 DEF FitInv
  <2> QED BY <2>1, <2>2, <2>3, FitFrame
<1>3. CASE AppendStep
  <2>1. PICK r \in LogRecord :
          NextIs(r) /\ log' = Append(log, r) /\ buffer' = buffer /\ UNCHANGED vars
    BY <1>3, AppendEffect
  <2>2. r \in NextRecords
    BY <2>1 DEF NextIs, NextRecords
  <2>3. Writing /\ buffer' = None /\ UNCHANGED <<db, now>>
    BY <1>3, <2>1, WritingFacts DEF AppendStep, vars
  <2> QED BY <2>1, <2>2, <2>3, FitAppended
<1>4. CASE AppendError
  <2>1. PICK r \in NextRecords : File!AppendFail(r)
    BY <1>4 DEF AppendError
  <2>2. Writing /\ buffer = None /\ tail = "none" /\ UNCHANGED <<db, now>>
    BY <1>4, WritingFacts DEF AppendError
  <2>3. \/ log' = log /\ buffer' = r
        \/ log' = Append(log, r) /\ buffer' = None
    BY <2>1, <2>2 DEF File!AppendFail, File!Land
  <2> QED BY <2>1, <2>2, <2>3, FitAppended
<1>5. CASE SyncStep
  <2>1. UNCHANGED <<db, now, log, buffer>>
    BY <1>5 DEF SyncStep, File!Sync, vars
  <2>2. Prefixes' = Prefixes
    BY <2>1 DEF Prefixes
  <2>3. MaxMemory # 0 => db'.memory <= MaxMemory
    BY <2>1 DEF FitInv
  <2> QED BY <1>0, <2>1, <2>2, <2>3, FitFrame
<1>6. CASE Stopped
  <2>1. db' = EmptyKeyspace /\ now' = now /\ Prefixes' \subseteq Prefixes
    BY <1>6, StoppedEffect, StoppedPrefixes
  <2>2. db'.memory <= MaxMemory
    BY <1>0, <2>1 DEF EmptyKeyspace
  <2> QED BY <1>0, <2>1, <2>2, FitFrame
<1>7. CASE Recover
  <2>1. /\ now' = now /\ log' = log /\ buffer' = buffer
        /\ db' = DropExpired(Replay(log), now)
    BY <1>7, RecoverEffect DEF Recover
  <2>2. Prefixes' = Prefixes
    BY <2>1 DEF Prefixes
  <2>3. MaxMemory # 0 => db'.memory <= MaxMemory
    BY <2>1, LogIsPrefix DEF FitInv, LiveCost, BaseInv
  <2> QED BY <1>0, <2>1, <2>2, <2>3, FitFrame
<1> QED BY <1>1, <1>2, <1>3, <1>4, <1>5, <1>6, <1>7 DEF DurableNext, Stopped

LEMMA FitInvariance == DurableSpec => []FitInv
<1>1. DurableInit => FitInv
  <2> SUFFICES ASSUME DurableInit PROVE FitInv
    OBVIOUS
  <2>1. log = <<>> /\ buffer = None /\ db = EmptyKeyspace
    BY DEF DurableInit, Init, File!FileInit
  <2>2. Prefixes = {<<>>}
    <3>1. {SubSeq(<<>>, 1, n) : n \in 0 .. Len(<<>>)} = {<<>>}
      <4>1. Len(<<>>) = 0 /\ SubSeq(<<>>, 1, 0) = <<>> /\ 0 .. 0 = {0}
        OBVIOUS
      <4> QED BY <4>1
    <3> QED BY <2>1, <3>1 DEF Prefixes
  <2>3. EmptyKeyspace.memory = 0 /\ MaxMemory \in Nat
    BY StoreAssumption DEF EmptyKeyspace
  <2>4. LiveCost(EmptyKeyspace, now) <= 0 /\ LiveCost(EmptyKeyspace, now) \in Int
    BY <2>3, EmptyWellFormed, LiveCostBelow
  <2> QED BY <2>1, <2>2, <2>3, <2>4, ReplayEmpty DEF FitInv
<1>2. BaseInv /\ MatchInv /\ FitInv /\ [DurableNext]_allVars => FitInv'
  BY FitStep
<1> QED BY <1>1, <1>2, BaseInvariance, MatchInvariance, PTL DEF DurableSpec

RecoveredKept ==
  mode = "loading" /\ mode' = "serving" /\ MaxMemory # 0 => db'.memory <= MaxMemory

(* Because victims are journalled before the write that needed their room, *)
(* no crash between the two can bring a store up above its limit           *)
(* (server.py:173-180 warns of a limit that was lowered, and only then).   *)
THEOREM RestartFits == DurableSpec => RecoveredFits
<1>1. BaseInv /\ MatchInv /\ FitInv /\ [DurableNext]_allVars => [RecoveredKept]_allVars
  BY FitStep DEF FitInv, RecoveredKept
<1> QED BY <1>1, BaseInvariance, MatchInvariance, FitInvariance, PTL
        DEF DurableSpec, RecoveredFits, RecoveredKept
=============================================================================
