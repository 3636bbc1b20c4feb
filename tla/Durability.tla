----------------------------- MODULE Durability -----------------------------
(***************************************************************************)
(* The command table (src/pyredis/commands.py) over the store and the      *)
(* append-only file, with crashes and recovery.                            *)
(*                                                                         *)
(* A command changes the store first and appends its records afterwards,   *)
(* one DEL per victim and then its own.  The appends are steps of their    *)
(* own, so that a failure or a crash can fall between any two of them;     *)
(* nothing else runs until the last one, because dispatch never yields.    *)
(*                                                                         *)
(* The sweeper and the everysec task run between commands.                 *)
(***************************************************************************)
EXTENDS KeyValueStore

CONSTANTS
  FsyncPolicy,
  MaxLog,            \* bound: no mutation starts with a longer log
  PersistenceError

VARIABLES
  log, synced, tail, buffer, journal, policy,  \* see AppendOnlyFile
  victims,   \* what take_evicted returned, still to be journalled
  entry,     \* the command's own record, still to be journalled, or None
  settled,   \* the keyspace when a mutation was last acknowledged
  doubtful   \* keys a crash may leave either way: changed since, or reported
             \* as not persisted

fileVars   == <<log, synced, tail, buffer, journal, policy>>
reportVars == <<settled, doubtful>>
allVars    == <<vars, fileVars, victims, entry, reportVars>>

(* What a log can hold, as aof.py encodes it.                              *)
SetRecord(key, value, deadline) ==
  [op |-> "SET", key |-> key, value |-> value, deadline |-> deadline]
ExpireRecord(key, deadline) ==
  [op |-> "PEXPIREAT", key |-> key, deadline |-> deadline]
PersistRecord(key) == [op |-> "PERSIST", key |-> key]
DeleteRecord(keys) == [op |-> "DEL", keys |-> keys]
FlushRecord == [op |-> "FLUSHDB"]

LogRecord ==
  [op : {"SET"}, key : Key, value : Value, deadline : Int64 \cup {None}]
  \cup [op : {"PEXPIREAT"}, key : Key, deadline : Int64]
  \cup [op : {"PERSIST"}, key : Key]
  \cup [op : {"DEL"}, keys : SUBSET Key]
  \cup [op : {"FLUSHDB"}]

File == INSTANCE AppendOnlyFile WITH Record <- LogRecord

(* What is raised is never what is returned.                               *)
ASSUME DurabilityAssumption ==
  /\ None \notin LogRecord
  /\ None \notin Pending
  /\ \A error \in {NotAnIntegerError, IntegerOverflowError, InvalidExpireError,
                   OutOfMemoryError} : error \notin Int \cup {None}
  /\ FsyncPolicy \subseteq {"always", "everysec", "no"} /\ FsyncPolicy # {}
  /\ MaxLog \in Nat

-----------------------------------------------------------------------------
(* Replay.                                                                 *)

(* _apply, through the recovery primitives.                                *)
Apply(d, r) ==
  CASE r.op = "SET"       -> Restored(d, r.key, r.value, r.deadline)
    [] r.op = "PEXPIREAT" -> IF r.key \in Present(d)
                               THEN WithDeadline(d, r.key, r.deadline) ELSE d
    [] r.op = "PERSIST"   -> WithDeadline(d, r.key, None)
    [] r.op = "DEL"       -> Removed(d, r.keys \cap Present(d))
    [] r.op = "FLUSHDB"   -> Flushed(d)

(* load: the records one after another, into an empty store.               *)
Replay(records) ==
  LET state[n \in 0 .. Len(records)] ==
        IF n = 0 THEN EmptyKeyspace ELSE Apply(state[n - 1], records[n])
  IN  state[Len(records)]

(* The live entries of a keyspace at time t.                               *)
LiveAt(d, t) ==
  [k \in Key |-> IF AliveAt(d, k, t)
                   THEN [value |-> d.data[k], deadline |-> d.expires[k]]
                   ELSE None]

Image(d) == [data |-> d.data, expires |-> d.expires]

-----------------------------------------------------------------------------
(* Commands.                                                               *)

(* Between commands.                                                       *)
Quiet == Idle /\ victims = {} /\ entry = None

NoJournalling == UNCHANGED <<fileVars, victims, reportVars>>

(* Faulty: dispatch does not ask whether the journal has failed.           *)
AdmittedAlways == Quiet /\ Len(log) < MaxLog

(* dispatch refuses mutations once the journal has failed.                 *)
Admitted == Quiet /\ Len(log) < MaxLog /\ journal # "failed"

RefuseMutation ==
  /\ Quiet
  /\ journal = "failed"
  /\ Answer("refused", PersistenceError)
  /\ UNCHANGED <<db, now, cursors, evicted, mode, call, entry>>
  /\ NoJournalling

(* A mutation that has returned from the store journals r if it succeeded. *)
Journals(succeeded, r) ==
  /\ entry' = IF succeeded THEN r ELSE None
  /\ NoJournalling

(* Faulty: the record of a write forgets the deadline.                     *)
WriteRecordPlain(key) == SetRecord(key, db'.data[key], None)

(* encode_set of what the store now holds.                                 *)
WriteRecord(key) == SetRecord(key, db'.data[key], db'.expires[key])

SetCommand(key, value, ttl) ==
  /\ Admitted
  /\ Set(key, value, ttl)
  /\ Journals(call' = None /\ result'.ret = None, WriteRecord(key))

IncrCommand(key) ==
  /\ Admitted
  /\ Incr(key)
  /\ Journals(call' = None /\ result'.ret \in Int64, WriteRecord(key))

(* The rest of a set or incr that had to evict.                            *)
EvictStep == EvictOne /\ UNCHANGED entry /\ NoJournalling

WriteStep == FinishWrite /\ Journals(TRUE, WriteRecord(call.key))

(* Faulty: the victims are taken and forgotten.                            *)
VictimsDropped == TakeEvicted /\ UNCHANGED <<fileVars, victims, entry, reportVars>>

(* _journal_evictions: take_evicted, then a record for each.               *)
VictimsStep ==
  /\ TakeEvicted
  /\ victims' = evicted
  /\ UNCHANGED <<fileVars, entry, reportVars>>

DeleteCommand(ks) ==
  /\ Admitted
  /\ Delete(ks)
  /\ Journals(result'.ret > 0, DeleteRecord({ks[i] : i \in DOMAIN ks}))

ExpireCommand(key, ttl) ==
  /\ Admitted
  /\ Expire(key, ttl)
  /\ Journals(result'.ret = 1,
              IF db'.expires[key] = None
                THEN DeleteRecord({key})
                ELSE ExpireRecord(key, db'.expires[key]))

PersistCommand(key) ==
  /\ Admitted
  /\ Persist(key)
  /\ Journals(result'.ret = 1, PersistRecord(key))

FlushdbCommand ==
  /\ Admitted
  /\ Flushdb
  /\ Journals(TRUE, FlushRecord)

(* What journals nothing, and is served whatever the journal's state.      *)
ReadCommand ==
  /\ Quiet
  /\ \/ \E key \in Key : Get(key) \/ Ttl(key)
     \/ \E ks \in KeyArgs : Exists(ks)
     \/ Dbsize
  /\ UNCHANGED entry /\ NoJournalling

SweeperStep == Quiet /\ Sweep /\ UNCHANGED entry /\ NoJournalling

ClockStep ==
  /\ Quiet \/ mode = "loading"
  /\ Tick
  /\ UNCHANGED entry /\ NoJournalling

-----------------------------------------------------------------------------
(* Journalling.                                                            *)

Writing == evicted = {} /\ (entry # None \/ victims # {})

(* Faulty: the write goes first, then what it evicted.                     *)
EntryFirst ==
  IF entry # None THEN {entry} ELSE {DeleteRecord({k}) : k \in victims}

(* The next record: the victims', in any order, then the command's.        *)
NextRecords ==
  IF victims = {} THEN {entry} ELSE {DeleteRecord({k}) : k \in victims}

(* Once the last record is in, the client is answered; under the always    *)
(* policy nothing reported before is in doubt any more.                    *)
AppendStep ==
  /\ Writing
  /\ \E r \in NextRecords :
       /\ File!AppendOk(r)
       /\ IF r = entry
            THEN entry' = None /\ UNCHANGED victims
            ELSE victims' = victims \ r.keys /\ UNCHANGED entry
  /\ IF entry' = None /\ victims' = {}
       THEN /\ settled' = Image(db)
            /\ doubtful' = IF policy = "always" THEN {} ELSE doubtful
       ELSE UNCHANGED reportVars
  /\ UNCHANGED vars

(* PersistenceError: the client is told, and the rest is not attempted.    *)
AppendError ==
  /\ Writing
  /\ \E r \in NextRecords : File!AppendFail(r)
  /\ victims' = {}
  /\ entry' = None
  /\ Answer(result.op, PersistenceError)
  /\ UNCHANGED <<db, now, cursors, evicted, mode, call, reportVars>>

SyncStep ==
  /\ Quiet
  /\ File!Sync
  /\ UNCHANGED <<vars, victims, entry, reportVars>>

-----------------------------------------------------------------------------
(* Stopping and starting.                                                  *)

Unsettled == {k \in Key : LiveAt(db, now)[k] # LiveAt(settled, now)[k]}

(* The keys a record is about.                                             *)
Named(r) == CASE r.op = "DEL"     -> r.keys
              [] r.op = "FLUSHDB" -> Key
              [] OTHER            -> {r.key}

(* The keys of the records that are not known to be on disk.               *)
Uncommitted == UNION {Named(log[i]) : i \in synced + 1 .. Len(log)}

(* Memory is gone; what was changed and not acknowledged may come back     *)
(* either way, and so may the keys at risk.                                *)
LoseMemory(atRisk) ==
  /\ db' = EmptyKeyspace
  /\ sweepCursor' = {} /\ evictCursor' = {} /\ evicted' = {}
  /\ mode' = "loading"
  /\ call' = None
  /\ result' = [op |-> "start", ret |-> None]
  /\ victims' = {}
  /\ entry' = None
  /\ doubtful' = doubtful \cup atRisk
                           \cup (IF mode = "serving" THEN Unsettled ELSE {})
  /\ UNCHANGED <<now, settled>>

(* serve is cancelled between commands: the journal is closed.             *)
Stop == Quiet /\ File!Close /\ LoseMemory({})

Killed == File!Kill(Writing) /\ LoseMemory({})

(* Except under always, a power failure may take what was acknowledged     *)
(* since the last commit.                                                  *)
PowerFailure ==
  /\ File!PowerLoss(Writing)
  /\ LoseMemory(IF policy = "always" THEN {} ELSE Uncommitted)

(* serve: replay, repair, open, and only then listen.  The always policy   *)
(* says nothing of the records a predecessor under another left behind.    *)
Recover ==
  /\ mode = "loading"
  /\ File!Open
  /\ db' = DropExpired(Replay(log), now)
  /\ mode' = "serving"
  /\ settled' = Image(db')
  /\ doubtful' = IF policy' = "always" THEN Uncommitted' ELSE {}
  /\ UNCHANGED <<now, cursors, evicted, call, result, victims, entry>>

-----------------------------------------------------------------------------
DurableInit ==
  /\ Init
  /\ File!FileInit
  /\ victims = {}
  /\ entry = None
  /\ settled = Image(EmptyKeyspace)
  /\ doubtful = {}

Mutation ==
  \/ \E key \in Key :
       \/ \E value \in SetValues, ttl \in Ttls \cup {None} :
            SetCommand(key, value, ttl)
       \/ IncrCommand(key)
       \/ \E ttl \in Ttls : ExpireCommand(key, ttl)
       \/ PersistCommand(key)
  \/ \E ks \in KeyArgs : DeleteCommand(ks)
  \/ FlushdbCommand

DurableNext ==
  \/ Mutation \/ RefuseMutation \/ ReadCommand
  \/ EvictStep \/ WriteStep \/ VictimsStep
  \/ AppendStep \/ AppendError
  \/ SweeperStep \/ SyncStep \/ ClockStep
  \/ Stop \/ Killed \/ PowerFailure
  \/ Recover

DurableSpec == DurableInit /\ [][DurableNext]_allVars

-----------------------------------------------------------------------------
(* Properties.                                                             *)

DurableTypeOK ==
  /\ TypeOK
  /\ File!FileTypeOK
  /\ victims \subseteq Key
  /\ entry \in LogRecord \cup {None}
  /\ doubtful \subseteq Key

(* The log is the keyspace: between commands, while the journal works,     *)
(* what a restart would rebuild is what clients see -- although increments *)
(* are journalled by their result, relative deadlines as absolute ones,    *)
(* evictions as deletions, and expiry not at all (commands.py:156-169,     *)
(* 235-242).                                                               *)
LogMatchesMemory ==
  Quiet /\ journal = "open" => LiveAt(Replay(log), now) = LiveAt(db, now)

(* What a client was told is kept: after a restart every key whose last    *)
(* change was acknowledged is as it was -- after a kill under any policy   *)
(* (aof.py:39-41), after a power failure under always, and after one under *)
(* the other policies unless changed since the last commit.  A policy      *)
(* answers for what is journalled under it, not for what it found.         *)
AckedSurvives ==
  [][ mode = "loading" /\ mode' = "serving" =>
        \A k \in Key \ doubtful :
          LiveAt(db', now')[k] = LiveAt(settled, now')[k] ]_allVars

(* "Once the journal has failed, mutations are refused before reaching the *)
(* store" (commands.py:210-212): until the restart nothing changes in      *)
(* memory but by the passing of time.                                      *)
FailedIsReadOnly ==
  [][ journal = "failed" /\ journal' = "failed" =>
        LiveAt(db', now') = LiveAt(db, now') ]_allVars

(* A write logs its victims before itself, so that wherever a crash cuts   *)
(* the log, a restart under the same limit comes up within it: the warning *)
(* of server.py:173-180 is for a limit that was lowered.                   *)
RecoveredFits ==
  [][ mode = "loading" /\ mode' = "serving" /\ MaxMemory # 0
      => db'.memory <= MaxMemory ]_allVars
=============================================================================
