--------------------------- MODULE AppendOnlyFile ---------------------------
(***************************************************************************)
(* The journal of src/pyredis/aof.py and the file under it.  A record is   *)
(* written to a user-space buffer, flushed to the operating system and, if *)
(* the policy says so, committed to disk.  Any of the three may fail, the  *)
(* process may be killed and the power may go, at any moment.              *)
(*                                                                         *)
(* The file is its complete records, in order, followed by a tail.  What a *)
(* power failure leaves of the page cache is a prefix of the file.         *)
(***************************************************************************)
EXTENDS Integers, Sequences

CONSTANTS
  Record, None,
  FsyncPolicy,   \* the policies the server is started with
  MaxLog         \* bound on the records of this module's own runs

ASSUME AofAssumption ==
  /\ None \notin Record
  /\ FsyncPolicy \subseteq {"always", "everysec", "no"}
  /\ FsyncPolicy # {}
  /\ MaxLog \in Nat

VARIABLES
  log,      \* the complete records the operating system has
  synced,   \* how many of them are known to be on disk
  tail,     \* after them: nothing, a prefix of a record, or damage
  buffer,   \* the record a failed flush left in the user-space buffer
  journal,  \* "closed" (no process has it open), "open" or "failed"
  policy    \* when the process that has, or last had it open commits

fileVars == <<log, synced, tail, buffer, journal, policy>>

FileTypeOK ==
  /\ log \in Seq(Record)
  /\ synced \in 0 .. Len(log)
  /\ tail \in {"none", "torn", "damaged"}
  /\ buffer \in Record \cup {None}
  /\ journal \in {"closed", "open", "failed"}
  /\ policy \in FsyncPolicy

FileInit ==
  /\ log = <<>>
  /\ synced = 0
  /\ tail = "none"
  /\ buffer = None
  /\ journal = "closed"
  /\ policy \in FsyncPolicy

-----------------------------------------------------------------------------
(* Faulty: the torn record stays where the next append will write.         *)
OpenUnrepaired ==
  /\ journal = "closed"
  /\ tail # "damaged"
  /\ journal' = "open"
  /\ policy' \in FsyncPolicy
  /\ UNCHANGED <<log, synced, tail, buffer>>

(* Faulty: the cut takes the last complete record with it.                 *)
OpenCutsRecord ==
  /\ journal = "closed"
  /\ tail # "damaged"
  /\ tail' = "none"
  /\ log' = IF tail = "torn" /\ log # <<>> THEN SubSeq(log, 1, Len(log) - 1) ELSE log
  /\ journal' = "open"
  /\ policy' \in FsyncPolicy
  /\ UNCHANGED <<synced, buffer>>

(* load and then open for appending: a torn record is cut off and the cut  *)
(* committed; damage refuses the start.  The policy is as configured.      *)
Open ==
  /\ journal = "closed"
  /\ tail # "damaged"
  /\ tail' = "none"
  /\ synced' = IF tail = "torn" THEN Len(log) ELSE synced
  /\ journal' = "open"
  /\ policy' \in FsyncPolicy
  /\ UNCHANGED <<log, buffer>>

(* A whole record reaches the file.  After a torn one it is not a record:  *)
(* its bytes are read as the rest of the torn one.                         *)
Land(r) ==
  IF tail = "none" THEN log' = Append(log, r) /\ UNCHANGED tail
                   ELSE tail' = "damaged" /\ UNCHANGED log

(* Faulty: the record is acknowledged from the page cache.                 *)
AppendUnsynced(r) ==
  /\ journal = "open"
  /\ Land(r)
  /\ UNCHANGED <<synced, buffer, journal, policy>>

AppendOk(r) ==
  /\ journal = "open"
  /\ Land(r)
  /\ synced' = IF policy = "always" THEN Len(log') ELSE synced
  /\ UNCHANGED <<buffer, journal, policy>>

(* write and flush fail, with none or some of the bytes passed on; or they *)
(* succeed and the fsync that follows fails.                               *)
AppendFail(r) ==
  /\ journal = "open"
  /\ journal' = "failed"
  /\ \/ buffer' = r /\ UNCHANGED <<log, tail>>
     \/ buffer' = r /\ tail' = (IF tail = "none" THEN "torn" ELSE tail)
                    /\ UNCHANGED log
     \/ policy = "always" /\ Land(r) /\ UNCHANGED buffer
  /\ UNCHANGED <<synced, policy>>

(* Faulty: the bytes are flushed, which they already were, not committed.  *)
SyncFlushOnly ==
  /\ policy = "everysec"
  /\ journal = "open"
  /\ UNCHANGED fileVars

(* sync, as the everysec task calls it.  A failed journal is left alone.   *)
Sync ==
  /\ policy = "everysec"
  /\ journal = "open"
  /\ \/ synced' = Len(log) /\ UNCHANGED journal
     \/ journal' = "failed" /\ UNCHANGED synced
  /\ UNCHANGED <<log, tail, buffer, policy>>

(* close: a healthy journal is flushed and synced, errors ignored; closing *)
(* the file of a failed one still tries to flush what is left in the       *)
(* buffer, which may complete the torn record.                             *)
Close ==
  /\ journal # "closed"
  /\ journal' = "closed"
  /\ buffer' = None
  /\ UNCHANGED policy
  /\ IF journal = "open"
       THEN synced' \in {synced, Len(log)} /\ UNCHANGED <<log, tail>>
       ELSE /\ UNCHANGED synced
            /\ \/ UNCHANGED <<log, tail>>
               \/ buffer # None /\ tail # "damaged"
                  /\ \/ log' = Append(log, buffer) /\ tail' = "none"
                     \/ tail' = "torn" /\ UNCHANGED log

(* SIGKILL: the buffer goes, the page cache stays.  A record being written *)
(* may be cut short.                                                       *)
Kill(writing) ==
  /\ journal # "closed"
  /\ journal' = "closed"
  /\ buffer' = None
  /\ UNCHANGED policy
  /\ tail' \in IF writing /\ tail = "none" THEN {"none", "torn"} ELSE {tail}
  /\ UNCHANGED <<log, synced>>

(* The disk keeps what was committed and some of what follows it.          *)
PowerLoss(writing) ==
  /\ journal' = "closed"
  /\ buffer' = None
  /\ UNCHANGED policy
  /\ \E n \in synced .. Len(log) :
       /\ log' = SubSeq(log, 1, n)
       /\ synced' = n
       /\ tail' \in IF n < Len(log) \/ (writing /\ tail = "none")
                      THEN {"none", "torn"} ELSE {"none", tail}

-----------------------------------------------------------------------------
FileNext ==
  \/ Open
  \/ \E r \in Record :
       /\ Len(log) < MaxLog
       /\ AppendOk(r) \/ AppendFail(r)
  \/ Sync
  \/ Close
  \/ \E writing \in BOOLEAN : Kill(writing) \/ PowerLoss(writing)

FileSpec == FileInit /\ [][FileNext]_fileVars

(* The everysec task gets its turn while there is something to commit.     *)
FileFairSpec == FileSpec /\ WF_fileVars(Sync /\ synced < Len(log))

-----------------------------------------------------------------------------
(* Recovery can always start: whatever was killed, torn or failed, the     *)
(* file is a sequence of records and at most a torn one at the end, so     *)
(* that scan's refusal (aof.py:217-220) never meets a file this journal    *)
(* wrote.                                                                  *)
NeverDamaged == tail # "damaged"

(* Only the tail is ever cut: what is on disk stays there.                 *)
SyncedStays ==
  [][ /\ synced <= Len(log')
      /\ SubSeq(log', 1, synced) = SubSeq(log, 1, synced) ]_fileVars

(* Under everysec nothing stays in the page cache for good: what is in the *)
(* log is committed, or the journal fails, or the server stops, and a      *)
(* server started again commits what its predecessor left (server.py:182). *)
CommittedEventually ==
  \A n \in 1 .. MaxLog :
    policy = "everysec" /\ Len(log) >= n
      ~> synced >= n \/ Len(log) < n \/ journal # "open"
=============================================================================
