------------------------ MODULE AppendOnlyFile_proofs -----------------------
(***************************************************************************)
(* Proofs about AppendOnlyFile, for every set of records and policies.     *)
(***************************************************************************)
EXTENDS AppendOnlyFile, SequenceTheorems, TLAPS

(* An open journal writes after a complete record: the torn tail a failure *)
(* or a crash leaves is there only while nothing can be appended.          *)
CleanWhileOpen == journal = "open" => tail = "none"

FileInv == FileTypeOK /\ NeverDamaged /\ CleanWhileOpen

(* A prefix of the log is a log.                                           *)
LEMMA Prefix ==
  ASSUME NEW s \in Seq(Record), NEW n \in 0 .. Len(s)
  PROVE  /\ SubSeq(s, 1, n) \in Seq(Record)
         /\ Len(SubSeq(s, 1, n)) = n
         /\ \A i \in 1 .. n : SubSeq(s, 1, n)[i] = s[i]
<1>1. n \in Nat /\ n <= Len(s)
  OBVIOUS
<1> QED
  BY <1>1

(* Appending keeps every prefix.                                           *)
LEMMA PrefixOfAppend ==
  ASSUME NEW s \in Seq(Record), NEW r \in Record, NEW n \in 0 .. Len(s)
  PROVE  /\ Append(s, r) \in Seq(Record)
         /\ Len(Append(s, r)) = Len(s) + 1
         /\ SubSeq(Append(s, r), 1, n) = SubSeq(s, 1, n)
<1>1. /\ Append(s, r) \in Seq(Record)
      /\ Len(Append(s, r)) = Len(s) + 1
      /\ \A i \in 1 .. Len(s) : Append(s, r)[i] = s[i]
  OBVIOUS
<1>2. n \in 0 .. Len(Append(s, r))
  BY <1>1
<1>3. /\ Len(SubSeq(Append(s, r), 1, n)) = n
      /\ \A i \in 1 .. n : SubSeq(Append(s, r), 1, n)[i] = Append(s, r)[i]
      /\ SubSeq(Append(s, r), 1, n) \in Seq(Record)
  BY <1>1, <1>2, Prefix
<1>4. /\ Len(SubSeq(s, 1, n)) = n
      /\ \A i \in 1 .. n : SubSeq(s, 1, n)[i] = s[i]
      /\ SubSeq(s, 1, n) \in Seq(Record)
  BY Prefix
<1>5. \A i \in 1 .. n : SubSeq(Append(s, r), 1, n)[i] = SubSeq(s, 1, n)[i]
  BY <1>1, <1>3, <1>4
<1>6. SubSeq(Append(s, r), 1, n) = SubSeq(s, 1, n)
  BY <1>3, <1>4, <1>5, SeqEqual
<1> QED
  BY <1>1, <1>6

(* A prefix of a prefix.                                                   *)
LEMMA PrefixOfPrefix ==
  ASSUME NEW s \in Seq(Record), NEW m \in 0 .. Len(s), NEW n \in 0 .. m
  PROVE  SubSeq(SubSeq(s, 1, m), 1, n) = SubSeq(s, 1, n)
<1> DEFINE p == SubSeq(s, 1, m)
<1>1. p \in Seq(Record) /\ Len(p) = m /\ \A i \in 1 .. m : p[i] = s[i]
  BY Prefix
<1>2. n \in 0 .. Len(s)
  OBVIOUS
<1>3. /\ SubSeq(p, 1, n) \in Seq(Record)
      /\ Len(SubSeq(p, 1, n)) = n
      /\ \A i \in 1 .. n : SubSeq(p, 1, n)[i] = p[i]
  BY <1>1, Prefix
<1>4. /\ SubSeq(s, 1, n) \in Seq(Record)
      /\ Len(SubSeq(s, 1, n)) = n
      /\ \A i \in 1 .. n : SubSeq(s, 1, n)[i] = s[i]
  BY <1>2, Prefix
<1>5. \A i \in 1 .. n : SubSeq(p, 1, n)[i] = SubSeq(s, 1, n)[i]
  BY <1>1, <1>3, <1>4
<1> HIDE DEF p
<1>6. SubSeq(p, 1, n) = SubSeq(s, 1, n)
  BY <1>3, <1>4, <1>5, SeqEqual
<1> QED
  BY <1>6 DEF p

-----------------------------------------------------------------------------
(* What one step does: the invariant is kept, and so is what is on disk.   *)
Keeps ==
  /\ FileInv'
  /\ synced <= Len(log')
  /\ SubSeq(log', 1, synced) = SubSeq(log, 1, synced)

(* A step that leaves the log alone or appends a record to it loses none.  *)
LEMMA LogGrows ==
  ASSUME FileInv, log' = log \/ \E r \in Record : log' = Append(log, r)
  PROVE  /\ log' \in Seq(Record)
         /\ Len(log) <= Len(log')
         /\ synced <= Len(log')
         /\ SubSeq(log', 1, synced) = SubSeq(log, 1, synced)
<1>1. log \in Seq(Record) /\ synced \in 0 .. Len(log) /\ Len(log) \in Nat
  BY DEF FileInv, FileTypeOK
<1>2. CASE log' = log
  BY <1>1, <1>2
<1>3. CASE \E r \in Record : log' = Append(log, r)
  <2>1. PICK r \in Record : log' = Append(log, r)
    BY <1>3
  <2> QED
    BY <1>1, <2>1, PrefixOfAppend
<1> QED
  BY <1>2, <1>3

LEMMA OpenKeeps ==
  ASSUME FileInv, Open
  PROVE  Keeps
<1>1. Len(log) \in Nat
  BY DEF FileInv, FileTypeOK
<1> QED
  BY <1>1, LogGrows
  DEF Keeps, FileInv, FileTypeOK, NeverDamaged, CleanWhileOpen, Open

LEMMA AppendOkKeeps ==
  ASSUME FileInv, NEW r \in Record, AppendOk(r)
  PROVE  Keeps
<1>1. log' = Append(log, r) /\ tail' = "none"
  BY DEF AppendOk, Land, FileInv, CleanWhileOpen
<1>2. /\ log' \in Seq(Record) /\ Len(log) <= Len(log')
      /\ synced <= Len(log') /\ SubSeq(log', 1, synced) = SubSeq(log, 1, synced)
  BY <1>1, LogGrows
<1>3. Len(log) \in Nat /\ Len(log') \in Nat /\ synced \in 0 .. Len(log)
  BY <1>2 DEF FileInv, FileTypeOK
<1>4. synced' \in 0 .. Len(log')
  BY <1>2, <1>3 DEF AppendOk
<1> QED
  BY <1>1, <1>2, <1>4
  DEF Keeps, FileInv, FileTypeOK, NeverDamaged, CleanWhileOpen, AppendOk

LEMMA AppendFailKeeps ==
  ASSUME FileInv, NEW r \in Record, AppendFail(r)
  PROVE  Keeps
<1>1. /\ tail = "none" /\ synced' = synced /\ journal' = "failed"
      /\ policy' = policy
  BY DEF AppendFail, FileInv, CleanWhileOpen
<1>2. /\ log' = log \/ log' = Append(log, r)
      /\ tail' \in {"none", "torn"}
      /\ buffer' \in {r, buffer}
  BY <1>1 DEF AppendFail, Land
<1>3. /\ log' \in Seq(Record) /\ Len(log) <= Len(log')
      /\ synced <= Len(log') /\ SubSeq(log', 1, synced) = SubSeq(log, 1, synced)
  BY <1>2, LogGrows
<1>4. synced' \in 0 .. Len(log')
  BY <1>1, <1>3 DEF FileInv, FileTypeOK
<1> QED
  BY <1>1, <1>2, <1>3, <1>4
  DEF Keeps, FileInv, FileTypeOK, NeverDamaged, CleanWhileOpen

LEMMA SyncKeeps ==
  ASSUME FileInv, Sync
  PROVE  Keeps
<1>1. Len(log) \in Nat
  BY DEF FileInv, FileTypeOK
<1> QED
  BY <1>1, LogGrows
  DEF Keeps, FileInv, FileTypeOK, NeverDamaged, CleanWhileOpen, Sync

LEMMA CloseKeeps ==
  ASSUME FileInv, Close
  PROVE  Keeps
<1>1. /\ log' = log \/ (buffer # None /\ log' = Append(log, buffer))
      /\ tail' \in {tail, "none", "torn"}
      /\ synced' \in {synced, Len(log)}
      /\ journal' = "closed" /\ buffer' = None /\ policy' = policy
  BY DEF Close
<1>2. log' = log \/ \E r \in Record : log' = Append(log, r)
  BY <1>1 DEF FileInv, FileTypeOK
<1>3. /\ log' \in Seq(Record) /\ Len(log) <= Len(log')
      /\ synced <= Len(log') /\ SubSeq(log', 1, synced) = SubSeq(log, 1, synced)
  BY <1>2, LogGrows
<1>4. Len(log) \in Nat /\ synced \in 0 .. Len(log)
  BY DEF FileInv, FileTypeOK
<1>5. synced' \in 0 .. Len(log')
  BY <1>1, <1>3, <1>4
<1> QED
  BY <1>1, <1>3, <1>5
  DEF Keeps, FileInv, FileTypeOK, NeverDamaged, CleanWhileOpen

LEMMA KillKeeps ==
  ASSUME FileInv, NEW writing \in BOOLEAN, Kill(writing)
  PROVE  Keeps
<1>1. tail' \in {tail, "none", "torn"}
  BY DEF Kill
<1> QED
  BY <1>1, LogGrows
  DEF Keeps, FileInv, FileTypeOK, NeverDamaged, CleanWhileOpen, Kill

LEMMA PowerLossKeeps ==
  ASSUME FileInv, NEW writing \in BOOLEAN, PowerLoss(writing)
  PROVE  Keeps
<1>1. PICK n \in synced .. Len(log) :
        /\ log' = SubSeq(log, 1, n)
        /\ synced' = n
        /\ tail' \in IF n < Len(log) \/ (writing /\ tail = "none")
                       THEN {"none", "torn"} ELSE {"none", tail}
  BY DEF PowerLoss
<1>2. tail' \in {"none", "torn", tail}
  BY <1>1
<1>3. log \in Seq(Record) /\ n \in 0 .. Len(log) /\ synced \in 0 .. n /\ n \in Nat
  BY DEF FileInv, FileTypeOK
<1>4. log' \in Seq(Record) /\ Len(log') = n
  BY <1>1, <1>3, Prefix
<1>5. SubSeq(log', 1, synced) = SubSeq(log, 1, synced)
  BY <1>1, <1>3, PrefixOfPrefix
<1>6. synced' \in 0 .. Len(log') /\ synced <= Len(log')
  BY <1>1, <1>3, <1>4
<1>7. journal' = "closed" /\ buffer' = None /\ policy' = policy
  BY DEF PowerLoss
<1> QED
  BY <1>2, <1>4, <1>5, <1>6, <1>7
  DEF Keeps, FileInv, FileTypeOK, NeverDamaged, CleanWhileOpen

LEMMA StepKeeps ==
  ASSUME FileInv, FileNext
  PROVE  Keeps
<1>1. CASE Open
  BY <1>1, OpenKeeps
<1>2. CASE \E r \in Record : AppendOk(r) \/ AppendFail(r)
  BY <1>2, AppendOkKeeps, AppendFailKeeps
<1>3. CASE Sync
  BY <1>3, SyncKeeps
<1>4. CASE Close
  BY <1>4, CloseKeeps
<1>5. CASE \E writing \in BOOLEAN : Kill(writing) \/ PowerLoss(writing)
  BY <1>5, KillKeeps, PowerLossKeeps
<1> QED
  BY <1>1, <1>2, <1>3, <1>4, <1>5 DEF FileNext

(* Stuttering changes nothing.                                             *)
LEMMA StutterKeeps ==
  ASSUME FileInv, UNCHANGED fileVars
  PROVE  FileInv'
BY DEF FileInv, FileTypeOK, NeverDamaged, CleanWhileOpen, fileVars

(* The journal of aof.py:103-164 keeps its file a sequence of records with *)
(* a torn one at most after them, and that only while it is not open.      *)
THEOREM FileInvariance == FileSpec => []FileInv
<1>1. FileInit => FileInv
  BY DEF FileInit, FileInv, FileTypeOK, NeverDamaged, CleanWhileOpen
<1>2. FileInv /\ [FileNext]_fileVars => FileInv'
  BY StepKeeps, StutterKeeps DEF Keeps
<1> QED
  BY <1>1, <1>2, PTL DEF FileSpec

(* The state of the journal is well typed in every run.                    *)
THEOREM FileTypeCorrect == FileSpec => []FileTypeOK
<1>1. FileInv => FileTypeOK
  BY DEF FileInv
<1> QED
  BY <1>1, FileInvariance, PTL

(* No failure, kill or power loss makes a file that scan (aof.py:214-229)  *)
(* refuses: the server can always recover what it wrote.                   *)
THEOREM RecoveryNeverRefused == FileSpec => []NeverDamaged
<1>1. FileInv => NeverDamaged
  BY DEF FileInv
<1> QED
  BY <1>1, FileInvariance, PTL

(* Nothing the journal, its failures or recovery's repair (aof.py:277-287) *)
(* do removes or changes a record that was committed to disk.              *)
THEOREM CommittedStays == FileSpec => SyncedStays
<1> DEFINE Stays == /\ synced <= Len(log')
                    /\ SubSeq(log', 1, synced) = SubSeq(log, 1, synced)
<1>1. FileInv /\ [FileNext]_fileVars => [Stays]_fileVars
  BY StepKeeps DEF Keeps
<1> HIDE DEF Stays
<1>2. FileSpec => [][Stays]_fileVars
  BY <1>1, FileInvariance, PTL DEF FileSpec
<1> QED
  BY <1>2 DEF SyncedStays, Stays
=============================================================================
