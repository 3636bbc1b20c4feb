------------------------------ MODULE LogScan -------------------------------
(***************************************************************************)
(* Reading an append-only file back: load, scan, _read_record and the      *)
(* checks of _apply (src/pyredis/aof.py:190-324), on a file that was       *)
(* written by the journal and then cut short by a crash, or damaged in one *)
(* byte.                                                                   *)
(*                                                                         *)
(* What a record does to the store is in Durability; here a record is its  *)
(* bytes, and the store is the number of records it was given.             *)
(***************************************************************************)
EXTENDS Wire

CONSTANTS
  SET, PXAT, PEXPIREAT, DEL, PERSIST, FLUSHDB,  \* the names, one byte each
  Logs                                          \* logs the journal wrote

ASSUME LogAssumption ==
  /\ {SET, PXAT, PEXPIREAT, DEL, PERSIST, FLUSHDB} \subseteq Other
  /\ MaxIntDigits \in Nat

VARIABLES
  written,  \* the records the journal wrote
  harm,     \* how many of their bytes are as they were written
  file,     \* what the disk holds now
  data,     \* what load read of it
  offset,   \* where the record being read begins
  cursor,   \* where its next part begins
  left,     \* parts of it still to be read; 0 between records
  parts,    \* parts of it read so far
  records,  \* complete records
  applied,  \* how many of them the store was given
  phase     \* "scan", "apply", "loaded", or "corrupt": AofCorruptError

vars == <<written, harm, file, data, offset, cursor, left, parts, records,
          applied, phase>>

Encoded(log) == FlattenSeq([i \in DOMAIN log |-> EncodeArray(log[i])])

(* Cut after `harm` bytes, or whole; or with another byte where the next   *)
(* was, and then perhaps with its last byte missing too.                   *)
Init ==
  /\ written \in Logs
  /\ harm \in 0 .. Len(Encoded(written))
  /\ \/ file = SubSeq(Encoded(written), 1, harm)
     \/ /\ harm < Len(Encoded(written))
        /\ \E b \in Byte \ {Encoded(written)[harm + 1]}, whole \in BOOLEAN :
             LET bytes == ReplaceAt(Encoded(written), harm + 1, b)
             IN  file = IF whole THEN bytes ELSE Front(bytes)
  /\ data = file
  /\ offset = 1 /\ cursor = 1 /\ left = 0 /\ parts = <<>>
  /\ records = <<>> /\ applied = 0
  /\ phase = "scan"

-----------------------------------------------------------------------------
Corrupt ==
  /\ phase' = "corrupt"
  /\ UNCHANGED <<offset, cursor, left, parts, records>>

(* The record that begins at offset is incomplete, or there is none.       *)
EndScan ==
  /\ phase' = "apply"
  /\ UNCHANGED <<offset, cursor, left, parts, records>>

Scanning == phase = "scan" /\ UNCHANGED <<written, harm, file, data, applied>>

(* The header of a record.                                                 *)
ReadHeader ==
  LET end  == LineEnd(data, offset)
      line == SubSeq(data, offset, end - 1)
  IN  /\ Scanning /\ left = 0
      /\ IF end = 0 THEN EndScan
         ELSE IF line = <<>> \/ line[1] # "*" \/ ~IsLength(Tail(line)) THEN Corrupt
         ELSE IF LengthOf(Tail(line)) <= 0 THEN Corrupt
         ELSE /\ left' = LengthOf(Tail(line))
              /\ cursor' = end + 2
              /\ UNCHANGED <<offset, parts, records, phase>>

(* Faulty: the end of a part is looked for instead of counted out.         *)
PartEndsAtLine(after, length) ==
  IF LineEnd(data, after) = 0 THEN Len(data) + 1 ELSE LineEnd(data, after)

(* Where the terminator of a part of that length begins.                   *)
PartEnd(after, length) == after + length

(* Faulty: whatever follows a part is taken for its terminator.            *)
Unterminated(stop) == stop + 1 <= Len(data)

Terminated(stop) == SubSeq(data, stop, stop + 1) = CRLF

(* A part of it; the last one completes the record.                        *)
ReadPart ==
  LET end   == LineEnd(data, cursor)
      line  == SubSeq(data, cursor, end - 1)
      after == end + 2
      stop  == PartEnd(after, LengthOf(Tail(line)))
  IN  /\ Scanning /\ left > 0
      /\ IF end = 0 THEN EndScan
         ELSE IF line = <<>> \/ line[1] # "$" \/ ~IsLength(Tail(line)) THEN Corrupt
         ELSE IF LengthOf(Tail(line)) < 0 THEN Corrupt
         ELSE IF stop + 1 > Len(data) THEN EndScan
         ELSE IF ~Terminated(stop) THEN Corrupt
         ELSE LET part == SubSeq(data, after, stop - 1)
              IN  /\ left' = left - 1
                  /\ cursor' = stop + 2
                  /\ IF left > 1
                       THEN /\ parts' = Append(parts, part)
                            /\ UNCHANGED <<offset, records>>
                       ELSE /\ parts' = <<>>
                            /\ records' = Append(records, Append(parts, part))
                            /\ offset' = stop + 2
                  /\ UNCHANGED phase

-----------------------------------------------------------------------------
(* What _apply accepts.                                                    *)
WellFormed(r) ==
  \/ r[1] = <<SET>> /\ Len(r) = 3
  \/ r[1] = <<SET>> /\ Len(r) = 5 /\ r[4] = <<PXAT>> /\ IsLength(r[5])
  \/ r[1] = <<PEXPIREAT>> /\ Len(r) = 3 /\ IsLength(r[3])
  \/ r[1] = <<DEL>> /\ Len(r) >= 2
  \/ r[1] = <<PERSIST>> /\ Len(r) = 2
  \/ r[1] = <<FLUSHDB>> /\ Len(r) = 1

(* The journal writes records that are applied.                            *)
ASSUME LogsAssumption ==
  \A log \in Logs :
    /\ log \in Seq(Seq(Seq(Byte)))
    /\ \A i \in DOMAIN log : log[i] # <<>> /\ WellFormed(log[i])

Apply ==
  /\ phase = "apply" /\ applied < Len(records)
  /\ IF WellFormed(records[applied + 1])
       THEN applied' = applied + 1 /\ UNCHANGED phase
       ELSE phase' = "corrupt" /\ UNCHANGED applied
  /\ UNCHANGED <<written, harm, file, data, offset, cursor, left, parts, records>>

(* Faulty: the tail is cut before the records are looked at.               *)
RepairFirst ==
  /\ phase = "apply"
  /\ file' = SubSeq(data, 1, offset - 1)
  /\ phase' = IF applied = Len(records) THEN "loaded" ELSE phase
  /\ UNCHANGED <<written, harm, data, offset, cursor, left, parts, records, applied>>

(* The tail is cut once every record has been applied.                     *)
Repair ==
  /\ phase = "apply" /\ applied = Len(records)
  /\ file' = SubSeq(data, 1, offset - 1)
  /\ phase' = "loaded"
  /\ UNCHANGED <<written, harm, data, offset, cursor, left, parts, records, applied>>

Done == phase \in {"loaded", "corrupt"} /\ UNCHANGED vars

Next == ReadHeader \/ ReadPart \/ Apply \/ Repair \/ Done

Spec == Init /\ [][Next]_vars

-----------------------------------------------------------------------------
(* Properties.                                                             *)

(* How many records lie wholly within the bytes that are as written.       *)
Whole == Max({n \in 0 .. Len(written) : Len(Encoded(SubSeq(written, 1, n))) <= harm})

Damaged == Len(data) > harm

Torn == Len(data) < Len(Encoded(written))

(* A log cut anywhere, even inside a payload that looks like framing, is   *)
(* loaded up to its last complete record and no further, and the file is   *)
(* left at exactly that record's end (README.md:198).                      *)
TornTailRepaired ==
  /\ phase = "corrupt" => Damaged
  /\ phase = "loaded" /\ ~Damaged =>
       /\ records = SubSeq(written, 1, Whole)
       /\ file = Encoded(records)

(* The bytes of a log that are framing: all but the payloads and the digits*)
(* of their lengths. Part i of record n + 1 is preceded by Start(n, i - 1) *)
(* bytes.                                                                  *)
FramingBytes ==
  LET Before(n) == Len(Encoded(SubSeq(written, 1, n)))
      Count(n) == Len(Header("*", Len(written[n + 1])))
      Start(n, i) == Before(n) + Count(n)
        + Len(FlattenSeq([j \in 1 .. i |-> EncodeBulkString(written[n + 1][j])]))
      Line(v) == Len(Header("$", Len(v)))
      Part(v) == {1, Line(v) - 1, Line(v), Line(v) + Len(v) + 1, Line(v) + Len(v) + 2}
  IN  UNION {(Before(n) + 1 .. Before(n) + Count(n))
             \cup UNION {{Start(n, i - 1) + d : d \in Part(written[n + 1][i])} :
                          i \in DOMAIN written[n + 1]} :
             n \in 0 .. Len(written) - 1}

InLastRecord == harm >= Len(Encoded(Front(written)))

(* "Corruption anywhere earlier: Refuses to start" (README.md:199), of the *)
(* bytes where that can be told whatever the payloads are: a marker, a     *)
(* count or a line end damaged before the last record is never taken for a *)
(* torn tail or for another record.                                        *)
FramingDamageRefused ==
  phase = "loaded" /\ Damaged /\ ~InLastRecord => harm + 1 \notin FramingBytes

(* A start that is refused leaves the evidence alone: nothing is cut from  *)
(* a file found to be corrupt, by scan or by _apply.                       *)
RefusalKeepsFile == phase = "corrupt" => file = data

(* The same of every byte: a file whose final record is whole is loaded    *)
(* whole or refused, but never truncated.                                  *)
OnlyTornTailsCut ==
  phase = "loaded" /\ Damaged /\ ~Torn /\ ~InLastRecord => file = data

(* "in which case nothing is applied" (aof.py:194-195).                    *)
CorruptAppliesNothing == phase = "corrupt" => applied = 0
=============================================================================
