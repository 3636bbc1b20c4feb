--------------------------- MODULE LogScan_proofs ---------------------------
(***************************************************************************)
(* Proofs about LogScan, for every log: what load makes of one that was    *)
(* cut anywhere, that no damage makes it change a file it refuses, and     *)
(* that it does refuse one whose framing is damaged before the last record.*)
(***************************************************************************)
EXTENDS LogScan, Wire_proofs, TLAPS

(* The file is what load read until load is over.                          *)
Untouched == phase # "loaded" => file = data

(* Only Repair writes to the file, and it ends in "loaded", from where no  *)
(* step leads back.                                                        *)
LEMMA StepUntouched ==
  ASSUME Untouched, [Next]_vars
  PROVE  Untouched'
<1>1. CASE ReadHeader \/ ReadPart
  <2>1. phase = "scan" /\ UNCHANGED <<file, data>>
    BY <1>1 DEF ReadHeader, ReadPart, Scanning
  <2> QED
    BY <2>1 DEF Untouched
<1>2. CASE Apply
  BY <1>2 DEF Apply, Untouched
<1>3. CASE Repair
  BY <1>3 DEF Repair, Untouched
<1>4. CASE Done \/ UNCHANGED vars
  BY <1>4 DEF Done, vars, Untouched
<1> QED
  BY <1>1, <1>2, <1>3, <1>4 DEF Next

(* load (aof.py:190-211) leaves a file that it refuses as it found it,     *)
(* whether scan or _apply finds it corrupt: the evidence is not cut away.  *)
THEOREM RefusalLeavesFile == Spec => []RefusalKeepsFile
<1>1. Init => Untouched
  BY DEF Init, Untouched
<1>2. Untouched /\ [Next]_vars => Untouched'
  BY StepUntouched
<1>3. Untouched => RefusalKeepsFile
  BY DEF Untouched, RefusalKeepsFile
<1> QED
  BY <1>1, <1>2, <1>3, PTL DEF Spec

-----------------------------------------------------------------------------
(* Where the scan of a log that was cut is.                                *)

Arrays == [i \in DOMAIN written |-> EncodeArray(written[i])]

(* Where the first n records end.                                          *)
Ends(n) == Len(Joined(Arrays, n))

(* It has read i parts of r, which follows n records.                      *)
Inside(n, r, i) ==
  /\ i < Len(r) /\ left = Len(r) - i /\ parts = SubSeq(r, 1, i)
  /\ cursor = Ends(n) + 1 + Offset(ArrayFrame(r), i)

(* It has found the first n records, and refuses none.                     *)
Scanned(n) ==
  /\ Ends(n) <= harm /\ offset = Ends(n) + 1
  /\ records = SubSeq(written, 1, n) /\ applied \in 0 .. n
  /\ phase \in {"scan", "apply", "loaded"}
  /\ phase = "scan" /\ left = 0 => parts = <<>>
  /\ phase = "scan" /\ left # 0 =>
       n < Len(written) /\ \E i \in Nat : Inside(n, written[n + 1], i)
  /\ phase # "scan" => n = Len(written) \/ Ends(n + 1) > harm
  /\ phase = "loaded" => file = SubSeq(data, 1, Ends(n))

ScanInv ==
  /\ written \in Logs /\ harm \in 0 .. Len(Encoded(written))
  /\ ~Damaged => /\ data = SubSeq(Encoded(written), 1, harm)
                 /\ \E n \in 0 .. Len(written) : Scanned(n)

LEMMA WrittenFacts ==
  ASSUME written \in Logs
  PROVE  /\ written \in Seq(Seq(Seq(Byte))) /\ Len(written) \in Nat
         /\ \A i \in 1 .. Len(written) :
              written[i] \in Seq(Seq(Byte)) /\ written[i] # <<>> /\ WellFormed(written[i])
         /\ Arrays \in Seq(Seq(Byte)) /\ Len(Arrays) = Len(written)
         /\ \A i \in 1 .. Len(written) : Arrays[i] = EncodeArray(written[i])
         /\ Encoded(written) = FlattenSeq(Arrays)
<1>1. written \in Seq(Seq(Seq(Byte)))
      /\ \A i \in DOMAIN written : written[i] # <<>> /\ WellFormed(written[i])
  BY LogsAssumption DEF LogsAssumption
<1>2. Len(written) \in Nat /\ DOMAIN written = 1 .. Len(written)
  BY <1>1, LenProperties
<1>3. \A i \in 1 .. Len(written) : written[i] \in Seq(Seq(Byte))
  BY <1>1, ElementOfSeq
<1>4. \A i \in 1 .. Len(written) : EncodeArray(written[i]) \in Seq(Byte)
  BY <1>3, ArrayIsFrame, OffsetFacts
<1>5. Arrays = [i \in 1 .. Len(written) |-> EncodeArray(written[i])]
  BY <1>2 DEF Arrays
<1>6. Arrays \in Seq(Seq(Byte)) /\ Len(Arrays) = Len(written)
  BY <1>2, <1>4, <1>5
<1>7. Encoded(written) = FlattenSeq(Arrays)
  BY DEF Encoded, Arrays
<1> QED BY <1>1, <1>2, <1>3, <1>5, <1>6, <1>7

LEMMA EndsFacts ==
  ASSUME written \in Logs
  PROVE  /\ Ends(0) = 0 /\ Ends(Len(written)) = Len(Encoded(written))
         /\ Encoded(written) \in Seq(Byte) /\ Len(Encoded(written)) \in Nat
         /\ \A n \in 0 .. Len(written) : Ends(n) \in Nat
         /\ \A n \in 0 .. Len(written) : \A m \in n .. Len(written) : Ends(n) <= Ends(m)
         /\ \A n \in 0 .. Len(written) :
              n < Len(written) =>
                /\ n + 1 \in 1 .. Len(written)
                /\ Ends(n + 1) = Ends(n) + Len(EncodeArray(written[n + 1]))
                /\ Shows(Encoded(written), Ends(n) + 1, EncodeArray(written[n + 1]))
<1> DEFINE E == Encoded(written)
<1>1. /\ Arrays \in Seq(Seq(Byte)) /\ Len(Arrays) = Len(written) /\ Len(written) \in Nat
      /\ \A i \in 1 .. Len(written) : Arrays[i] = EncodeArray(written[i])
      /\ E = FlattenSeq(Arrays)
  BY WrittenFacts
<1> HIDE DEF E
<1>2. /\ Ends(0) = 0 /\ Ends(Len(written)) = Len(E) /\ E \in Seq(Byte)
      /\ \A n \in 0 .. Len(written) : Ends(n) \in Nat
      /\ \A n \in 1 .. Len(written) : Ends(n) = Ends(n - 1) + Len(Arrays[n])
  BY <1>1, ByteJoined DEF Ends
<1>3. Len(E) \in Nat
  BY <1>2, LenProperties
<1>4. \A n \in 0 .. Len(written) : \A m \in n .. Len(written) : Ends(n) <= Ends(m)
  BY <1>1, JoinedGrows DEF Ends
<1>5. ASSUME NEW n \in 0 .. Len(written), n < Len(written)
      PROVE  /\ n + 1 \in 1 .. Len(written)
             /\ Ends(n + 1) = Ends(n) + Len(EncodeArray(written[n + 1]))
             /\ Shows(E, Ends(n) + 1, EncodeArray(written[n + 1]))
  <2>1. n + 1 \in 1 .. Len(written) /\ (n + 1) - 1 = n
    BY <1>1, <1>5
  <2>2. Ends(n + 1) = Ends(n) + Len(EncodeArray(written[n + 1]))
    BY <1>1, <1>2, <2>1
  <2>3. Shows(E, 1, FlattenSeq(Arrays))
    <3>1. \A i \in 1 .. Len(E) : 1 + i - 1 = i
      BY <1>3
    <3> QED BY <1>1, <3>1 DEF Shows
  <2>4. Shows(E, 1 + Len(Joined(Arrays, n)), Arrays[n + 1])
    <3>1. 1 \in Nat /\ n + 1 \in 1 .. Len(Arrays)
      BY <1>1, <2>1
    <3>2. Shows(E, 1 + Len(Joined(Arrays, (n + 1) - 1)), Arrays[n + 1])
      BY <1>1, <1>3, <2>3, <3>1, ShowsPiece
    <3> QED BY <2>1, <3>2
  <2>5. 1 + Ends(n) = Ends(n) + 1
    BY <1>2
  <2> QED BY <1>1, <2>1, <2>2, <2>4, <2>5 DEF Ends
<1> QED BY <1>2, <1>3, <1>4, <1>5 DEF E

(* What is left of a log that is cut shows what it showed.                 *)
LEMMA CutShows ==
  ASSUME NEW t \in Seq(Byte), NEW h \in 0 .. Len(t), NEW from \in Nat \ {0},
         NEW b \in Seq(Byte), Shows(t, from, b)
  PROVE  /\ Len(SubSeq(t, 1, h)) = h /\ SubSeq(t, 1, h) \in Seq(Byte)
         /\ Shows(SubSeq(t, 1, h), from, b)
<1> DEFINE c == SubSeq(t, 1, h)
<1>1. Len(t) \in Nat /\ Len(b) \in Nat
  BY LenProperties
<1>2. \A i \in 1 .. h : i \in 1 .. Len(t) /\ t[i] \in Byte
  BY <1>1, ElementOfSeq
<1>3. c \in Seq(Byte) /\ Len(c) = h /\ \A i \in 1 .. h : c[i] = t[i]
  <2>1. 1 \in Int /\ h \in Int /\ h - 1 + 1 = h /\ (IF 1 <= h THEN h - 1 + 1 ELSE 0) = h
        /\ \A i \in 1 .. h : 1 + i - 1 = i
    BY <1>1
  <2>2. /\ c \in Seq(Byte) /\ Len(c) = IF 1 <= h THEN h - 1 + 1 ELSE 0
        /\ \A i \in 1 .. h - 1 + 1 : c[i] = t[1 + i - 1]
    BY <1>2, <2>1, SubSeqProperties
  <2> QED BY <2>1, <2>2
<1> HIDE DEF c
<1>4. Shows(c, from, b)
  <2> SUFFICES ASSUME NEW i \in 1 .. Len(b), from + i - 1 <= Len(c)
               PROVE  c[from + i - 1] = b[i]
    BY DEF Shows
  <2>1. from + i - 1 \in 1 .. h /\ from + i - 1 <= Len(t)
    BY <1>1, <1>3
  <2> QED BY <1>3, <2>1 DEF Shows
<1> QED BY <1>3, <1>4 DEF c

(* A header the scan comes to, if it was not cut, is taken for what it is; *)
(* and a cut one for the end of the log.                                   *)
LEMMA HeaderScanned ==
  ASSUME NEW t \in Seq(Byte), NEW from \in Nat \ {0}, NEW marker \in {"*", "$"},
         NEW n \in Nat, Shows(t, from, Header(marker, n))
  PROVE  LET end  == LineEnd(t, from)
             line == SubSeq(t, from, end - 1)
         IN  /\ Len(Header(marker, n)) \in Nat
             /\ (end = 0) <=> from + Len(Header(marker, n)) - 1 > Len(t)
             /\ end # 0 => /\ end + 2 = from + Len(Header(marker, n))
                           /\ line # <<>> /\ line[1] = marker
                           /\ IsLength(Tail(line)) /\ LengthOf(Tail(line)) = n
<1> DEFINE h == Header(marker, n)
           e == LineEnd(h, 1)
           l == Len(h)
           end == LineEnd(t, from)
<1>1. /\ h \in Seq(Byte) /\ l \in Nat /\ e = l - 1 /\ l >= 4
      /\ SubSeq(h, 1, l - 2) = <<marker>> \o Decimal(n)
      /\ <<marker>> \o Decimal(n) # <<>> /\ (<<marker>> \o Decimal(n))[1] = marker
      /\ Tail(<<marker>> \o Decimal(n)) = Decimal(n)
  BY HeaderFacts
<1>2. Len(t) \in Nat
  BY LenProperties
<1>3. e # 0 =>
        /\ end = IF from + e <= Len(t) THEN from + e - 1 ELSE 0
        /\ from + e <= Len(t) => SubSeq(t, from, from + e - 2) = SubSeq(h, 1, e - 1)
  BY <1>1, <1>2, LineShown
<1>4. IsLength(Decimal(n)) /\ LengthOf(Decimal(n)) = n
  BY DecimalReads
<1> DEFINE s == Len(t)
           L == <<marker>> \o Decimal(n)
<1>5. s \in Nat /\ from \in Nat /\ from >= 1 /\ l \in Nat /\ l >= 4 /\ e = l - 1
      /\ end = IF from + e <= s THEN from + e - 1 ELSE 0
  BY <1>1, <1>2, <1>3
<1>6. SubSeq(h, 1, e - 1) = L
  <2>1. e - 1 = l - 2
    BY <1>5
  <2> QED BY <1>1, <2>1
<1>11. e # 0
  <2> HIDE DEF e, l
  <2> QED BY <1>5
<1>7. from + e <= s => SubSeq(t, from, from + e - 2) = L
  BY <1>3, <1>6, <1>11
<1>8. L # <<>> /\ L[1] = marker /\ IsLength(Tail(L)) /\ LengthOf(Tail(L)) = n
  BY <1>1, <1>4
<1> HIDE DEF s, e, l, h, end, L
<1>9. (end = 0) <=> from + l - 1 > s
  BY <1>5
<1>10. end # 0 => end + 2 = from + l /\ from + e <= s /\ end - 1 = from + e - 2
  BY <1>5
<1> QED BY <1>5, <1>7, <1>8, <1>9, <1>10 DEF s, e, l, h, end, L

(* What the scan comes to within a record.                                 *)
LEMMA RecordShown ==
  ASSUME NEW r \in Seq(Seq(Byte)), NEW t \in Seq(Byte), NEW from \in Nat \ {0},
         Shows(t, from, EncodeArray(r))
  PROVE  LET f == ArrayFrame(r) IN
         /\ Len(r) \in Nat
         /\ Shows(t, from, Header("*", Len(r)))
         /\ Offset(f, 0) = Len(Header("*", Len(r)))
         /\ Len(EncodeArray(r)) = Offset(f, Len(r))
         /\ \A i \in 0 .. Len(r) : Offset(f, i) \in Nat /\ Offset(f, i) <= Offset(f, Len(r))
         /\ \A i \in 1 .. Len(r) :
              /\ r[i] \in Seq(Byte) /\ Len(r[i]) \in Nat
              /\ Shows(t, from + Offset(f, i - 1), Header("$", Len(r[i])))
              /\ Shows(t, from + Offset(f, i - 1) + Len(Header("$", Len(r[i]))), r[i] \o CRLF)
              /\ Offset(f, i) = Offset(f, i - 1) + Len(Header("$", Len(r[i]))) + Len(r[i]) + 2
<1> DEFINE f == ArrayFrame(r)
<1>1. /\ f \in ClientFrame /\ EncodeArray(r) = Bytes(f)
      /\ Len(f.bulks) = Len(r) /\ Len(r) \in Nat
      /\ f.head = Header("*", Len(r)) /\ f.rest = <<>>
      /\ \A i \in 1 .. Len(r) : /\ r[i] \in Seq(Byte) /\ Len(r[i]) \in Nat
                                /\ f.bulks[i] = Bulk(Header("$", Len(r[i])), r[i])
  BY ArrayIsFrame
<1> HIDE DEF f
<1>2. ASSUME NEW i \in 1 .. Len(r)
      PROVE  f.bulks[i].head = Header("$", Len(r[i])) /\ f.bulks[i].payload = r[i]
  <2>1. f.bulks[i] = Bulk(Header("$", Len(r[i])), r[i])
    BY <1>1
  <2> QED BY <2>1 DEF Bulk
<1>3. Len(t) \in Nat
  BY LenProperties
<1>4. /\ Shows(t, from, f.head)
      /\ \A i \in 1 .. Len(f.bulks) :
           /\ Shows(t, from + Offset(f, i - 1), f.bulks[i].head)
           /\ Shows(t, from + Offset(f, i - 1) + Len(f.bulks[i].head),
                    f.bulks[i].payload \o CRLF)
  BY <1>1, <1>3, FrameShown
<1>5. /\ Offset(f, 0) = Len(f.head)
      /\ \A i \in 0 .. Len(f.bulks) : Offset(f, i) \in Nat
      /\ \A i \in 1 .. Len(f.bulks) :
           Offset(f, i) = Offset(f, i - 1)
                            + Len(f.bulks[i].head) + Len(f.bulks[i].payload) + 2
      /\ \A i \in 0 .. Len(f.bulks) : Offset(f, i) <= Offset(f, Len(f.bulks))
      /\ Len(Bytes(f)) = Offset(f, Len(f.bulks)) + Len(f.rest)
  BY <1>1, OffsetFacts
<1>6. Len(EncodeArray(r)) = Offset(f, Len(r))
  <2>1. Len(f.rest) = 0 /\ Len(r) \in 0 .. Len(f.bulks)
    BY <1>1
  <2> QED BY <1>1, <1>5, <2>1, SMTT(20)
<1> QED BY <1>1, <1>2, <1>4, <1>5, <1>6 DEF f

LEMMA PrefixGrows ==
  ASSUME NEW S, NEW q \in Seq(S), NEW n \in Nat, n < Len(q)
  PROVE  Append(SubSeq(q, 1, n), q[n + 1]) = SubSeq(q, 1, n + 1)
<1>1. n + 1 \in 1 .. Len(q) /\ Len(q) \in Nat
  BY LenProperties
<1>2. SubSeq(q, 1, n) = [i \in 1 .. n |-> q[i]] /\ SubSeq(q, 1, n + 1) = [i \in 1 .. n + 1 |-> q[i]]
  <2>1. \A i \in 1 .. n + 1 : 1 + i - 1 = i
    OBVIOUS
  <2> QED BY <1>1, <2>1
<1> QED BY <1>1, <1>2

(* A cut log: where it ends, and what it shows.                            *)
LEMMA CutFacts ==
  ASSUME ScanInv, ~Damaged
  PROVE  /\ written \in Logs /\ data = SubSeq(Encoded(written), 1, harm)
         /\ data \in Seq(Byte) /\ Len(data) = harm /\ harm \in Nat
         /\ harm <= Len(Encoded(written)) /\ Len(written) \in Nat
         /\ Ends(Len(written)) = Len(Encoded(written))
         /\ \A n \in 0 .. Len(written) : Ends(n) \in Nat
         /\ \A n \in 0 .. Len(written) :
              n < Len(written) =>
                /\ n + 1 \in 1 .. Len(written)
                /\ Ends(n + 1) = Ends(n) + Len(EncodeArray(written[n + 1]))
                /\ Shows(data, Ends(n) + 1, EncodeArray(written[n + 1]))
                /\ written[n + 1] \in Seq(Seq(Byte)) /\ written[n + 1] # <<>>
<1> DEFINE E == Encoded(written)
<1>1. written \in Logs /\ harm \in 0 .. Len(E) /\ data = SubSeq(E, 1, harm)
  BY DEF ScanInv
<1>2. /\ Ends(Len(written)) = Len(E) /\ E \in Seq(Byte) /\ Len(E) \in Nat
      /\ \A n \in 0 .. Len(written) : Ends(n) \in Nat
      /\ \A n \in 0 .. Len(written) :
           n < Len(written) =>
             /\ n + 1 \in 1 .. Len(written)
             /\ Ends(n + 1) = Ends(n) + Len(EncodeArray(written[n + 1]))
             /\ Shows(E, Ends(n) + 1, EncodeArray(written[n + 1]))
  BY <1>1, EndsFacts
<1>3. /\ Len(written) \in Nat
      /\ \A i \in 1 .. Len(written) : written[i] \in Seq(Seq(Byte)) /\ written[i] # <<>>
  BY <1>1, WrittenFacts
<1> HIDE DEF E
<1>4. \A b \in Seq(Byte) : \A from \in Nat \ {0} :
        Shows(E, from, b) => Shows(data, from, b)
  BY <1>1, <1>2, CutShows
<1>5. Len(data) = harm /\ data \in Seq(Byte)
  <2>1. <<>> \in Seq(Byte) /\ Shows(E, 1, <<>>) /\ 1 \in Nat \ {0}
    BY DEF Shows
  <2> QED BY <1>1, <1>2, <2>1, CutShows
<1>6. ASSUME NEW n \in 0 .. Len(written), n < Len(written)
      PROVE  Shows(data, Ends(n) + 1, EncodeArray(written[n + 1]))
  <2>1. EncodeArray(written[n + 1]) \in Seq(Byte) /\ Ends(n) + 1 \in Nat \ {0}
    <3>1. written[n + 1] \in Seq(Seq(Byte)) /\ Ends(n) \in Nat
      BY <1>2, <1>3, <1>6
    <3> QED BY <3>1, ArrayIsFrame, OffsetFacts
  <2> QED BY <1>2, <1>4, <1>6, <2>1
<1>7. harm \in Nat /\ harm <= Len(E)
  BY <1>1, <1>2
<1> QED BY <1>1, <1>2, <1>3, <1>5, <1>6, <1>7 DEF E

LEMMA WrittenStays ==
  ASSUME UNCHANGED <<written, harm, data>>
  PROVE  Arrays' = Arrays /\ Encoded(written)' = Encoded(written)
         /\ Damaged' = Damaged /\ \A n : Ends(n)' = Ends(n)
<1>1. Arrays' = Arrays
  BY DEF Arrays
<1> QED BY <1>1 DEF Ends, Damaged

(* No more than what the cut leaves is ever found.                         *)
LEMMA EndScanKeeps ==
  ASSUME ScanInv, ~Damaged, NEW n \in 0 .. Len(written), Scanned(n), EndScan, Scanning,
         n = Len(written) \/ Ends(n + 1) > harm
  PROVE  ScanInv'
<1>1. UNCHANGED <<written, harm, file, data, applied, offset, cursor, left, parts, records>>
      /\ phase' = "apply"
  BY DEF EndScan, Scanning
<1>2. Encoded(written)' = Encoded(written) /\ Damaged' = Damaged /\ \A m : Ends(m)' = Ends(m)
  BY <1>1, WrittenStays
<1>3. Scanned(n)'
  BY <1>1, <1>2 DEF Scanned
<1> QED BY <1>1, <1>2, <1>3 DEF ScanInv

LEMMA HeaderKeepsScan ==
  ASSUME ScanInv, ~Damaged, ReadHeader
  PROVE  ScanInv'
<1> DEFINE end == LineEnd(data, offset)
           line == SubSeq(data, offset, end - 1)
<1>1. PICK n \in 0 .. Len(written) : Scanned(n)
  BY DEF ScanInv
<1>2. Scanning /\ phase = "scan" /\ left = 0 /\ parts = <<>> /\ offset = Ends(n) + 1
      /\ Ends(n) <= harm /\ Ends(n) \in Nat /\ offset \in Nat \ {0}
  <2>1. Scanning /\ phase = "scan" /\ left = 0
    BY DEF ReadHeader, Scanning
  <2>2. Ends(n) \in Nat
    BY CutFacts
  <2> QED BY <1>1, <2>1, <2>2 DEF Scanned
<1>3. CASE n = Len(written)
  <2>1. Len(data) = harm /\ harm <= Ends(n) /\ Len(data) \in Nat
    BY <1>3, CutFacts
  <2>2. \A i \in offset .. Len(data) - 1 : ~Breaks(data, i)
    BY <1>2, <2>1
  <2>3. end = 0
    BY <1>2, <2>1, <2>2, NoLineEnd
  <2>4. EndScan
    BY <2>3 DEF ReadHeader
  <2> QED BY <1>1, <1>2, <1>3, <2>4, EndScanKeeps
<1>4. CASE n # Len(written)
  <2> DEFINE r == written[n + 1]
             f == ArrayFrame(r)
             h == Len(Header("*", Len(r)))
  <2>1. /\ n < Len(written) /\ r \in Seq(Seq(Byte)) /\ r # <<>>
        /\ Shows(data, offset, EncodeArray(r))
        /\ Ends(n + 1) = Ends(n) + Len(EncodeArray(r))
        /\ data \in Seq(Byte) /\ Len(data) = harm /\ harm \in Nat
    <3>1. n < Len(written)
      BY <1>4, CutFacts
    <3> QED BY <1>2, <3>1, CutFacts
  <2>2. /\ Len(r) \in Nat /\ Shows(data, offset, Header("*", Len(r)))
        /\ Offset(f, 0) = h /\ Len(EncodeArray(r)) = Offset(f, Len(r))
        /\ Offset(f, 0) <= Offset(f, Len(r)) /\ Offset(f, Len(r)) \in Nat /\ Len(r) # 0
    <3>1. Len(r) \in Nat /\ Len(r) # 0
      BY <2>1, EmptySeq, LenProperties
    <3>2. 0 \in 0 .. Len(r) /\ Len(r) \in 0 .. Len(r)
      BY <3>1
    <3> QED BY <1>2, <2>1, <3>1, <3>2, RecordShown
  <2>3. /\ h \in Nat /\ ((end = 0) <=> offset + h - 1 > harm)
        /\ end # 0 => /\ end + 2 = offset + h /\ line # <<>> /\ line[1] = "*"
                      /\ IsLength(Tail(line)) /\ LengthOf(Tail(line)) = Len(r)
    BY <1>2, <2>1, <2>2, HeaderScanned
  <2>4. CASE end = 0
    <3>1. EndScan
      BY <2>4 DEF ReadHeader
    <3> DEFINE o == Offset(f, Len(r))
               s == Ends(n)
    <3>2. s \in Nat /\ o \in Nat /\ h <= o /\ s + 1 + h - 1 > harm /\ Ends(n + 1) = s + o
      BY <1>2, <2>1, <2>2, <2>3, <2>4
    <3> HIDE DEF o, s, h
    <3>3. s + o > harm
      BY <2>1, <2>3, <3>2
    <3>4. Ends(n + 1) > harm
      BY <3>2, <3>3
    <3> QED BY <1>1, <1>2, <3>1, <3>4, EndScanKeeps
  <2>5. CASE end # 0
    <3>1. ~(LengthOf(Tail(line)) <= 0)
      BY <2>2, <2>3, <2>5
    <3>2. /\ left' = Len(r) /\ cursor' = end + 2
          /\ UNCHANGED <<written, harm, file, data, applied, offset, parts, records, phase>>
      BY <2>3, <2>5, <3>1 DEF ReadHeader, Scanning
    <3>3. Encoded(written)' = Encoded(written) /\ Damaged' = Damaged
          /\ \A m : Ends(m)' = Ends(m)
      BY <3>2, WrittenStays
    <3>4. Inside(n, r, 0)'
      <4>1. 0 < Len(r) /\ Len(r) - 0 = Len(r)
        BY <2>2
      <4>2. SubSeq(r, 1, 0) = <<>>
        BY SubSeqEmpty
      <4>3. cursor' = Ends(n) + 1 + Offset(f, 0)
        BY <1>2, <2>2, <2>3, <2>5, <3>2
      <4> QED BY <1>2, <3>2, <3>3, <4>1, <4>2, <4>3 DEF Inside
    <3>5. Scanned(n)'
      <4>1. 0 \in Nat
        OBVIOUS
      <4> QED BY <1>1, <1>2, <2>1, <3>2, <3>3, <3>4, <4>1 DEF Scanned
    <3> QED BY <3>2, <3>3, <3>5 DEF ScanInv
  <2> QED BY <2>4, <2>5
<1> QED BY <1>3, <1>4

(* A part the scan comes to is read as it was written, or cut.             *)
LEMMA PartScanned ==
  ASSUME NEW t \in Seq(Byte), NEW from \in Nat \ {0}, NEW p \in Seq(Byte),
         Shows(t, from, Header("$", Len(p))),
         Shows(t, from + Len(Header("$", Len(p))), p \o CRLF)
  PROVE  LET end   == LineEnd(t, from)
             line  == SubSeq(t, from, end - 1)
             after == end + 2
             stop  == PartEnd(after, LengthOf(Tail(line)))
             next  == from + Len(Header("$", Len(p))) + Len(p) + 2
         IN  /\ end = 0 => next - 1 > Len(t)
             /\ end # 0 => /\ line # <<>> /\ line[1] = "$" /\ IsLength(Tail(line))
                           /\ ~(LengthOf(Tail(line)) < 0)
                           /\ stop + 1 > Len(t) => next - 1 > Len(t)
                           /\ ~(stop + 1 > Len(t)) =>
                                /\ SubSeq(t, stop, stop + 1) = CRLF
                                /\ SubSeq(t, after, stop - 1) = p
                                /\ stop + 2 = next
<1> DEFINE h     == Len(Header("$", Len(p)))
           k     == Len(p)
           end   == LineEnd(t, from)
           line  == SubSeq(t, from, end - 1)
           after == end + 2
           stop  == PartEnd(after, LengthOf(Tail(line)))
<1>1. k \in Nat /\ Len(t) \in Nat /\ "$" \in {"*", "$"}
  BY LenProperties
<1>2. /\ h \in Nat /\ ((end = 0) <=> from + h - 1 > Len(t))
      /\ end # 0 => /\ end + 2 = from + h /\ line # <<>> /\ line[1] = "$"
                    /\ IsLength(Tail(line)) /\ LengthOf(Tail(line)) = k
  BY <1>1, HeaderScanned
<1>3. end # 0 => after = from + h /\ stop = from + h + k
  BY <1>2 DEF PartEnd
<1>4. /\ p \o CRLF \in Seq(Byte) /\ Len(p \o CRLF) = k + 2 /\ Len(CRLF) = 2
      /\ CRLF \in Seq(Byte)
  BY CRLFType, ByteConcat
<1>5. /\ Shows(t, from + h, p) /\ Shows(t, from + h + k, CRLF)
  <2>1. from + h \in Nat
    BY <1>2
  <2> QED BY <1>1, <1>4, <2>1, ShowsConcat
<1>6. ASSUME end # 0, ~(stop + 1 > Len(t))
      PROVE  SubSeq(t, stop, stop + 1) = CRLF /\ SubSeq(t, after, stop - 1) = p
  <2> HIDE DEF h, k, end, after, stop, line
  <2>1. from + h \in Nat \ {0} /\ from + h + k \in Nat \ {0}
    BY <1>1, <1>2
  <2>2. from + h + k + 1 <= Len(t)
    BY <1>1, <1>2, <1>3, <1>6
  <2>3. from + h + k + 2 - 1 <= Len(t) /\ from + h + k + 2 - 1 = from + h + k + 1
        /\ from + h + k - 1 <= Len(t)
    BY <1>1, <1>2, <2>2
  <2>4. SubSeq(t, from + h + k, from + h + k + 2 - 1) = CRLF
    BY <1>1, <1>4, <1>5, <2>1, <2>3, SubSeqShown
  <2>5. SubSeq(t, from + h, from + h + k - 1) = p
    BY <1>1, <1>5, <2>1, <2>3, SubSeqShown DEF k
  <2>6. after = from + h /\ stop = from + h + k
    BY <1>3, <1>6
  <2>7. stop + 1 = from + h + k + 2 - 1 /\ stop - 1 = from + h + k - 1
    BY <1>1, <1>2, <2>6
  <2> QED BY <2>4, <2>5, <2>6, <2>7
<1> HIDE DEF h, k, end, after, stop, line
<1>7. end = 0 => (from + h + k + 2) - 1 > Len(t)
  BY <1>1, <1>2
<1>8. end # 0 => /\ line # <<>> /\ line[1] = "$" /\ IsLength(Tail(line))
                 /\ ~(LengthOf(Tail(line)) < 0)
                 /\ stop + 1 > Len(t) => (from + h + k + 2) - 1 > Len(t)
                 /\ stop + 2 = from + h + k + 2
  BY <1>1, <1>2, <1>3
<1>9. end # 0 /\ ~(stop + 1 > Len(t)) =>
        SubSeq(t, stop, stop + 1) = CRLF /\ SubSeq(t, after, stop - 1) = p
  BY <1>6
<1>10. /\ end = 0 => (from + h + k + 2) - 1 > Len(t)
       /\ end # 0 => /\ line # <<>> /\ line[1] = "$" /\ IsLength(Tail(line))
                     /\ ~(LengthOf(Tail(line)) < 0)
                     /\ stop + 1 > Len(t) => (from + h + k + 2) - 1 > Len(t)
                     /\ ~(stop + 1 > Len(t)) => /\ SubSeq(t, stop, stop + 1) = CRLF
                                                /\ SubSeq(t, after, stop - 1) = p
                                                /\ stop + 2 = from + h + k + 2
  BY <1>7, <1>8, <1>9
<1> QED BY <1>10, Zenon DEF h, k, end, after, stop, line

LEMMA PartKeepsScan ==
  ASSUME ScanInv, ~Damaged, ReadPart
  PROVE  ScanInv'
<1> DEFINE end   == LineEnd(data, cursor)
           line  == SubSeq(data, cursor, end - 1)
           after == end + 2
           stop  == PartEnd(after, LengthOf(Tail(line)))
<1>1. PICK n \in 0 .. Len(written) : Scanned(n)
  BY DEF ScanInv
<1> DEFINE r == written[n + 1]
           f == ArrayFrame(r)
           start == Ends(n) + 1
<1>2. Scanning /\ phase = "scan" /\ left > 0 /\ left # 0 /\ n < Len(written)
  <2>1. Scanning /\ phase = "scan" /\ left > 0
    BY DEF ReadPart, Scanning
  <2>2. left # 0
    BY <2>1
  <2> QED BY <1>1, <2>1, <2>2 DEF Scanned
<1>3. PICK i \in Nat : Inside(n, r, i)
  BY <1>1, <1>2 DEF Scanned
<1>4. /\ r \in Seq(Seq(Byte)) /\ Shows(data, start, EncodeArray(r))
      /\ Ends(n + 1) = Ends(n) + Len(EncodeArray(r)) /\ Ends(n) \in Nat
      /\ n + 1 \in 1 .. Len(written) /\ Len(written) \in Nat
      /\ data \in Seq(Byte) /\ Len(data) = harm /\ harm \in Nat
      /\ start \in Nat \ {0}
  BY <1>2, CutFacts
<1>5. /\ Len(r) \in Nat /\ i < Len(r) /\ left = Len(r) - i /\ parts = SubSeq(r, 1, i)
      /\ cursor = start + Offset(f, i)
  BY <1>3, <1>4, LenProperties DEF Inside
<1> DEFINE p == r[i + 1]
           h == Len(Header("$", Len(p)))
<1>6. i + 1 \in 1 .. Len(r) /\ (i + 1) - 1 = i /\ i \in 0 .. Len(r) /\ i + 1 \in 0 .. Len(r)
  BY <1>5
<1>7. /\ p \in Seq(Byte) /\ Len(p) \in Nat
      /\ Shows(data, cursor, Header("$", Len(p))) /\ Shows(data, cursor + h, p \o CRLF)
      /\ Offset(f, i + 1) = Offset(f, i) + h + Len(p) + 2
      /\ Offset(f, i) \in Nat /\ Offset(f, i + 1) <= Offset(f, Len(r))
      /\ Offset(f, Len(r)) \in Nat /\ Offset(f, i + 1) \in Nat
      /\ Len(EncodeArray(r)) = Offset(f, Len(r)) /\ cursor \in Nat \ {0} /\ h \in Nat
  <2>1. /\ \A j \in 0 .. Len(r) : Offset(f, j) \in Nat /\ Offset(f, j) <= Offset(f, Len(r))
        /\ \A j \in 1 .. Len(r) :
             /\ r[j] \in Seq(Byte) /\ Len(r[j]) \in Nat
             /\ Shows(data, start + Offset(f, j - 1), Header("$", Len(r[j])))
             /\ Shows(data, start + Offset(f, j - 1) + Len(Header("$", Len(r[j]))), r[j] \o CRLF)
             /\ Offset(f, j) = Offset(f, j - 1) + Len(Header("$", Len(r[j]))) + Len(r[j]) + 2
        /\ Len(EncodeArray(r)) = Offset(f, Len(r))
    BY <1>4, RecordShown
  <2>2. Len(r) \in 0 .. Len(r)
    BY <1>5
  <2> HIDE DEF start, f, r
  <2>3. /\ p \in Seq(Byte) /\ Len(p) \in Nat
        /\ Shows(data, start + Offset(f, i), Header("$", Len(p)))
        /\ Shows(data, start + Offset(f, i) + h, p \o CRLF)
        /\ Offset(f, i + 1) = Offset(f, i) + h + Len(p) + 2
    BY <1>6, <2>1
  <2>4. Offset(f, i) \in Nat /\ cursor \in Nat \ {0}
    <3> DEFINE o == Offset(f, i)
    <3>1. o \in Nat /\ cursor = start + o
      BY <1>5, <1>6, <2>1
    <3> HIDE DEF o
    <3>2. cursor \in Nat \ {0}
      BY <1>4, <3>1
    <3> QED BY <3>1, <3>2 DEF o
  <2>5. h \in Nat
    BY <2>3, HeaderFacts
  <2> QED BY <1>5, <1>6, <2>1, <2>2, <2>3, <2>4, <2>5
<1> DEFINE next == cursor + h + Len(p) + 2
<1>8. /\ end = 0 => next - 1 > harm
      /\ end # 0 => /\ line # <<>> /\ line[1] = "$" /\ IsLength(Tail(line))
                    /\ ~(LengthOf(Tail(line)) < 0)
                    /\ stop + 1 > Len(data) => next - 1 > harm
                    /\ ~(stop + 1 > Len(data)) =>
                         /\ SubSeq(data, stop, stop + 1) = CRLF
                         /\ SubSeq(data, after, stop - 1) = p
                         /\ stop + 2 = next
  BY <1>4, <1>7, PartScanned
<1>9. next = start + Offset(f, i + 1)
  <2> DEFINE o == Offset(f, i)
             q == Offset(f, i + 1)
             k == Len(p)
  <2>1. /\ o \in Nat /\ h \in Nat /\ k \in Nat /\ start \in Nat
        /\ q = o + h + k + 2 /\ cursor = start + o
    BY <1>4, <1>5, <1>7
  <2> HIDE DEF o, q, h, k, start
  <2>2. cursor + h + k + 2 = start + q
    BY <2>1
  <2> QED BY <2>2 DEF k, q
<1>10. CASE end = 0 \/ stop + 1 > Len(data)
  <2>1. EndScan
    BY <1>8, <1>10 DEF ReadPart
  <2>2. next - 1 > harm
    BY <1>8, <1>10
  <2>3. Ends(n + 1) > harm
    <3> DEFINE s == Ends(n)
               o == Offset(f, i + 1)
               w == Offset(f, Len(r))
    <3>1. /\ s \in Nat /\ o \in Nat /\ w \in Nat /\ o <= w
          /\ Ends(n + 1) = s + w /\ harm \in Nat
      BY <1>4, <1>7
    <3>3. s + 1 + o - 1 > harm
      <4>1. next = s + 1 + o /\ next - 1 > harm
        BY <1>9, <2>2
      <4> HIDE DEF next, s, o
      <4> QED BY <3>1, <4>1
    <3> HIDE DEF s, o, w
    <3> QED BY <3>1, <3>3
  <2> QED BY <1>1, <1>2, <2>1, <2>3, EndScanKeeps
<1>11. CASE end # 0 /\ ~(stop + 1 > Len(data))
  <2>1. Terminated(stop) /\ SubSeq(data, after, stop - 1) = p /\ stop + 2 = next
    BY <1>8, <1>11 DEF Terminated
  <2>2. /\ left' = left - 1 /\ cursor' = next
        /\ IF left > 1
             THEN parts' = Append(parts, p) /\ UNCHANGED <<offset, records>>
             ELSE /\ parts' = <<>>
                  /\ records' = Append(records, Append(parts, p))
                  /\ offset' = next
        /\ UNCHANGED <<written, harm, file, data, applied, phase>>
    BY <1>8, <1>11, <2>1 DEF ReadPart, Scanning
  <2>3. Append(parts, p) = SubSeq(r, 1, i + 1)
    BY <1>4, <1>5, PrefixGrows
  <2>4. Encoded(written)' = Encoded(written) /\ Damaged' = Damaged /\ \A m : Ends(m)' = Ends(m)
    BY <2>2, WrittenStays
  <2>5. CASE left > 1
    <3>1. i + 1 < Len(r) /\ left - 1 = Len(r) - (i + 1) /\ i + 1 \in Nat /\ left - 1 # 0
      BY <1>5, <2>5
    <3>2. Inside(n, r, i + 1)'
      BY <1>9, <2>2, <2>3, <2>4, <2>5, <3>1 DEF Inside
    <3>3. Scanned(n)'
      BY <1>1, <1>2, <2>2, <2>4, <2>5, <3>1, <3>2 DEF Scanned
    <3> QED BY <2>2, <2>4, <3>3 DEF ScanInv
  <2>6. CASE ~(left > 1)
    <3>1. i + 1 = Len(r) /\ left - 1 = 0
      BY <1>2, <1>5, <2>6
    <3>2. next = Ends(n + 1) + 1
      <4> DEFINE s == Ends(n)
                 w == Offset(f, Len(r))
      <4>1. s \in Nat /\ w \in Nat /\ Ends(n + 1) = s + w /\ next = s + 1 + w
        BY <1>4, <1>7, <1>9, <3>1
      <4> HIDE DEF s, w, next
      <4> QED BY <4>1
    <3>3. SubSeq(r, 1, Len(r)) = r
      BY <1>4
    <3>4. Append(records, r) = SubSeq(written, 1, n + 1)
      <4>1. written \in Seq(Seq(Seq(Byte))) /\ records = SubSeq(written, 1, n) /\ n \in Nat
        BY <1>1, WrittenFacts DEF ScanInv, Scanned
      <4> QED BY <1>2, <4>1, PrefixGrows
    <3>5. Ends(n + 1) <= harm
      <4> DEFINE e == Ends(n + 1)
      <4>1. stop + 2 = e + 1 /\ ~(stop + 1 > harm) /\ harm \in Nat /\ e \in Nat
        <5>1. n + 1 \in 0 .. Len(written)
          BY <1>4
        <5>2. Ends(n + 1) \in Nat
          BY <5>1, CutFacts
        <5> QED BY <1>4, <1>11, <2>1, <3>2, <5>2
      <4>2. stop \in Int
        <5>1. LengthOf(Tail(line)) = Len(p)
          BY <1>4, <1>7, <1>11, HeaderScanned
        <5>2. end \in Nat
          BY <1>4, <1>7, LineEndFound, LenProperties
        <5>3. \A x, y \in Nat : x + 2 + y \in Int
          OBVIOUS
        <5>4. end + 2 + LengthOf(Tail(line)) \in Int
          BY <1>7, <5>1, <5>2, <5>3
        <5> QED BY <5>4, Zenon DEF PartEnd
      <4> HIDE DEF stop, e
      <4>3. e <= harm
        BY <4>1, <4>2
      <4> QED BY <4>3 DEF e
    <3>6. Scanned(n + 1)'
      <4>1. applied \in 0 .. n + 1
        BY <1>1 DEF Scanned
      <4>2. records' = SubSeq(written, 1, n + 1) /\ offset' = Ends(n + 1) + 1
            /\ parts' = <<>> /\ left' = 0
        BY <2>2, <2>3, <2>6, <3>1, <3>2, <3>3, <3>4
      <4> QED BY <1>2, <2>2, <2>4, <3>5, <4>1, <4>2 DEF Scanned
    <3>7. n + 1 \in 0 .. Len(written)
      BY <1>4
    <3> QED BY <2>2, <2>4, <3>6, <3>7 DEF ScanInv
  <2> QED BY <2>5, <2>6
<1> QED BY <1>10, <1>11

LEMMA StepKeepsScan ==
  ASSUME ScanInv, [Next]_vars
  PROVE  ScanInv'
<1>1. CASE Damaged
  <2>1. UNCHANGED <<written, harm, data>>
    BY DEF Next, ReadHeader, ReadPart, Scanning, Apply, Repair, Done, vars
  <2>2. Encoded(written)' = Encoded(written) /\ Damaged' = Damaged
    BY <2>1, WrittenStays
  <2> QED BY <1>1, <2>1, <2>2 DEF ScanInv
<1>2. CASE ~Damaged
  <2>1. PICK n \in 0 .. Len(written) : Scanned(n)
    BY <1>2 DEF ScanInv
  <2>2. ASSUME UNCHANGED <<written, harm, data>>, Scanned(n)' PROVE ScanInv'
    <3>1. Encoded(written)' = Encoded(written) /\ Damaged' = Damaged
      BY <2>2, WrittenStays
    <3> QED BY <2>2, <3>1 DEF ScanInv
  <2>3. CASE ReadHeader
    BY <1>2, <2>3, HeaderKeepsScan
  <2>4. CASE ReadPart
    BY <1>2, <2>4, PartKeepsScan
  <2>5. CASE Apply
    <3>1. /\ UNCHANGED <<written, harm, file, data, offset, cursor, left, parts, records>>
          /\ phase = "apply" /\ applied < Len(records)
      BY <2>5 DEF Apply
    <3>2. Len(records) = n /\ \A i \in 1 .. n : WellFormed(records[i])
      <4>1. /\ written \in Seq(Seq(Seq(Byte))) /\ Len(written) \in Nat
            /\ \A i \in 1 .. Len(written) : WellFormed(written[i])
        BY WrittenFacts DEF ScanInv
      <4>2. records = [i \in 1 .. n |-> written[i]]
        <5>1. \A i \in 1 .. n : 1 + i - 1 = i
          OBVIOUS
        <5>2. SubSeq(written, 1, n) = [i \in 1 .. n |-> written[i]]
          BY <4>1, <5>1
        <5> QED BY <2>1, <5>2 DEF Scanned
      <4> QED BY <4>1, <4>2
    <3>3. applied \in 0 .. n /\ applied + 1 \in 1 .. n
      BY <2>1, <3>1, <3>2 DEF Scanned
    <3>4. applied' = applied + 1 /\ phase' = phase
      BY <2>5, <3>2, <3>3 DEF Apply
    <3>5. \A m : Ends(m)' = Ends(m)
      BY <3>1, WrittenStays
    <3>6. Scanned(n)'
      BY <2>1, <3>1, <3>3, <3>4, <3>5 DEF Scanned
    <3> QED BY <2>2, <3>1, <3>6
  <2>6. CASE Repair
    <3>1. /\ UNCHANGED <<written, harm, data, offset, cursor, left, parts, records, applied>>
          /\ phase = "apply" /\ phase' = "loaded" /\ file' = SubSeq(data, 1, offset - 1)
      BY <2>6 DEF Repair
    <3>2. \A m : Ends(m)' = Ends(m)
      BY <3>1, WrittenStays
    <3>3. offset - 1 = Ends(n)
      BY <1>2, <2>1, CutFacts DEF Scanned
    <3>4. Scanned(n)'
      BY <2>1, <3>1, <3>2, <3>3 DEF Scanned
    <3> QED BY <2>2, <3>1, <3>4
  <2>7. CASE Done \/ UNCHANGED vars
    <3>1. UNCHANGED vars
      BY <2>7 DEF Done
    <3>2. /\ UNCHANGED <<written, harm, file, data, offset, cursor, left, parts, records,
                         applied, phase>>
          /\ \A m : Ends(m)' = Ends(m)
      BY <3>1, WrittenStays DEF vars
    <3>3. \A m, s, i : Inside(m, s, i)' = Inside(m, s, i)
      BY <3>2 DEF Inside
    <3>4. Scanned(n)'
      BY <2>1, <3>2, <3>3 DEF Scanned
    <3> QED BY <2>2, <3>2, <3>4
  <2> QED BY <2>3, <2>4, <2>5, <2>6, <2>7 DEF Next
<1> QED BY <1>1, <1>2

(* Nothing is found yet; and a file that is no longer than its unharmed    *)
(* part is that part.                                                      *)
LEMMA InitScan ==
  ASSUME Init
  PROVE  ScanInv
<1> DEFINE E == Encoded(written)
<1>1. written \in Logs /\ harm \in 0 .. Len(E) /\ E \in Seq(Byte) /\ Len(E) \in Nat
      /\ Ends(0) = 0 /\ Len(written) \in Nat
      /\ \A n \in 0 .. Len(written) : Ends(n) \in Nat
  BY EndsFacts, WrittenFacts DEF Init
<1>2. ASSUME ~Damaged PROVE data = SubSeq(E, 1, harm)
  <2>1. CASE file = SubSeq(E, 1, harm)
    BY <2>1 DEF Init
  <2>2. CASE /\ harm < Len(E)
             /\ \E b \in Byte \ {E[harm + 1]}, whole \in BOOLEAN :
                  LET bytes == ReplaceAt(E, harm + 1, b)
                  IN  file = IF whole THEN bytes ELSE Front(bytes)
    <3>1. PICK b \in Byte, whole \in BOOLEAN :
            LET bytes == ReplaceAt(E, harm + 1, b)
            IN  file = IF whole THEN bytes ELSE Front(bytes)
      BY <2>2
    <3> DEFINE bytes == ReplaceAt(E, harm + 1, b)
               l == Len(E)
    <3>2. l \in Nat /\ harm \in Nat /\ harm < l /\ data = file /\ E \in [1 .. l -> Byte]
      BY <1>1, <2>2 DEF Init
    <3>3. bytes \in Seq(Byte) /\ Len(bytes) = l /\ \A i \in 1 .. harm : bytes[i] = E[i]
      <4>1. bytes = [E EXCEPT ![harm + 1] = b]
        BY DEF ReplaceAt
      <4> HIDE DEF bytes, l, E
      <4>2. bytes \in [1 .. l -> Byte] /\ \A i \in 1 .. harm : bytes[i] = E[i]
        BY <3>2, <4>1
      <4> QED BY <3>2, <4>2
    <3> HIDE DEF bytes, l, E
    <3>4. ~(Len(data) > harm)
      BY <1>2 DEF Damaged
    <3>5. CASE whole
      <4>1. data = bytes
        BY <3>1, <3>2, <3>5 DEF bytes
      <4> QED BY <3>2, <3>3, <3>4, <4>1
    <3>6. CASE ~whole
      <4>1. data = SubSeq(bytes, 1, l - 1)
        BY <3>1, <3>2, <3>3, <3>6 DEF Front, bytes
      <4>2. SubSeq(bytes, 1, l - 1) = [i \in 1 .. l - 1 |-> bytes[i]]
        <5>1. \A i \in 1 .. l - 1 : 1 + i - 1 = i
          OBVIOUS
        <5> QED BY <3>2, <3>3, <5>1
      <4>3. Len(data) = l - 1
        BY <3>2, <4>1, <4>2
      <4>4. l - 1 = harm
        BY <3>2, <3>4, <4>3
      <4>5. SubSeq(E, 1, harm) = [i \in 1 .. harm |-> E[i]]
        <5>1. \A i \in 1 .. harm : 1 + i - 1 = i
          OBVIOUS
        <5> QED BY <1>1, <3>2, <5>1
      <4> QED BY <3>3, <4>1, <4>2, <4>4, <4>5
    <3> QED BY <3>5, <3>6
  <2> QED BY <2>1, <2>2 DEF Init
<1>3. Scanned(0)
  <2>1. records = <<>> /\ applied = 0 /\ phase = "scan" /\ left = 0 /\ parts = <<>> /\ offset = 1
    BY DEF Init
  <2>2. SubSeq(written, 1, 0) = <<>>
    BY SubSeqEmpty
  <2>3. 0 <= harm /\ 0 + 1 = 1
    BY <1>1
  <2> QED BY <1>1, <2>1, <2>2, <2>3 DEF Scanned
<1>4. 0 \in 0 .. Len(written)
  BY <1>1
<1> QED BY <1>1, <1>2, <1>3, <1>4 DEF ScanInv

(* The bytes of the first m records are the first bytes of the log.        *)
LEMMA EncodedPrefix ==
  ASSUME written \in Logs, NEW m \in 0 .. Len(written)
  PROVE  Encoded(SubSeq(written, 1, m)) = Joined(Arrays, m)
<1> DEFINE q == SubSeq(written, 1, m)
<1>1. /\ written \in Seq(Seq(Seq(Byte))) /\ Len(written) \in Nat
      /\ Arrays \in Seq(Seq(Byte)) /\ Len(Arrays) = Len(written)
      /\ \A i \in 1 .. Len(written) : Arrays[i] = EncodeArray(written[i])
  BY WrittenFacts
<1>2. m \in Nat /\ m <= Len(written) /\ \A i \in 1 .. m : 1 + i - 1 = i /\ i \in 1 .. Len(written)
  BY <1>1
<1>3. q = [i \in 1 .. m |-> written[i]] /\ DOMAIN q = 1 .. m
  <2>1. q = [i \in 1 .. m |-> written[i]]
    BY <1>1, <1>2
  <2> QED BY <2>1
<1>4. SubSeq(Arrays, 1, m) = [i \in 1 .. m |-> Arrays[i]]
  BY <1>1, <1>2
<1> HIDE DEF q
<1>5. [i \in DOMAIN q |-> EncodeArray(q[i])] = [i \in 1 .. m |-> Arrays[i]]
  <2>1. \A i \in 1 .. m : EncodeArray(q[i]) = Arrays[i]
    BY <1>1, <1>2, <1>3
  <2> QED BY <1>3, <2>1
<1> QED BY <1>4, <1>5 DEF Encoded, Joined, q

(* What was loaded is what the cut left whole.                             *)
LEMMA LoadedIsWhole ==
  ASSUME ScanInv, ~Damaged, phase = "loaded"
  PROVE  records = SubSeq(written, 1, Whole) /\ file = Encoded(records)
<1> DEFINE E == Encoded(written)
           T == {m \in 0 .. Len(written) : Len(Encoded(SubSeq(written, 1, m))) <= harm}
<1>1. PICK n \in 0 .. Len(written) : Scanned(n)
  BY DEF ScanInv
<1> DEFINE J == Joined(Arrays, n)
<1>2. /\ Ends(n) <= harm /\ records = SubSeq(written, 1, n)
      /\ n = Len(written) \/ Ends(n + 1) > harm
      /\ file = SubSeq(data, 1, Ends(n))
  BY <1>1 DEF Scanned
<1>3. /\ written \in Logs /\ data = SubSeq(E, 1, harm) /\ harm \in Nat /\ harm <= Len(E)
      /\ Len(written) \in Nat
  BY CutFacts
<1>4. /\ E \in Seq(Byte) /\ Len(E) \in Nat
      /\ \A m \in 0 .. Len(written) : Ends(m) \in Nat
      /\ \A k \in 0 .. Len(written) : \A m \in k .. Len(written) : Ends(k) <= Ends(m)
  BY <1>3, EndsFacts
<1>5. \A m \in 0 .. Len(written) : Encoded(SubSeq(written, 1, m)) = Joined(Arrays, m)
  BY <1>3, EncodedPrefix
<1>6. Whole = n
  <2>1. n \in T
    BY <1>2, <1>5 DEF Ends
  <2>2. ASSUME NEW m \in T PROVE m <= n
    <3>1. m \in 0 .. Len(written) /\ Ends(m) <= harm
      BY <1>5, <2>2 DEF Ends
    <3>2. CASE n = Len(written)
      BY <3>1, <3>2
    <3>3. CASE n # Len(written)
      <4>1. n + 1 \in 0 .. Len(written) /\ Ends(n + 1) > harm
        BY <1>2, <1>3, <3>3
      <4>2. Ends(n + 1) \in Nat /\ Ends(m) \in Nat
        BY <1>4, <3>1, <4>1
      <4> SUFFICES ASSUME ~(m <= n) PROVE FALSE
        OBVIOUS
      <4>3. m \in n + 1 .. Len(written)
        BY <1>3, <3>1
      <4>4. Ends(n + 1) <= Ends(m)
        BY <1>4, <4>1, <4>3
      <4> QED BY <1>3, <3>1, <4>1, <4>2, <4>4
    <3> QED BY <3>2, <3>3
  <2>3. T \in SUBSET (0 .. Len(written)) /\ T # {}
    BY <2>1
  <2>4. Whole = Max(T)
    BY DEF Whole
  <2> HIDE DEF T
  <2>5. Max(T) \in T /\ n <= Max(T)
    BY <1>3, <2>1, <2>3, MaxIsGreatest
  <2>6. Max(T) <= n /\ Max(T) \in 0 .. Len(written)
    BY <2>2, <2>3, <2>5
  <2> QED BY <1>3, <2>4, <2>5, <2>6
<1>7. file = J
  <2>1. /\ Arrays \in Seq(Seq(Byte)) /\ Len(Arrays) = Len(written)
        /\ E = FlattenSeq(Arrays)
    BY <1>3, WrittenFacts
  <2>2. J \in Seq(Byte) /\ Joined(Arrays, Len(written)) = E
    BY <2>1, JoinedSteps
  <2>3. IsPrefix(J, E)
    <3>1. n \in 0 .. Len(Arrays) /\ Len(Arrays) \in n .. Len(Arrays)
      BY <1>3, <2>1
    <3> QED BY <2>1, <2>2, <3>1, JoinedPrefix
  <2> DEFINE k == Ends(n)
  <2>4. k = Len(J) /\ k \in Nat /\ k <= harm
    BY <1>2, <1>4 DEF Ends
  <2> HIDE DEF J, E, k
  <2>5. SubSeq(J, 1, k) = SubSeq(E, 1, k) /\ SubSeq(J, 1, k) = J
    <3>1. SubSeq(J, 1, Len(J)) = J
      BY <2>2
    <3> QED BY <2>3, <2>4, <3>1 DEF IsPrefix
  <2>6. SubSeq(data, 1, k) = SubSeq(E, 1, k)
    <3>1. \A i \in 1 .. harm : 1 + i - 1 = i
      BY <1>3
    <3>2. data = [i \in 1 .. harm |-> E[i]] /\ data \in Seq(Byte) /\ Len(data) = harm
      <4>1. SubSeq(E, 1, harm) = [i \in 1 .. harm |-> E[i]]
        BY <1>3, <1>4, <3>1
      <4>2. data \in Seq(Byte) /\ Len(data) = harm
        BY CutFacts
      <4> QED BY <1>3, <4>1, <4>2
    <3>3. \A i \in 1 .. k : 1 + i - 1 = i /\ i \in 1 .. harm
      BY <1>3, <2>4
    <3>4. SubSeq(data, 1, k) = [i \in 1 .. k |-> data[i]]
      BY <1>3, <2>4, <3>2, <3>3
    <3>5. SubSeq(E, 1, k) = [i \in 1 .. k |-> E[i]]
      BY <1>3, <1>4, <2>4, <3>3
    <3>6. \A i \in 1 .. k : data[i] = E[i]
      BY <3>2, <3>3
    <3> QED BY <3>4, <3>5, <3>6
  <2> QED BY <1>2, <2>5, <2>6 DEF k
<1> QED BY <1>2, <1>5, <1>6, <1>7

(* A log that was cut anywhere is never refused, and is loaded up to the   *)
(* last record that is whole: load (aof.py:190-211) gives the store those  *)
(* records and no other, and leaves the file at the end of the last, for   *)
(* every log the journal can write and every payload in it.                *)
THEOREM TornTailsRepaired == Spec => []TornTailRepaired
<1>1. Init => ScanInv
  BY InitScan
<1>2. ScanInv /\ [Next]_vars => ScanInv'
  BY StepKeepsScan
<1>3. ScanInv => TornTailRepaired
  <2> SUFFICES ASSUME ScanInv, ~Damaged
               PROVE  /\ phase # "corrupt"
                      /\ phase = "loaded" => /\ records = SubSeq(written, 1, Whole)
                                             /\ file = Encoded(records)
    BY DEF TornTailRepaired
  <2>1. phase # "corrupt"
    BY DEF ScanInv, Scanned
  <2> QED BY <2>1, LoadedIsWhole
<1> QED BY <1>1, <1>2, <1>3, PTL DEF Spec

-----------------------------------------------------------------------------
(* A line one byte of which is not what it was.                            *)

(* One digit changed makes another number.                                 *)
LEMMA NumberDiffers ==
  ASSUME NEW s \in Seq(Digit), NEW t \in Seq(Digit), Len(s) = Len(t),
         NEW k \in 1 .. Len(s), s[k] # t[k],
         \A i \in 1 .. Len(s) : i # k => s[i] = t[i]
  PROVE  Number(s) # Number(t)
<1> DEFINE l == Len(s)
<1>1. l \in Nat /\ 0 \in Nat
  BY LenProperties
<1>2. PICK f : IsNumber(f, s) /\ Number(s) = f[l]
  BY <1>1, NumberChoice
<1>3. PICK g : IsNumber(g, t) /\ Number(t) = g[l]
  BY <1>1, NumberChoice
<1>4. \A i \in 1 .. l : /\ DigitValue(s[i]) \in 0 .. 9 /\ DigitValue(t[i]) \in 0 .. 9
                        /\ s[i] \in Digit /\ t[i] \in Digit
  BY ElementOfSeq, DigitIs
<1>5. DigitValue(s[k]) # DigitValue(t[k])
  <2>1. PICK i \in 1 .. 10 : s[k] = Digits[i]
    BY <1>4 DEF Digit, Digits, ToSet
  <2>2. PICK j \in 1 .. 10 : t[k] = Digits[j]
    BY <1>4 DEF Digit, Digits, ToSet
  <2>3. i - 1 \in 0 .. 9 /\ j - 1 \in 0 .. 9 /\ (i - 1) + 1 = i /\ (j - 1) + 1 = j
    OBVIOUS
  <2>4. DigitValue(s[k]) = i - 1 /\ DigitValue(t[k]) = j - 1
    BY <2>1, <2>2, <2>3, DigitFacts
  <2> QED BY <2>1, <2>2, <2>3, <2>4
<1>6. \A m \in 0 .. l : m < l =>
        /\ m + 1 \in 1 .. l
        /\ f[m + 1] = 10 * f[m] + DigitValue(s[m + 1])
        /\ g[m + 1] = 10 * g[m] + DigitValue(t[m + 1])
  <2> SUFFICES ASSUME NEW m \in 0 .. l, m < l
               PROVE  /\ m + 1 \in 1 .. l
                      /\ f[m + 1] = 10 * f[m] + DigitValue(s[m + 1])
                      /\ g[m + 1] = 10 * g[m] + DigitValue(t[m + 1])
    OBVIOUS
  <2>1. m + 1 \in 0 .. l /\ m + 1 \in 1 .. l /\ (m + 1) - 1 = m /\ m + 1 # 0
    BY <1>1
  <2> QED BY <1>2, <1>3, <2>1 DEF IsNumber
<1>7. f[0] = 0 /\ g[0] = 0
  BY <1>1, <1>2, <1>3 DEF IsNumber
<1> DEFINE S == {m \in Nat : /\ f[m] \in Nat /\ g[m] \in Nat
                             /\ m < k => f[m] = g[m]
                             /\ m >= k => f[m] # g[m]}
<1>8. ASSUME NEW m \in 0 .. l, m \in S, m < l
      PROVE  m + 1 \in S
  <2> DEFINE x == DigitValue(s[m + 1])
             y == DigitValue(t[m + 1])
  <2>1. /\ f[m] \in Nat /\ g[m] \in Nat /\ m + 1 \in 1 .. l /\ m \in Nat
        /\ f[m + 1] = 10 * f[m] + x /\ g[m + 1] = 10 * g[m] + y
        /\ m < k => f[m] = g[m]
        /\ m >= k => f[m] # g[m]
    BY <1>6, <1>8
  <2>2. x \in 0 .. 9 /\ y \in 0 .. 9 /\ (m + 1 # k => x = y) /\ (m + 1 = k => x # y)
    BY <1>4, <1>5, <2>1
  <2> HIDE DEF x, y
  <2>3. f[m + 1] \in Nat /\ g[m + 1] \in Nat
    BY <2>1, <2>2, SMTT(20)
  <2>4. \A u, v \in Nat : \A a, b \in 0 .. 9 :
          /\ u = v /\ a = b => 10 * u + a = 10 * v + b
          /\ u = v /\ a # b => 10 * u + a # 10 * v + b
          /\ u # v /\ a = b => 10 * u + a # 10 * v + b
    OBVIOUS
  <2>5. CASE m + 1 < k
    BY <2>1, <2>2, <2>3, <2>4, <2>5, SMTT(20)
  <2>6. CASE m + 1 = k
    BY <2>1, <2>2, <2>3, <2>4, <2>6, SMTT(20)
  <2>7. CASE m + 1 > k
    BY <2>1, <2>2, <2>3, <2>4, <2>7, SMTT(20)
  <2> QED BY <2>1, <2>5, <2>6, <2>7
<1>9. 0 \in S
  BY <1>7
<1> HIDE DEF S
<1>10. 0 .. l \subseteq S
  BY <1>1, <1>8, <1>9, InductionFrom
<1>11. l \in S /\ l >= k
  BY <1>1, <1>10
<1> QED BY <1>2, <1>3, <1>11 DEF S

(* A byte that is no digit makes no length, unless it is a sign.           *)
LEMMA NotLength ==
  ASSUME NEW S, NEW raw \in Seq(S), NEW i \in 1 .. Len(raw), raw[i] \notin Digit,
         i = 1 => raw[1] # "-"
  PROVE  ~IsLength(raw)
<1> SUFFICES ASSUME IsLength(raw) PROVE FALSE
  OBVIOUS
<1>1. Len(raw) \in Nat /\ raw # <<>>
  BY LenProperties
<1>2. CASE raw[1] = "-"
  <2>1. Unsigned(raw) = Tail(raw) /\ i - 1 \in 1 .. Len(raw) - 1
    BY <1>1, <1>2 DEF Unsigned
  <2>2. Tail(raw)[i - 1] = raw[i] /\ Len(Tail(raw)) = Len(raw) - 1 /\ Tail(raw) \in Seq(S)
    <3>1. /\ Len(Tail(raw)) = Len(raw) - 1 /\ Tail(raw) \in Seq(S)
          /\ \A j \in 1 .. Len(Tail(raw)) : Tail(raw)[j] = raw[j + 1]
      BY <1>1, HeadTailProperties
    <3>2. (i - 1) + 1 = i
      OBVIOUS
    <3> QED BY <2>1, <3>1, <3>2
  <2>3. i - 1 \in DOMAIN Tail(raw)
    BY <2>1, <2>2
  <2> QED BY <2>1, <2>2, <2>3 DEF IsLength, ToSet
<1>3. CASE raw[1] # "-"
  <2>1. Unsigned(raw) = raw /\ i \in DOMAIN raw
    BY <1>3 DEF Unsigned
  <2> QED BY <2>1 DEF IsLength, ToSet
<1> QED BY <1>2, <1>3

(* The bytes of a header with the digits D, one by one.                    *)
Heads(H, marker, D) ==
  /\ H \in Seq(Byte) /\ D \in Seq(Digit) /\ Len(D) \in Nat /\ Len(D) >= 1
  /\ Len(H) = Len(D) + 3
  /\ H[1] = marker /\ H[Len(D) + 2] = "cr" /\ H[Len(D) + 3] = "lf"
  /\ \A i \in 1 .. Len(D) : H[i + 1] = D[i] /\ D[i] \in Digit

LEMMA HeaderBytes ==
  ASSUME NEW marker \in {"*", "$"}, NEW n \in Nat
  PROVE  Heads(Header(marker, n), marker, Decimal(n))
<1> DEFINE H == Header(marker, n)
           D == Decimal(n)
           L == <<marker>> \o D
           l == Len(H)
           d == Len(D)
<1>1. /\ H \in Seq(Byte) /\ l \in Nat /\ l >= 4 /\ LineEnd(H, 1) = l - 1
      /\ SubSeq(H, 1, l - 2) = L /\ L # <<>> /\ L[1] = marker /\ Tail(L) = D
  BY HeaderFacts
<1>2. D \in Seq(Digit) /\ D # <<>>
  BY DecimalFacts
<1> HIDE DEF H, D, L
<1>3. d \in Nat /\ d >= 1 /\ \A i \in 1 .. d : D[i] \in Digit
  <2>1. d \in Nat /\ d # 0
    BY <1>2, LenProperties, EmptySeq
  <2>2. \A i \in 1 .. d : D[i] \in Digit
    BY <1>2, ElementOfSeq
  <2> QED BY <2>1, <2>2
<1>4. H[l - 1] = "cr" /\ H[l] = "lf"
  <2>1. Breaks(H, l - 1) /\ (l - 1) + 1 = l
    <3>1. l - 1 # 0 /\ 1 \in Nat \ {0}
      BY <1>1
    <3> QED BY <1>1, <3>1, LineEndFound
  <2> QED BY <2>1 DEF Breaks
<1>5. L = [i \in 1 .. l - 2 |-> H[i]] /\ L \in Seq(Byte) /\ Len(L) = l - 2
  <2>1. \A i \in 1 .. l - 2 : 1 + i - 1 = i /\ H[i] \in Byte
    BY <1>1, ElementOfSeq
  <2>2. L = [i \in 1 .. l - 2 |-> H[i]]
    BY <1>1, <2>1
  <2> QED BY <1>1, <2>1, <2>2
<1>6. d = Len(L) - 1 /\ \A i \in 1 .. d : D[i] = L[i + 1]
  BY <1>1, <1>5, HeadTailProperties
<1>7. H[1] = marker
  BY <1>1, <1>5
<1>8. \A i \in 1 .. d : H[i + 1] = D[i]
  <2>1. \A i \in 1 .. d : i + 1 \in 1 .. l - 2 /\ i \in Nat
    BY <1>1, <1>3, <1>5, <1>6
  <2>2. \A i \in 1 .. l - 2 : L[i] = H[i]
    BY <1>5
  <2> QED BY <1>6, <2>1, <2>2
<1> HIDE DEF l, d
<1>9. l = d + 3 /\ l - 1 = d + 2
  BY <1>1, <1>3, <1>5, <1>6
<1>10. Heads(H, marker, D)
  BY <1>1, <1>2, <1>3, <1>4, <1>7, <1>8, <1>9 DEF Heads, l, d
<1> QED BY <1>10 DEF H, D

(* From `from` on t is b, but for its byte c.                              *)
Differs(t, from, b, c) ==
  /\ c \in 1 .. Len(b) /\ t[from + c - 1] # b[c]
  /\ \A i \in 1 .. Len(b) : i # c => t[from + i - 1] = b[i]

(* A header with one byte changed is not taken for a header, or is taken   *)
(* for that of another number that is as long.                             *)
LEMMA HeaderHarmed ==
  ASSUME NEW t \in Seq(Byte), NEW from \in Nat \ {0}, NEW marker \in {"*", "$"},
         NEW n \in Nat, NEW c, Differs(t, from, Header(marker, n), c),
         from + Len(Header(marker, n)) <= Len(t),
         NEW later \in from .. Len(t) - 1, Breaks(t, later)
  PROVE  LET end  == LineEnd(t, from)
             line == SubSeq(t, from, end - 1)
         IN  /\ end # 0
             /\ \/ line = <<>> \/ line[1] # marker \/ ~IsLength(Tail(line))
                \/ /\ c \in 2 .. Len(Header(marker, n)) - 2
                   /\ end + 2 = from + Len(Header(marker, n))
                   /\ LengthOf(Tail(line)) \in Int
                   /\ LengthOf(Tail(line)) # n \/ n = 0
<1> DEFINE H == Header(marker, n)
           D == Decimal(n)
           l == Len(H)
           d == Len(D)
           end == LineEnd(t, from)
           line == SubSeq(t, from, end - 1)
           raw == Tail(line)
           B(i) == t[from + i - 1]
<1>0. Heads(H, marker, D)
  BY HeaderBytes
<1>1. /\ H \in Seq(Byte) /\ D \in Seq(Digit) /\ d \in Nat /\ d >= 1 /\ l = d + 3
      /\ H[1] = marker /\ H[d + 2] = "cr" /\ H[d + 3] = "lf"
      /\ \A i \in 1 .. d : H[i + 1] = D[i] /\ D[i] \in Digit
  <2> HIDE DEF H, D
  <2> QED BY <1>0 DEF Heads
<1>2. /\ c \in 1 .. l /\ from + l <= Len(t) /\ Len(t) \in Nat /\ B(c) # H[c]
      /\ \A i \in 1 .. l : i # c => B(i) = H[i]
  BY LenProperties DEF Differs
<1>3. /\ end # 0 /\ end \in from .. Len(t) - 1 /\ Breaks(t, end)
      /\ \A i \in from .. end - 1 : ~Breaks(t, i)
  BY <1>2, LineEndFound
<1> HIDE DEF H, D, l, d, end
<1>4. /\ line \in Seq(Byte) /\ Len(line) = end - from
      /\ \A i \in 1 .. end - from : line[i] = B(i)
      /\ line # <<>> => /\ raw \in Seq(Byte) /\ Len(raw) = end - from - 1
                        /\ \A i \in 1 .. end - from - 1 : raw[i] = B(i + 1)
  <2>1. \A i \in from .. end - 1 : t[i] \in Byte
    BY <1>2, <1>3, ElementOfSeq
  <2>2. /\ line \in Seq(Byte)
        /\ Len(line) = IF from <= end - 1 THEN end - 1 - from + 1 ELSE 0
        /\ \A i \in 1 .. end - 1 - from + 1 : line[i] = t[from + i - 1]
    BY <1>3, <2>1, SubSeqProperties
  <2>3. end - 1 - from + 1 = end - from /\ (IF from <= end - 1 THEN end - from ELSE 0) = end - from
    BY <1>3
  <2> HIDE DEF line
  <2>4. line # <<>> => /\ raw \in Seq(Byte) /\ Len(raw) = end - from - 1
                       /\ \A i \in 1 .. end - from - 1 : raw[i] = line[i + 1]
    BY <1>3, <2>2, <2>3, HeadTailProperties
  <2>5. \A i \in 1 .. end - from - 1 : i + 1 \in 1 .. end - from
    BY <1>3
  <2> QED BY <2>2, <2>3, <2>4, <2>5
<1> HIDE DEF line, raw
<1>5. \A i \in 1 .. l - 1 : Breaks(t, from + i - 1) <=> B(i) = "cr" /\ B(i + 1) = "lf"
  <2>1. \A i \in 1 .. l - 1 : (from + i - 1) + 1 = from + (i + 1) - 1
    BY <1>1
  <2> QED BY <2>1 DEF Breaks
<1> HIDE DEF B
<1>6. \A i \in 1 .. d + 1 : i # c => B(i) # "cr" /\ B(i) # "lf"
  <2> SUFFICES ASSUME NEW i \in 1 .. d + 1, i # c PROVE B(i) # "cr" /\ B(i) # "lf"
    OBVIOUS
  <2>1. B(i) = H[i]
    BY <1>1, <1>2
  <2>2. CASE i = 1
    BY <1>1, <2>1, <2>2
  <2>3. CASE i # 1
    <3>1. i - 1 \in 1 .. d /\ (i - 1) + 1 = i
      BY <1>1, <2>3
    <3>2. H[i] \in Digit
      BY <1>1, <3>1
    <3> QED BY <2>1, <3>2, DigitIs
  <2> QED BY <2>2, <2>3
<1>7. CASE c = 1
  <2>1. line = <<>> \/ line[1] = B(1)
    <3>1. line = <<>> \/ 1 \in 1 .. end - from
      BY <1>3, <1>4
    <3> QED BY <1>4, <3>1
  <2> QED BY <1>1, <1>2, <1>3, <1>7, <2>1 DEF end, line
<1>8. CASE c \in {d + 2, d + 3}
  <2>1. \A i \in 1 .. d + 2 : ~Breaks(t, from + i - 1)
    <3> SUFFICES ASSUME NEW i \in 1 .. d + 2 PROVE ~(B(i) = "cr" /\ B(i + 1) = "lf")
      <4>1. l - 1 = d + 2
        BY <1>1
      <4> QED BY <1>5, <4>1
    <3>1. CASE i \in 1 .. d + 1
      <4>1. i # c
        BY <1>1, <1>8, <3>1
      <4> QED BY <1>6, <3>1, <4>1
    <3>2. CASE i = d + 2
      <4>1. i + 1 = d + 3 /\ d + 2 # d + 3 /\ d + 2 \in 1 .. l /\ d + 3 \in 1 .. l
        BY <1>1, <3>2
      <4> QED BY <1>1, <1>2, <1>8, <3>2, <4>1
    <3>3. i \in 1 .. d + 1 \/ i = d + 2
      BY <1>1
    <3> QED BY <3>1, <3>2, <3>3
  <2>2. end - from \notin 0 .. d + 1
    <3> SUFFICES ASSUME end - from \in 0 .. d + 1 PROVE FALSE
      OBVIOUS
    <3>1. (end - from) + 1 \in 1 .. d + 2 /\ from + ((end - from) + 1) - 1 = end
      BY <1>1, <1>3
    <3> QED BY <1>3, <2>1, <3>1
  <2>3. end - from >= d + 2
    BY <1>1, <1>3, <2>2
  <2>4. line # <<>>
    BY <1>1, <1>4, <2>3
  <2>5. CASE c = d + 3
    <3>1. d + 1 \in 1 .. Len(raw) /\ raw[d + 1] = B(d + 2) /\ d + 1 # 1
      <4>1. d + 1 \in 1 .. end - from - 1 /\ (d + 1) + 1 = d + 2 /\ d + 1 # 1
        BY <1>1, <1>3, <2>3
      <4> QED BY <1>4, <2>4, <4>1
    <3>2. B(d + 2) = "cr" /\ "cr" \notin Digit
      BY <1>1, <1>2, <2>5, DigitIs
    <3>3. ~IsLength(raw)
      BY <1>4, <2>4, <3>1, <3>2, NotLength
    <3> QED BY <1>3, <3>3 DEF end, line, raw
  <2>6. CASE c = d + 2
    <3>1. B(d + 3) = "lf" /\ "lf" \notin Digit
      BY <1>1, <1>2, <2>6, DigitIs
    <3>2. end - from # d + 2
      <4> SUFFICES ASSUME end - from = d + 2 PROVE FALSE
        OBVIOUS
      <4>1. end = from + (d + 3) - 1
        BY <1>1, <1>3
      <4> QED BY <1>3, <3>1, <4>1 DEF Breaks, B
    <3>3. d + 2 \in 1 .. Len(raw) /\ raw[d + 2] = B(d + 3) /\ d + 2 # 1
      <4>1. d + 2 \in 1 .. end - from - 1 /\ (d + 2) + 1 = d + 3 /\ d + 2 # 1
        BY <1>1, <1>3, <2>3, <3>2
      <4> QED BY <1>4, <2>4, <4>1
    <3>4. ~IsLength(raw)
      BY <1>4, <2>4, <3>1, <3>3, NotLength
    <3> QED BY <1>3, <3>4 DEF end, line, raw
  <2> QED BY <1>8, <2>5, <2>6
<1>9. CASE c \in 2 .. d + 1
  <2>1. \A i \in 1 .. d + 1 : ~Breaks(t, from + i - 1)
    <3> SUFFICES ASSUME NEW i \in 1 .. d + 1 PROVE ~(B(i) = "cr" /\ B(i + 1) = "lf")
      <4>1. \A i \in 1 .. d + 1 : i \in 1 .. l - 1
        BY <1>1
      <4> QED BY <1>5, <4>1
    <3>1. CASE i # c
      BY <1>6, <3>1
    <3>2. CASE i = c /\ i + 1 \in 1 .. d + 1
      BY <1>1, <1>6, <3>2
    <3>3. CASE i = c /\ i + 1 = d + 2
      BY <1>1, <1>2, <3>3
    <3> QED BY <1>1, <3>1, <3>2, <3>3
  <2>2. end = from + d + 1
    <3>1. B(d + 2) = "cr" /\ B((d + 2) + 1) = "lf" /\ d + 2 \in 1 .. l - 1
      <4>1. /\ d + 2 \in 1 .. l /\ d + 3 \in 1 .. l /\ (d + 2) + 1 = d + 3
            /\ d + 2 # c /\ d + 3 # c /\ d + 2 \in 1 .. l - 1
        BY <1>1, <1>9
      <4> QED BY <1>1, <1>2, <4>1
    <3>2. Breaks(t, from + d + 1)
      <4>1. from + (d + 2) - 1 = from + d + 1
        BY <1>1
      <4> QED BY <1>5, <3>1, <4>1
    <3>3. \A i \in from .. (from + d + 1) - 1 : ~Breaks(t, i)
      <4> SUFFICES ASSUME NEW i \in from .. (from + d + 1) - 1 PROVE ~Breaks(t, i)
        OBVIOUS
      <4>1. (i - from) + 1 \in 1 .. d + 1 /\ from + ((i - from) + 1) - 1 = i
        BY <1>1
      <4> QED BY <2>1, <4>1
    <3>4. from + d + 1 \in from .. Len(t) - 1
      BY <1>1, <1>2
    <3> QED BY <1>2, <3>2, <3>3, <3>4, LineEndIs DEF end
  <2>3. line # <<>> /\ raw \in Seq(Byte) /\ Len(raw) = d /\ \A i \in 1 .. d : raw[i] = B(i + 1)
    <3>1. end - from = d + 1 /\ end - from - 1 = d
      BY <1>1, <2>2
    <3> QED BY <1>1, <1>4, <3>1
  <2>4. /\ c - 1 \in 1 .. d /\ raw[c - 1] # D[c - 1]
        /\ \A i \in 1 .. d : i # c - 1 => raw[i] = D[i]
    <3>1. c - 1 \in 1 .. d /\ (c - 1) + 1 = c
      BY <1>1, <1>9
    <3>2. raw[c - 1] # D[c - 1]
      BY <1>1, <1>2, <2>3, <3>1
    <3>3. \A i \in 1 .. d : i # c - 1 => i + 1 # c /\ i + 1 \in 1 .. l
      BY <1>1, <1>9
    <3>4. \A i \in 1 .. d : i # c - 1 => raw[i] = D[i]
      <4> SUFFICES ASSUME NEW i \in 1 .. d, i # c - 1 PROVE raw[i] = D[i]
        OBVIOUS
      <4>1. raw[i] = B(i + 1)
        BY <2>3
      <4>2. B(i + 1) = H[i + 1]
        BY <1>2, <3>3
      <4>3. H[i + 1] = D[i]
        BY <1>1
      <4> QED BY <4>1, <4>2, <4>3
    <3> QED BY <3>1, <3>2, <3>4
  <2>5. CASE raw[c - 1] \notin Digit /\ ~(c - 1 = 1 /\ raw[1] = "-")
    <3>1. ~IsLength(raw)
      BY <2>3, <2>4, <2>5, NotLength
    <3> QED BY <1>3, <3>1 DEF end, line, raw
  <2>6. CASE raw[1] = "-"
    <3>1. IsLength(raw) => LengthOf(raw) # n \/ n = 0
      <4> SUFFICES ASSUME IsLength(raw), n # 0 PROVE LengthOf(raw) # n
        OBVIOUS
      <4>1. Unsigned(raw) = Tail(raw) /\ Tail(raw) \in Seq(Byte)
        <5>1. raw # <<>>
          BY <1>1, <2>3
        <5> QED BY <2>3, <2>6, <5>1, HeadTailProperties DEF Unsigned
      <4>2. Tail(raw) \in Seq(Digit)
        <5> DEFINE u == Tail(raw)
        <5>1. u \in [1 .. Len(u) -> Byte] /\ Len(u) \in Nat
          BY <4>1, LenProperties
        <5>2. \A i \in 1 .. Len(u) : u[i] \in Digit
          BY <4>1, <5>1 DEF IsLength, ToSet
        <5> HIDE DEF u
        <5>3. u \in Seq(Digit)
          BY <5>1, <5>2
        <5> QED BY <5>3 DEF u
      <4>3. Number(Tail(raw)) \in Nat
        BY <4>2, NumberType
      <4>4. LengthOf(raw) = -Number(Tail(raw))
        BY <2>6, <4>1 DEF LengthOf
      <4> QED BY <4>3, <4>4
    <3>2. end + 2 = from + l /\ c \in 2 .. l - 2
      BY <1>1, <1>9, <2>2
    <3>3. IsLength(raw) => LengthOf(raw) \in Int
      BY <2>3, LengthType
    <3> QED BY <1>3, <3>1, <3>2, <3>3 DEF end, line, raw, l, H
  <2>7. CASE raw[c - 1] \in Digit
    <3>1. \A i \in 1 .. d : raw[i] \in Digit
      BY <1>1, <2>4, <2>7
    <3>2. raw \in Seq(Digit)
      <4>1. raw \in [1 .. d -> Byte]
        BY <2>3, LenProperties
      <4>2. raw \in [1 .. d -> Digit]
        BY <3>1, <4>1
      <4> QED BY <1>1, <4>2
    <3>3. Number(raw) # Number(D)
      BY <2>3, <2>4, <3>2, <1>1, NumberDiffers DEF d
    <3>4. Number(D) = n
      BY DecimalFacts DEF D
    <3>5. raw[1] # "-"
      BY <1>1, <3>1, DigitIs
    <3>6. LengthOf(raw) = Number(raw) /\ LengthOf(raw) \in Int
      <4>1. Number(raw) \in Nat
        BY <3>2, NumberType
      <4> QED BY <3>5, <4>1 DEF LengthOf, Unsigned
    <3>7. end + 2 = from + l /\ c \in 2 .. l - 2
      BY <1>1, <1>9, <2>2
    <3> QED BY <1>3, <3>3, <3>4, <3>6, <3>7 DEF end, line, raw, l, H
  <2> QED BY <2>5, <2>6, <2>7
<1>10. c = 1 \/ c \in 2 .. d + 1 \/ c \in {d + 2, d + 3}
  BY <1>1, <1>2
<1> QED BY <1>7, <1>8, <1>9, <1>10

-----------------------------------------------------------------------------
(* Where the scan of a log with a damaged record is.                       *)

(* Record n + 1, and how long its part i + 1 is, and the line before it.   *)
Record(n) == written[n + 1]
PartLen(n, i) == Len(Record(n)[i + 1])
LineLen(n, i) == Len(Header("$", PartLen(n, i)))

(* Where that part begins.                                                 *)
Mark(n, i) == Ends(n) + Offset(ArrayFrame(Record(n)), i)

(* The byte after the first harm is in the line or the line end of it.     *)
HarmedPart(n, i) ==
  harm - Mark(n, i) \in {0, LineLen(n, i) - 2, LineLen(n, i) - 1,
                         LineLen(n, i) + PartLen(n, i), LineLen(n, i) + PartLen(n, i) + 1}

(* That byte is framing of record n + 1, which is not the last.            *)
HarmedIn(n) ==
  \/ Ends(n) <= harm /\ harm < Mark(n, 0)
  \/ \E i \in 0 .. Len(Record(n)) - 1 : HarmedPart(n, i)

Harmed(n) == n + 1 < Len(written) /\ HarmedIn(n)

(* Every byte but that is as it was written, and at most the last missing. *)
OneByteHarmed ==
  LET E == Encoded(written)
  IN  /\ data \in Seq(Byte) /\ harm < Len(data)
      /\ Len(data) <= Len(E) /\ Len(E) <= Len(data) + 1
      /\ data[harm + 1] # E[harm + 1]
      /\ \A i \in 1 .. Len(data) : i # harm + 1 => data[i] = E[i]

(* The scan is between the first n records and the next.                   *)
Between(n) == left = 0 /\ offset = Ends(n) + 1

(* It is before part i + 1 of record n + 1, which begins before the damage *)
(* or with it.                                                             *)
Reading(n, i) ==
  /\ i < Len(Record(n)) /\ Mark(n, i) <= harm
  /\ left = Len(Record(n)) - i /\ cursor = Mark(n, i) + 1

(* It took another count for that of record n + 1, and has read i parts.   *)
Miscounted(n, i) ==
  /\ harm < Mark(n, 0) /\ i <= Len(Record(n))
  /\ left \in Nat \ {0} /\ left # Len(Record(n)) - i /\ cursor = Mark(n, i) + 1

(* It has found as many as it took it for, and takes the next for a record.*)
Misled(n, i) ==
  /\ harm < Mark(n, 0) /\ i \in 1 .. Len(Record(n)) - 1
  /\ left = 0 /\ offset = Mark(n, i) + 1

Astray(m) ==
  \/ \E n \in 0 .. m : Between(n) \/ \E i \in Nat : Reading(n, i)
  \/ \E i \in Nat : Miscounted(m, i) \/ Misled(m, i)

RefuseInv ==
  /\ written \in Logs /\ harm \in Nat
  /\ Damaged => OneByteHarmed
  /\ \A m \in Nat : Damaged /\ Harmed(m) =>
       phase = "corrupt" \/ (phase = "scan" /\ Astray(m))

(* What is written from the end of n records on.                           *)
Laid(n) ==
  LET r == Record(n) IN
  /\ r \in Seq(Seq(Byte)) /\ Len(r) \in Nat \ {0}
  /\ Ends(n) \in Nat /\ Ends(n + 1) \in Nat
  /\ Mark(n, 0) = Ends(n) + Len(Header("*", Len(r))) /\ Mark(n, Len(r)) = Ends(n + 1)
  /\ Shows(Encoded(written), Ends(n) + 1, Header("*", Len(r)))
  /\ \A i \in 0 .. Len(r) : /\ Mark(n, i) \in Nat
                            /\ Mark(n, 0) <= Mark(n, i) /\ Mark(n, i) <= Ends(n + 1)
  /\ \A i \in 0 .. Len(r) : \A j \in i .. Len(r) : Mark(n, i) <= Mark(n, j)
  /\ \A i \in 0 .. Len(r) : i < Len(r) =>
       /\ r[i + 1] \in Seq(Byte) /\ PartLen(n, i) = Len(r[i + 1]) /\ PartLen(n, i) \in Nat
       /\ LineLen(n, i) \in Nat /\ LineLen(n, i) >= 4
       /\ Mark(n, i + 1) = Mark(n, i) + LineLen(n, i) + PartLen(n, i) + 2
       /\ Shows(Encoded(written), Mark(n, i) + 1, Header("$", PartLen(n, i)))
       /\ Shows(Encoded(written), Mark(n, i) + 1 + LineLen(n, i), r[i + 1] \o CRLF)

LEMMA RecordLaid ==
  ASSUME written \in Logs, NEW n \in Nat, n < Len(written)
  PROVE  Laid(n)
<1> DEFINE r == Record(n)
           f == ArrayFrame(r)
           E == Encoded(written)
           q == Pieces(f)
<1>1. /\ Ends(n) \in Nat /\ Ends(n + 1) \in Nat /\ E \in Seq(Byte)
      /\ Ends(n + 1) = Ends(n) + Len(EncodeArray(r))
      /\ Shows(E, Ends(n) + 1, EncodeArray(r))
      /\ r \in Seq(Seq(Byte)) /\ r # <<>>
  <2>1. n \in 0 .. Len(written) /\ n + 1 \in 1 .. Len(written) /\ n + 1 \in 0 .. Len(written)
    BY WrittenFacts
  <2>2. r \in Seq(Seq(Byte)) /\ r # <<>>
    BY <2>1, WrittenFacts DEF Record
  <2> QED BY <2>1, <2>2, EndsFacts DEF Record
<1>2. Len(r) \in Nat /\ Len(r) # 0
  BY <1>1, EmptySeq, LenProperties
<1>3. Ends(n) + 1 \in Nat \ {0}
  BY <1>1
<1>4. /\ Shows(E, Ends(n) + 1, Header("*", Len(r)))
      /\ Offset(f, 0) = Len(Header("*", Len(r)))
      /\ Len(EncodeArray(r)) = Offset(f, Len(r))
      /\ \A i \in 0 .. Len(r) : Offset(f, i) \in Nat /\ Offset(f, i) <= Offset(f, Len(r))
      /\ \A i \in 1 .. Len(r) :
           /\ r[i] \in Seq(Byte) /\ Len(r[i]) \in Nat
           /\ Shows(E, Ends(n) + 1 + Offset(f, i - 1), Header("$", Len(r[i])))
           /\ Shows(E, Ends(n) + 1 + Offset(f, i - 1) + Len(Header("$", Len(r[i]))), r[i] \o CRLF)
           /\ Offset(f, i) = Offset(f, i - 1) + Len(Header("$", Len(r[i]))) + Len(r[i]) + 2
  BY <1>1, <1>3, RecordShown
<1>5. \A i \in 0 .. Len(r) : \A j \in i .. Len(r) : Offset(f, i) <= Offset(f, j)
  <2>1. f \in ClientFrame /\ Len(f.bulks) = Len(r) /\ q \in Seq(Seq(Byte)) /\ Len(q) = Len(r)
    BY <1>1, ArrayIsFrame, PieceFacts
  <2>2. Len(f.head) \in Nat
    BY <2>1, OffsetFacts
  <2> SUFFICES ASSUME NEW i \in 0 .. Len(r), NEW j \in i .. Len(r)
               PROVE  Offset(f, i) <= Offset(f, j)
    OBVIOUS
  <2> DEFINE a == Len(f.head)
             b == Len(Joined(q, i))
             c == Len(Joined(q, j))
  <2>3. b <= c
    BY <2>1, JoinedGrows
  <2>4. b \in Nat /\ c \in Nat
    <3>1. i \in 0 .. Len(q) /\ j \in 0 .. Len(q)
      BY <1>2, <2>1
    <3> QED BY <2>1, <3>1, JoinedLengths
  <2>5. Offset(f, i) = a + b /\ Offset(f, j) = a + c
    BY DEF Offset
  <2>6. a \in Nat
    BY <2>2
  <2> HIDE DEF a, b, c, f
  <2> QED BY <2>3, <2>4, <2>5, <2>6
<1> HIDE DEF f, E
<1>6. \A i : Mark(n, i) = Ends(n) + Offset(f, i)
  BY DEF Mark, f, r
<1> DEFINE s == Ends(n)
<1>7. s \in Nat /\ \A i \in 0 .. Len(r) : Offset(f, i) \in Nat
  BY <1>1, <1>4
<1>8. 0 \in 0 .. Len(r) /\ Len(r) \in 0 .. Len(r)
  BY <1>2
<1>9. Mark(n, 0) = s + Len(Header("*", Len(r))) /\ Mark(n, Len(r)) = Ends(n + 1)
  BY <1>1, <1>4, <1>6
<1>10. \A i \in 0 .. Len(r) : Mark(n, i) \in Nat
  <2> HIDE DEF s, r
  <2> QED BY <1>6, <1>7 DEF s
<1>11. \A i \in 0 .. Len(r) : \A j \in i .. Len(r) : Mark(n, i) <= Mark(n, j)
  <2> SUFFICES ASSUME NEW i \in 0 .. Len(r), NEW j \in i .. Len(r)
               PROVE  Mark(n, i) <= Mark(n, j)
    OBVIOUS
  <2> DEFINE x == Offset(f, i)
             y == Offset(f, j)
  <2>1. x \in Nat /\ y \in Nat /\ x <= y /\ Mark(n, i) = s + x /\ Mark(n, j) = s + y
    BY <1>2, <1>4, <1>5, <1>6
  <2> HIDE DEF x, y, s
  <2> QED BY <1>7, <2>1
<1>12. \A i \in 0 .. Len(r) : Mark(n, 0) <= Mark(n, i) /\ Mark(n, i) <= Ends(n + 1)
  <2>1. \A i \in 0 .. Len(r) : i \in 0 .. Len(r) /\ Len(r) \in i .. Len(r)
    BY <1>2
  <2> QED BY <1>8, <1>9, <1>11, <2>1
<1>13. ASSUME NEW i \in 0 .. Len(r), i < Len(r)
       PROVE  /\ r[i + 1] \in Seq(Byte) /\ PartLen(n, i) = Len(r[i + 1]) /\ PartLen(n, i) \in Nat
              /\ LineLen(n, i) \in Nat /\ LineLen(n, i) >= 4
              /\ Mark(n, i + 1) = Mark(n, i) + LineLen(n, i) + PartLen(n, i) + 2
              /\ Shows(E, Mark(n, i) + 1, Header("$", PartLen(n, i)))
              /\ Shows(E, Mark(n, i) + 1 + LineLen(n, i), r[i + 1] \o CRLF)
  <2>1. i + 1 \in 1 .. Len(r) /\ (i + 1) - 1 = i
    BY <1>2, <1>13
  <2>2. PartLen(n, i) = Len(r[i + 1]) /\ LineLen(n, i) = Len(Header("$", Len(r[i + 1])))
    BY DEF PartLen, LineLen
  <2>3. /\ r[i + 1] \in Seq(Byte) /\ PartLen(n, i) \in Nat
        /\ Shows(E, s + 1 + Offset(f, i), Header("$", PartLen(n, i)))
        /\ Shows(E, s + 1 + Offset(f, i) + LineLen(n, i), r[i + 1] \o CRLF)
        /\ Offset(f, i + 1) = Offset(f, i) + LineLen(n, i) + PartLen(n, i) + 2
    BY <1>4, <2>1, <2>2
  <2>4. LineLen(n, i) \in Nat /\ LineLen(n, i) >= 4
    <3>1. "$" \in {"*", "$"}
      OBVIOUS
    <3> QED BY <2>3, <3>1, HeaderFacts DEF LineLen
  <2> DEFINE x == Offset(f, i)
             y == Offset(f, i + 1)
             h == LineLen(n, i)
             k == PartLen(n, i)
  <2>5. /\ x \in Nat /\ h \in Nat /\ k \in Nat /\ y = x + h + k + 2
        /\ Mark(n, i) = s + x /\ Mark(n, i + 1) = s + y
    BY <1>6, <1>7, <2>3, <2>4
  <2> HIDE DEF s, x, y, h, k
  <2>6. Mark(n, i + 1) = Mark(n, i) + h + k + 2 /\ Mark(n, i) + 1 = s + 1 + x
        /\ Mark(n, i) + 1 + h = s + 1 + x + h
    BY <1>7, <2>5
  <2> QED BY <2>2, <2>3, <2>4, <2>6 DEF h, k, x
<1> HIDE DEF r
<1>14. Len(r) \in Nat \ {0}
  BY <1>2
<1> QED BY <1>1, <1>4, <1>9, <1>10, <1>11, <1>12, <1>13, <1>14 DEF Laid, r, E

(* What does not include the damaged byte still shows.                     *)
LEMMA CleanShows ==
  ASSUME OneByteHarmed, harm \in Nat, written \in Logs,
         NEW b \in Seq(Byte), NEW from \in Nat \ {0}, Shows(Encoded(written), from, b),
         harm + 1 < from \/ from + Len(b) <= harm + 1
  PROVE  Shows(data, from, b)
<1> DEFINE E == Encoded(written)
           k == Len(b)
           d == Len(data)
<1>1. /\ d <= Len(E) /\ \A i \in 1 .. d : i # harm + 1 => data[i] = E[i]
      /\ d \in Nat /\ Len(E) \in Nat /\ k \in Nat
  BY EndsFacts, LenProperties DEF OneByteHarmed
<1>2. ASSUME NEW i \in 1 .. k, from + i - 1 <= d
      PROVE  data[from + i - 1] = b[i]
  <2> DEFINE j == from + i - 1
  <2>1. j \in 1 .. d /\ j # harm + 1 /\ j <= Len(E)
    <3> HIDE DEF k, d, E
    <3> QED BY <1>1, <1>2 DEF k
  <2>2. E[j] = b[i]
    BY <2>1 DEF Shows
  <2> QED BY <1>1, <2>1, <2>2
<1> QED BY <1>2 DEF Shows

(* What includes it differs in that byte.                                  *)
LEMMA HarmDiffers ==
  ASSUME OneByteHarmed, harm \in Nat, written \in Logs,
         NEW b \in Seq(Byte), NEW from \in Nat \ {0}, Shows(Encoded(written), from, b),
         NEW c \in 1 .. Len(b), from + c - 1 = harm + 1, from + Len(b) - 1 <= Len(data)
  PROVE  Differs(data, from, b, c)
<1> DEFINE E == Encoded(written)
           k == Len(b)
           d == Len(data)
<1>1. /\ d <= Len(E) /\ \A i \in 1 .. d : i # harm + 1 => data[i] = E[i]
      /\ data[harm + 1] # E[harm + 1]
      /\ d \in Nat /\ Len(E) \in Nat /\ k \in Nat
  BY EndsFacts, LenProperties DEF OneByteHarmed
<1>2. ASSUME NEW i \in 1 .. k
      PROVE  /\ E[from + i - 1] = b[i]
             /\ from + i - 1 \in 1 .. d /\ (i # c => from + i - 1 # harm + 1)
  <2>1. from + i - 1 \in 1 .. d /\ from + i - 1 <= Len(E) /\ (i # c => from + i - 1 # harm + 1)
    <3>1. from + k - 1 <= d /\ from + c - 1 = harm + 1 /\ c \in 1 .. k
      OBVIOUS
    <3> HIDE DEF d, E, k
    <3> QED BY <1>1, <1>2, <3>1
  <2> QED BY <2>1 DEF Shows
<1>3. \A i \in 1 .. k : i # c => data[from + i - 1] = b[i]
  BY <1>1, <1>2
<1>4. data[from + c - 1] # b[c]
  BY <1>1, <1>2
<1> QED BY <1>3, <1>4 DEF Differs

LEMMA HarmedBetween ==
  ASSUME written \in Logs, harm \in Nat, NEW m \in Nat, m < Len(written), HarmedIn(m)
  PROVE  Ends(m) <= harm /\ harm < Ends(m + 1)
<1>2. Laid(m)
  BY RecordLaid
<1>3. CASE Ends(m) <= harm /\ harm < Mark(m, 0)
  <2>1. Mark(m, 0) \in Nat /\ Mark(m, 0) <= Ends(m + 1) /\ Ends(m + 1) \in Nat
    <3>1. Len(Record(m)) \in Nat
      BY <1>2 DEF Laid
    <3>2. 0 \in 0 .. Len(Record(m))
      BY <3>1
    <3> QED BY <1>2, <3>2 DEF Laid
  <2> QED BY <1>3, <2>1
<1>4. ASSUME NEW i \in 0 .. Len(Record(m)) - 1, HarmedPart(m, i)
      PROVE  Ends(m) <= harm /\ harm < Ends(m + 1)
  <2>0. Len(Record(m)) \in Nat
    BY <1>2 DEF Laid
  <2>1. i \in 0 .. Len(Record(m)) /\ i + 1 \in 0 .. Len(Record(m)) /\ i < Len(Record(m))
    BY <2>0
  <2> DEFINE s == Ends(m)
             z == Ends(m + 1)
             o == Mark(m, i)
             p == Mark(m, i + 1)
             h == LineLen(m, i)
             k == PartLen(m, i)
             c == Mark(m, 0)
             g == Len(Header("*", Len(Record(m))))
  <2>2. /\ s \in Nat /\ z \in Nat /\ o \in Nat /\ p \in Nat /\ h \in Nat /\ k \in Nat /\ h >= 4
        /\ p = o + h + k + 2 /\ p <= z /\ c = s + g /\ c <= o
    BY <1>2, <2>1 DEF Laid
  <2>3. g \in Nat
    <3>1. "*" \in {"*", "$"}
      OBVIOUS
    <3> QED BY <2>0, <3>1, HeaderFacts
  <2>4. harm - o \in {0, h - 2, h - 1, h + k, h + k + 1}
    BY <1>4 DEF HarmedPart
  <2> HIDE DEF s, z, o, p, h, k, c, g
  <2>5. s <= harm /\ harm < z
    BY <2>2, <2>3, <2>4
  <2> QED BY <2>5 DEF s, z
<1> QED BY <1>3, <1>4 DEF HarmedIn

LEMMA HarmedWhere ==
  ASSUME written \in Logs, harm \in Nat, NEW m \in Nat, Harmed(m)
  PROVE  m < Len(written) /\ m + 1 < Len(written) /\ Ends(m) <= harm /\ harm < Ends(m + 1)
<1>1. m < Len(written) /\ m + 1 < Len(written) /\ HarmedIn(m)
  BY WrittenFacts DEF Harmed
<1> QED BY <1>1, HarmedBetween

(* The record after a damaged one begins as it was written, and its header *)
(* is there.                                                               *)
LEMMA NextHeader ==
  ASSUME written \in Logs, harm \in Nat, OneByteHarmed,
         NEW n \in Nat, n < Len(written), n + 1 < Len(written), harm < Ends(n + 1)
  PROVE  /\ Laid(n + 1) /\ Mark(n + 1, 0) <= Len(data)
         /\ Ends(n + 1) + 4 <= Mark(n + 1, 0)
         /\ Shows(data, Ends(n + 1) + 1, Header("*", Len(Record(n + 1))))
         /\ Breaks(data, Mark(n + 1, 0) - 1)
<1> DEFINE r == Record(n + 1)
           H == Header("*", Len(r))
           s == Ends(n + 1)
           g == Len(H)
           d == Len(data)
           e == Len(Encoded(written))
<1>1. Laid(n + 1) /\ n + 1 \in Nat
  BY RecordLaid
<1>2. /\ Len(r) \in Nat \ {0} /\ s \in Nat /\ Mark(n + 1, 0) = s + g
      /\ Shows(Encoded(written), s + 1, H)
  BY <1>1 DEF Laid
<1>3. "*" \in {"*", "$"} /\ H \in Seq(Byte) /\ g \in Nat /\ g >= 4
  BY <1>2, HeaderFacts
<1>4. d \in Nat /\ d <= e /\ e <= d + 1 /\ e \in Nat
  BY LenProperties, EndsFacts DEF OneByteHarmed
<1>5. s + g <= d
  <2>1. 0 \in 0 .. Len(r) /\ 0 < Len(r) /\ 0 + 1 = 1 /\ 1 \in 0 .. Len(r)
    BY <1>2
  <2>2. Ends(n + 2) <= e /\ Ends(n + 2) \in Nat
    <3>1. n + 2 \in 0 .. Len(written) /\ Len(written) \in n + 2 .. Len(written)
      BY WrittenFacts
    <3> QED BY <3>1, EndsFacts
  <2> DEFINE o == Mark(n + 1, 0)
             p == Mark(n + 1, 1)
             h == LineLen(n + 1, 0)
             k == PartLen(n + 1, 0)
  <2>3. /\ p = o + h + k + 2 /\ h \in Nat /\ k \in Nat /\ h >= 4 /\ o \in Nat /\ p \in Nat
        /\ p <= Ends((n + 1) + 1)
    BY <1>1, <2>1 DEF Laid
  <2>4. (n + 1) + 1 = n + 2
    OBVIOUS
  <2>5. p <= Ends(n + 2)
    BY <2>3, <2>4
  <2> DEFINE z == Ends(n + 2)
  <2> HIDE DEF o, p, h, k, s, g, d, e, z
  <2>6. o = s + g
    BY <1>2 DEF o
  <2>7. p <= z /\ z <= e /\ z \in Nat
    BY <2>2, <2>5 DEF z
  <2> QED BY <1>2, <1>3, <1>4, <2>3, <2>6, <2>7
<1>6. Shows(data, s + 1, H)
  <2>1. s + 1 \in Nat \ {0} /\ harm + 1 < s + 1
    BY <1>2
  <2> QED BY <1>2, <1>3, <2>1, CleanShows
<1>7. Breaks(data, s + g - 1)
  <2> DEFINE D == Decimal(Len(r))
             l == Len(D)
  <2>1. Heads(H, "*", D)
    BY <1>2, <1>3, HeaderBytes
  <2> HIDE DEF H, D
  <2>2. l \in Nat /\ g = l + 3 /\ H[l + 2] = "cr" /\ H[l + 3] = "lf"
    BY <2>1 DEF Heads
  <2> HIDE DEF l
  <2>3. l + 2 \in 1 .. g /\ l + 3 \in 1 .. g
        /\ (s + 1) + (l + 2) - 1 = s + g - 1 /\ (s + 1) + (l + 3) - 1 = (s + g - 1) + 1
        /\ s + g - 1 <= d /\ (s + g - 1) + 1 <= d
    <3> HIDE DEF s, g, d
    <3> QED BY <1>2, <1>3, <1>4, <1>5, <2>2
  <2>4. \A i \in 1 .. g : (s + 1) + i - 1 <= d => data[(s + 1) + i - 1] = H[i]
    BY <1>6 DEF Shows
  <2>5. data[s + g - 1] = "cr" /\ data[(s + g - 1) + 1] = "lf"
    <3> HIDE DEF s, g, d
    <3> QED BY <2>2, <2>3, <2>4
  <2> QED BY <2>5 DEF Breaks
<1>8. Ends(n + 1) + 4 <= Mark(n + 1, 0)
  <2> HIDE DEF g
  <2> QED BY <1>2, <1>3
<1> QED BY <1>1, <1>2, <1>5, <1>6, <1>7, <1>8

-----------------------------------------------------------------------------
(* The steps of the scan of a damaged log.                                 *)

LEMMA CleanHeader ==
  ASSUME written \in Logs, harm \in Nat, OneByteHarmed, ReadHeader,
         NEW n \in Nat, n < Len(written), offset = Ends(n) + 1,
         harm < Ends(n) \/ Mark(n, 0) <= harm, Mark(n, 0) <= Len(data)
  PROVE  left' = Len(Record(n)) /\ cursor' = Mark(n, 0) + 1 /\ phase' = phase
<1> DEFINE r == Record(n)
           H == Header("*", Len(r))
           s == Ends(n)
           g == Len(H)
           end == LineEnd(data, offset)
           line == SubSeq(data, offset, end - 1)
<1>1. /\ Len(r) \in Nat \ {0} /\ s \in Nat /\ Mark(n, 0) = s + g
      /\ Shows(Encoded(written), s + 1, H)
  BY RecordLaid DEF Laid
<1>2. "*" \in {"*", "$"} /\ H \in Seq(Byte) /\ g \in Nat
  BY <1>1, HeaderFacts
<1>3. Shows(data, s + 1, H)
  <2>1. s + 1 \in Nat \ {0} /\ (harm + 1 < s + 1 \/ s + 1 + g <= harm + 1)
    <3>1. harm < s \/ s + g <= harm
      BY <1>1
    <3> HIDE DEF s, g
    <3> QED BY <1>1, <1>2, <3>1
  <2> QED BY <1>1, <1>2, <2>1, CleanShows
<1>4. /\ (end = 0) <=> offset + g - 1 > Len(data)
      /\ end # 0 => /\ end + 2 = offset + g /\ line # <<>> /\ line[1] = "*"
                    /\ IsLength(Tail(line)) /\ LengthOf(Tail(line)) = Len(r)
  <2>1. offset \in Nat \ {0} /\ data \in Seq(Byte)
    BY <1>1 DEF OneByteHarmed
  <2> QED BY <1>1, <1>2, <1>3, <2>1, HeaderScanned
<1>5. end # 0 /\ end + 2 = Mark(n, 0) + 1
  <2>1. s + g <= Len(data) /\ Len(data) \in Nat /\ offset = s + 1
    BY <1>1, LenProperties DEF OneByteHarmed
  <2> HIDE DEF s, g, end, line
  <2>2. end # 0
    BY <1>1, <1>2, <1>4, <2>1
  <2> QED BY <1>1, <1>2, <1>4, <2>1, <2>2
<1>6. ~(LengthOf(Tail(line)) <= 0)
  BY <1>1, <1>4, <1>5
<1> QED BY <1>4, <1>5, <1>6 DEF ReadHeader

(* A damaged header is refused, or it gives another count.                 *)
LEMMA HarmedHeader ==
  ASSUME written \in Logs, harm \in Nat, OneByteHarmed, ReadHeader,
         NEW m \in Nat, Harmed(m), offset = Ends(m) + 1, harm < Mark(m, 0)
  PROVE  \/ phase' = "corrupt"
         \/ /\ left' \in Nat \ {0} /\ left' # Len(Record(m)) /\ cursor' = Mark(m, 0) + 1
            /\ phase' = phase
<1> DEFINE r == Record(m)
           H == Header("*", Len(r))
           s == Ends(m)
           g == Len(H)
           c == harm - s + 1
           d == Len(data)
           z == Mark(m + 1, 0)
           end == LineEnd(data, offset)
           line == SubSeq(data, offset, end - 1)
<1>0. m < Len(written) /\ m + 1 < Len(written) /\ Ends(m) <= harm /\ harm < Ends(m + 1)
  BY HarmedWhere
<1>1. Laid(m)
  BY <1>0, RecordLaid
<1>2. /\ Len(r) \in Nat \ {0} /\ s \in Nat /\ Mark(m, 0) = s + g
      /\ Shows(Encoded(written), s + 1, H)
      /\ Mark(m, 0) <= Ends(m + 1) /\ Ends(m + 1) \in Nat
  <2>1. Len(r) \in Nat
    BY <1>1 DEF Laid
  <2>2. 0 \in 0 .. Len(r)
    BY <2>1
  <2> QED BY <1>1, <2>2 DEF Laid
<1>3. "*" \in {"*", "$"} /\ H \in Seq(Byte) /\ g \in Nat
  BY <1>2, HeaderFacts
<1>4. z <= d /\ Ends(m + 1) + 4 <= z /\ Breaks(data, z - 1)
  BY <1>0, NextHeader
<1>5. data \in Seq(Byte) /\ d \in Nat /\ z \in Int
  <2>1. Laid(m + 1) /\ m + 1 \in Nat
    BY <1>0, NextHeader
  <2>2. Len(Record(m + 1)) \in Nat
    BY <2>1 DEF Laid
  <2>3. 0 \in 0 .. Len(Record(m + 1))
    BY <2>2
  <2> QED BY <2>1, <2>3, LenProperties DEF OneByteHarmed, Laid
<1>6. /\ c \in 1 .. g /\ (s + 1) + c - 1 = harm + 1 /\ s + 1 \in Nat \ {0}
      /\ (s + 1) + g - 1 <= d /\ (s + 1) + g <= d /\ z - 1 \in s + 1 .. d - 1
  <2> DEFINE e == Ends(m + 1)
             k == Mark(m, 0)
  <2>1. k = s + g /\ k <= e /\ e \in Nat /\ e + 4 <= z /\ s <= harm /\ harm < k
    BY <1>0, <1>2, <1>4
  <2> HIDE DEF s, g, d, z, e, k
  <2> QED BY <1>2, <1>3, <1>4, <1>5, <2>1
<1>7. Differs(data, s + 1, H, c)
  BY <1>2, <1>3, <1>6, HarmDiffers
<1>8. /\ end # 0
      /\ \/ line = <<>> \/ line[1] # "*" \/ ~IsLength(Tail(line))
         \/ /\ end + 2 = offset + g /\ LengthOf(Tail(line)) \in Int
            /\ LengthOf(Tail(line)) # Len(r)
  <2>1. offset \in Nat \ {0} /\ Differs(data, offset, H, c) /\ offset + g <= d
        /\ z - 1 \in offset .. d - 1
    <3>1. offset = s + 1
      OBVIOUS
    <3> HIDE DEF c, z, d, H
    <3> QED BY <1>6, <1>7, <3>1
  <2>2. Len(r) \in Nat /\ Len(r) # 0
    BY <1>2
  <2> HIDE DEF c, z, r
  <2> QED BY <1>3, <1>4, <1>5, <2>1, <2>2, HeaderHarmed, ZenonT(40)
<1>9. CASE line = <<>> \/ line[1] # "*" \/ ~IsLength(Tail(line))
  BY <1>8, <1>9 DEF ReadHeader, Corrupt
<1>10. CASE ~(line = <<>> \/ line[1] # "*" \/ ~IsLength(Tail(line)))
  <2>1. end + 2 = Mark(m, 0) + 1
    <3>1. end + 2 = offset + g /\ offset = s + 1 /\ Mark(m, 0) = s + g
      BY <1>2, <1>8, <1>10
    <3> HIDE DEF s, g, end
    <3> QED BY <1>2, <1>3, <3>1
  <2>2. CASE LengthOf(Tail(line)) <= 0
    BY <1>8, <1>10, <2>2 DEF ReadHeader, Corrupt
  <2>3. CASE ~(LengthOf(Tail(line)) <= 0)
    <3>1. LengthOf(Tail(line)) \in Nat \ {0}
      <4> DEFINE v == LengthOf(Tail(line))
      <4>1. v \in Int /\ ~(v <= 0)
        BY <1>8, <1>10, <2>3
      <4> HIDE DEF v
      <4>2. v \in Nat \ {0}
        BY <4>1
      <4> QED BY <4>2 DEF v
    <3>2. left' = LengthOf(Tail(line)) /\ cursor' = end + 2 /\ phase' = phase
      BY <1>8, <1>10, <2>3 DEF ReadHeader
    <3> QED BY <1>8, <1>10, <2>1, <3>1, <3>2
  <2> QED BY <2>2, <2>3
<1> QED BY <1>9, <1>10

(* A part is not taken for a record.                                       *)
LEMMA PartIsNoRecord ==
  ASSUME written \in Logs, harm \in Nat, OneByteHarmed, ReadHeader,
         NEW m \in Nat, m < Len(written), NEW i \in 0 .. Len(Record(m)), i < Len(Record(m)),
         offset = Mark(m, i) + 1, harm < Mark(m, i), Ends(m + 1) <= Len(data)
  PROVE  phase' = "corrupt"
<1> DEFINE H == Header("$", PartLen(m, i))
           o == Mark(m, i)
           p == Mark(m, i + 1)
           h == LineLen(m, i)
           k == PartLen(m, i)
           d == Len(data)
           end == LineEnd(data, offset)
           line == SubSeq(data, offset, end - 1)
<1>1. Laid(m)
  BY RecordLaid
<1>2. /\ o \in Nat /\ p = o + h + k + 2 /\ h \in Nat /\ k \in Nat /\ p <= Ends(m + 1)
      /\ Shows(Encoded(written), o + 1, H) /\ Ends(m + 1) \in Nat /\ p \in Nat
  <2>1. Len(Record(m)) \in Nat
    BY <1>1 DEF Laid
  <2>2. i + 1 \in 0 .. Len(Record(m))
    BY <2>1
  <2> QED BY <1>1, <2>2 DEF Laid
<1>3. "$" \in {"*", "$"} /\ H \in Seq(Byte) /\ Len(H) = h
  BY <1>2, HeaderFacts DEF LineLen
<1>4. o + 1 \in Nat \ {0} /\ harm + 1 < o + 1 /\ offset = o + 1
  <2>1. harm < o /\ offset = o + 1
    OBVIOUS
  <2> HIDE DEF o
  <2> QED BY <1>2, <2>1, SMTT(20)
<1>5. Shows(data, o + 1, H)
  BY <1>2, <1>3, <1>4, CleanShows
<1>6. /\ (end = 0) <=> offset + h - 1 > d
      /\ end # 0 => line # <<>> /\ line[1] = "$"
  <2>1. data \in Seq(Byte) /\ offset \in Nat \ {0} /\ Shows(data, offset, H)
    BY <1>4, <1>5 DEF OneByteHarmed
  <2> QED BY <1>2, <1>3, <2>1, HeaderScanned, ZenonT(30)
<1>7. ~(offset + h - 1 > d)
  <2> DEFINE e == Ends(m + 1)
  <2>1. e <= d /\ d \in Nat /\ e \in Nat /\ p <= e
    BY <1>2, LenProperties DEF OneByteHarmed
  <2>2. p <= d
    <3> HIDE DEF p, d, e
    <3> QED BY <1>2, <2>1
  <2> HIDE DEF o, p, h, k, d, e
  <2> QED BY <1>2, <1>4, <2>1, <2>2
<1>8. end # 0 /\ line[1] # "*"
  BY <1>6, <1>7
<1> QED BY <1>8 DEF ReadHeader, Corrupt

LEMMA CleanPart ==
  ASSUME written \in Logs, harm \in Nat, OneByteHarmed, ReadPart,
         NEW n \in Nat, n < Len(written), NEW i \in 0 .. Len(Record(n)), i < Len(Record(n)),
         cursor = Mark(n, i) + 1, harm < Mark(n, i) \/ Mark(n, i + 1) <= harm,
         Mark(n, i + 1) <= Len(data)
  PROVE  /\ left' = left - 1 /\ cursor' = Mark(n, i + 1) + 1 /\ phase' = phase
         /\ IF left > 1 THEN offset' = offset ELSE offset' = Mark(n, i + 1) + 1
<1> DEFINE v == Record(n)[i + 1]
           H == Header("$", Len(v))
           o == Mark(n, i)
           p == Mark(n, i + 1)
           h == Len(H)
           k == Len(v)
           d == Len(data)
           end == LineEnd(data, cursor)
           line == SubSeq(data, cursor, end - 1)
           after == end + 2
           stop == PartEnd(after, LengthOf(Tail(line)))
           next == cursor + h + k + 2
<1>1. /\ o \in Nat /\ p = o + h + k + 2 /\ h \in Nat /\ k \in Nat /\ v \in Seq(Byte)
      /\ Shows(Encoded(written), o + 1, H) /\ Shows(Encoded(written), o + 1 + h, v \o CRLF)
  BY RecordLaid DEF Laid, LineLen, PartLen
<1>2. H \in Seq(Byte) /\ v \o CRLF \in Seq(Byte) /\ Len(v \o CRLF) = k + 2
  <2>1. "$" \in {"*", "$"}
    OBVIOUS
  <2>2. Len(CRLF) = 2 /\ CRLF \in Seq(Byte)
    BY CRLFType
  <2>3. v \o CRLF \in Seq(Byte) /\ Len(v \o CRLF) = k + Len(CRLF)
    BY <1>1, <2>2, ByteConcat
  <2> QED BY <1>1, <2>1, <2>2, <2>3, HeaderFacts
<1>3. d \in Nat /\ data \in Seq(Byte)
  BY LenProperties DEF OneByteHarmed
<1>4. /\ o + 1 \in Nat \ {0} /\ o + 1 + h \in Nat \ {0}
      /\ harm + 1 < o + 1 \/ (o + 1) + h <= harm + 1
      /\ harm + 1 < o + 1 + h \/ (o + 1 + h) + (k + 2) <= harm + 1
      /\ cursor = o + 1 /\ cursor + h = o + 1 + h /\ next = p + 1 /\ ~(next - 1 > d)
  <2>1. (harm < o \/ p <= harm) /\ cursor = o + 1 /\ p <= d
    OBVIOUS
  <2>2. p = o + h + k + 2 /\ o \in Nat /\ h \in Nat /\ k \in Nat
    BY <1>1
  <2> HIDE DEF o, h, p, k, d
  <2> QED BY <1>3, <2>1, <2>2, SMTT(20)
<1>5. Shows(data, cursor, H) /\ Shows(data, cursor + h, v \o CRLF) /\ cursor \in Nat \ {0}
  <2>1. Shows(data, o + 1, H)
    BY <1>1, <1>2, <1>4, CleanShows
  <2>2. Shows(data, o + 1 + h, v \o CRLF)
    BY <1>1, <1>2, <1>4, CleanShows
  <2> HIDE DEF H, h
  <2> QED BY <1>4, <2>1, <2>2
<1>6. /\ end = 0 => next - 1 > d
      /\ end # 0 => /\ line # <<>> /\ line[1] = "$" /\ IsLength(Tail(line))
                    /\ ~(LengthOf(Tail(line)) < 0)
                    /\ stop + 1 > d => next - 1 > d
                    /\ ~(stop + 1 > d) => /\ SubSeq(data, stop, stop + 1) = CRLF
                                          /\ stop + 2 = next
  <2>1. /\ data \in Seq(Byte) /\ v \in Seq(Byte) /\ cursor \in Nat \ {0}
        /\ Shows(data, cursor, H) /\ Shows(data, cursor + h, v \o CRLF)
    BY <1>1, <1>3, <1>5
  <2> QED BY <2>1, PartScanned, ZenonT(30)
<1>7. end # 0 /\ ~(stop + 1 > d) /\ Terminated(stop) /\ stop + 2 = p + 1
  BY <1>4, <1>6 DEF Terminated
<1> HIDE DEF p, next
<1>8. /\ left' = left - 1 /\ cursor' = stop + 2 /\ phase' = phase
      /\ IF left > 1 THEN offset' = offset ELSE offset' = stop + 2
  BY <1>6, <1>7 DEF ReadPart
<1>9. /\ left' = left - 1 /\ cursor' = p + 1 /\ phase' = phase
      /\ IF left > 1 THEN offset' = offset ELSE offset' = p + 1
  <2> HIDE DEF stop
  <2> QED BY <1>7, <1>8
<1> QED BY <1>9 DEF p

(* A damaged line or line end of a part is refused.                        *)
LEMMA HarmedPartRefused ==
  ASSUME written \in Logs, harm \in Nat, OneByteHarmed, ReadPart,
         NEW m \in Nat, Harmed(m), NEW i \in 0 .. Len(Record(m)), i < Len(Record(m)),
         HarmedPart(m, i), cursor = Mark(m, i) + 1
  PROVE  phase' = "corrupt"
<1> DEFINE v == Record(m)[i + 1]
           H == Header("$", Len(v))
           o == Mark(m, i)
           p == Mark(m, i + 1)
           h == Len(H)
           k == Len(v)
           d == Len(data)
           z == Mark(m + 1, 0)
           end == LineEnd(data, cursor)
           line == SubSeq(data, cursor, end - 1)
           after == end + 2
           stop == PartEnd(after, LengthOf(Tail(line)))
<1>0. m < Len(written) /\ m + 1 < Len(written) /\ Ends(m) <= harm /\ harm < Ends(m + 1)
  BY HarmedWhere
<1>1. Laid(m)
  BY <1>0, RecordLaid
<1>2. /\ o \in Nat /\ p = o + h + k + 2 /\ h \in Nat /\ h >= 4 /\ k \in Nat /\ v \in Seq(Byte)
      /\ Shows(Encoded(written), o + 1, H) /\ Shows(Encoded(written), o + 1 + h, v \o CRLF)
      /\ p <= Ends(m + 1) /\ Ends(m + 1) \in Nat
  <2>1. Len(Record(m)) \in Nat
    BY <1>1 DEF Laid
  <2>2. i + 1 \in 0 .. Len(Record(m))
    BY <2>1
  <2>3. p <= Ends(m + 1) /\ Ends(m + 1) \in Nat
    BY <1>1, <2>2 DEF Laid
  <2>4. /\ o \in Nat /\ p = o + h + k + 2 /\ h \in Nat /\ h >= 4 /\ k \in Nat /\ v \in Seq(Byte)
        /\ Shows(Encoded(written), o + 1, H) /\ Shows(Encoded(written), o + 1 + h, v \o CRLF)
    BY <1>1 DEF Laid, LineLen, PartLen
  <2> QED BY <2>3, <2>4
<1>3. /\ H \in Seq(Byte) /\ v \o CRLF \in Seq(Byte) /\ Len(v \o CRLF) = k + 2
      /\ "$" \in {"*", "$"}
  <2>1. "$" \in {"*", "$"}
    OBVIOUS
  <2>2. Len(CRLF) = 2 /\ CRLF \in Seq(Byte)
    BY CRLFType
  <2>3. v \o CRLF \in Seq(Byte) /\ Len(v \o CRLF) = k + Len(CRLF)
    BY <1>2, <2>2, ByteConcat
  <2> QED BY <1>2, <2>1, <2>2, <2>3, HeaderFacts
<1>4. z <= d /\ Ends(m + 1) + 4 <= z /\ Breaks(data, z - 1)
  BY <1>0, NextHeader
<1>5. data \in Seq(Byte) /\ d \in Nat /\ z \in Int
  <2>1. Laid(m + 1) /\ m + 1 \in Nat
    BY <1>0, NextHeader
  <2>2. Len(Record(m + 1)) \in Nat
    BY <2>1 DEF Laid
  <2>3. 0 \in 0 .. Len(Record(m + 1))
    BY <2>2
  <2> QED BY <2>1, <2>3, LenProperties DEF OneByteHarmed, Laid
<1>6. harm - o \in {0, h - 2, h - 1, h + k, h + k + 1}
  BY DEF HarmedPart, LineLen, PartLen
<1>7. /\ cursor = o + 1 /\ cursor \in Nat \ {0} /\ p <= d /\ p + 4 <= z
      /\ cursor + h <= d /\ z - 1 \in cursor .. d - 1
  <2> DEFINE e == Ends(m + 1)
  <2>1. cursor = o + 1 /\ p <= e /\ e + 4 <= z /\ z <= d /\ e \in Nat
    BY <1>2, <1>4
  <2> HIDE DEF o, p, h, k, d, e, z
  <2> QED BY <1>2, <1>5, <2>1, SMTT(20)
<1>8. CASE harm - o \in {0, h - 2, h - 1}
  <2> DEFINE c == harm - o + 1
  <2>1. c \in 1 .. h /\ (o + 1) + c - 1 = harm + 1 /\ o + 1 \in Nat \ {0}
        /\ (o + 1) + h - 1 <= d /\ c \notin 2 .. h - 2
    <3> HIDE DEF o, h, d
    <3> QED BY <1>2, <1>5, <1>7, <1>8, SMTT(20)
  <2> HIDE DEF c
  <2>2. Differs(data, o + 1, H, c)
    BY <1>2, <1>3, <2>1, HarmDiffers
  <2>3. Differs(data, cursor, H, c)
    <3> HIDE DEF H
    <3> QED BY <1>7, <2>2
  <2>4. /\ end # 0
        /\ line = <<>> \/ line[1] # "$" \/ ~IsLength(Tail(line))
    <3> HIDE DEF v, z
    <3> QED BY <1>2, <1>3, <1>4, <1>5, <1>7, <2>1, <2>3, HeaderHarmed, ZenonT(40)
  <2> QED BY <2>4 DEF ReadPart, Corrupt
<1>9. CASE harm - o \in {h + k, h + k + 1}
  <2>1. /\ harm + 1 \in {o + 1 + h + k, o + 1 + h + k + 1} /\ o + 1 \in Nat \ {0}
        /\ (o + 1) + h <= harm + 1 /\ harm + 1 <= p
        /\ o + 1 + h + k + 1 <= d
    <3>1. harm = o + h + k \/ harm = o + h + k + 1
      <4> HIDE DEF o, h, k
      <4> QED BY <1>2, <1>9
    <3> HIDE DEF o, h, k, p, d
    <3> QED BY <1>2, <1>5, <1>7, <3>1, SMTT(20)
  <2>2. Shows(data, cursor, H)
    <3>1. Shows(data, o + 1, H)
      BY <1>2, <1>3, <2>1, CleanShows
    <3> HIDE DEF H
    <3> QED BY <1>7, <3>1
  <2>3. /\ (end = 0) <=> cursor + h - 1 > d
        /\ end # 0 => /\ end + 2 = cursor + h /\ line # <<>> /\ line[1] = "$"
                      /\ IsLength(Tail(line)) /\ LengthOf(Tail(line)) = k
    BY <1>2, <1>3, <1>5, <1>7, <2>2, HeaderScanned
  <2>4. end # 0
    <3> HIDE DEF end, line, o, h, d
    <3> QED BY <1>2, <1>5, <1>7, <2>3, SMTT(20)
  <2>5. stop = o + 1 + h + k
    <3>1. stop = end + 2 + LengthOf(Tail(line))
      BY DEF PartEnd
    <3> HIDE DEF stop, end, line, o, h, k
    <3> QED BY <1>2, <1>7, <2>3, <2>4, <3>1
  <2>6. stop \in Nat /\ stop + 1 <= d /\ harm + 1 \in {stop, stop + 1}
    <3> HIDE DEF stop, o, h, k, d
    <3> QED BY <1>2, <1>5, <2>1, <2>5
  <2>7. Encoded(written)[stop] = "cr" /\ Encoded(written)[stop + 1] = "lf"
    <3> DEFINE E == Encoded(written)
               w == v \o CRLF
               f == o + 1 + h
    <3>1. /\ w \in Seq(Byte) /\ Len(w) = k + 2 /\ Shows(E, f, w)
          /\ w[k + 1] = "cr" /\ w[k + 2] = "lf"
      <4>1. CRLF \in Seq(Byte) /\ Len(CRLF) = 2 /\ CRLF[1] = "cr" /\ CRLF[2] = "lf"
        BY CRLFType
      <4>2. w \in Seq(Byte) /\ Len(w) = k + 2 /\ Shows(E, f, w)
        BY <1>2, <1>3
      <4>3. \A j \in 1 .. k + 2 : w[j] = IF j <= k THEN v[j] ELSE CRLF[j - k]
        <5>1. \A a, b \in Seq(Byte) :
                \A j \in 1 .. Len(a) + Len(b) :
                  (a \o b)[j] = IF j <= Len(a) THEN a[j] ELSE b[j - Len(a)]
          BY ConcatProperties
        <5> HIDE DEF v
        <5>2. \A j \in 1 .. Len(v) + Len(CRLF) :
                (v \o CRLF)[j] = IF j <= Len(v) THEN v[j] ELSE CRLF[j - Len(v)]
          BY <1>2, <4>1, <5>1, Zenon
        <5> QED BY <4>1, <5>2, Zenon
      <4>4. k + 1 \in 1 .. k + 2 /\ k + 2 \in 1 .. k + 2 /\ ~(k + 1 <= k) /\ ~(k + 2 <= k)
            /\ (k + 1) - k = 1 /\ (k + 2) - k = 2
        <5> HIDE DEF k
        <5> QED BY <1>2
      <4> HIDE DEF w, f, k
      <4> QED BY <4>1, <4>2, <4>3, <4>4
    <3>2. f + (k + 1) - 1 = stop /\ f + (k + 2) - 1 = stop + 1 /\ stop + 1 <= Len(E)
          /\ stop <= Len(E) /\ k + 1 \in 1 .. k + 2 /\ k + 2 \in 1 .. k + 2
      <4>1. d <= Len(E) /\ Len(E) \in Nat
        BY EndsFacts DEF OneByteHarmed
      <4> DEFINE e == Len(E)
      <4> HIDE DEF stop, o, h, k, d, e
      <4>2. d <= e /\ e \in Nat
        BY <4>1 DEF e, d
      <4>3. f + (k + 1) - 1 = stop /\ f + (k + 2) - 1 = stop + 1 /\ stop + 1 <= e /\ stop <= e
            /\ k + 1 \in 1 .. k + 2 /\ k + 2 \in 1 .. k + 2
        BY <1>2, <1>5, <2>5, <2>6, <4>2
      <4> QED BY <4>3 DEF e
    <3> HIDE DEF E, w, f, k, stop
    <3>3. \A j \in 1 .. k + 2 : f + j - 1 <= Len(E) => E[f + j - 1] = w[j]
      BY <3>1 DEF Shows
    <3>4. E[f + (k + 1) - 1] = w[k + 1] /\ E[f + (k + 2) - 1] = w[k + 2]
      BY <3>2, <3>3
    <3>5. E[stop] = "cr" /\ E[stop + 1] = "lf"
      BY <3>1, <3>2, <3>4
    <3> QED BY <3>5 DEF E
  <2>8. ~Terminated(stop)
    <3>1. data[harm + 1] # Encoded(written)[harm + 1]
      BY DEF OneByteHarmed
    <3> HIDE DEF stop
    <3> SUFFICES ASSUME SubSeq(data, stop, stop + 1) = CRLF PROVE FALSE
      BY DEF Terminated
    <3>2. SubSeq(data, stop, stop + 1) = [j \in 1 .. 2 |-> data[stop + j - 1]]
      <4>1. (stop + 1) - stop + 1 = 2
        BY <2>6
      <4> QED BY <1>5, <2>6, <4>1
    <3>3. CRLF[1] = "cr" /\ CRLF[2] = "lf"
      BY CRLFType
    <3>4. data[stop + 1 - 1] = "cr" /\ data[stop + 2 - 1] = "lf"
      <4>1. CRLF = [j \in 1 .. 2 |-> data[stop + j - 1]]
        BY <3>2
      <4>2. CRLF[1] = data[stop + 1 - 1] /\ CRLF[2] = data[stop + 2 - 1]
        BY <4>1
      <4> QED BY <3>3, <4>2
    <3>5. stop + 1 - 1 = stop /\ stop + 2 - 1 = stop + 1
      BY <2>6
    <3>6. data[stop] = "cr" /\ data[stop + 1] = "lf"
      BY <3>4, <3>5
    <3>7. harm + 1 = stop \/ harm + 1 = stop + 1
      BY <2>6
    <3> QED BY <2>7, <3>1, <3>6, <3>7
  <2>9. ~(LengthOf(Tail(line)) < 0) /\ ~(stop + 1 > d)
    <3>1. LengthOf(Tail(line)) = k
      BY <2>3, <2>4
    <3> HIDE DEF k, stop, d, line
    <3> QED BY <1>2, <1>5, <2>6, <3>1
  <2> QED BY <2>3, <2>4, <2>8, <2>9 DEF ReadPart, Corrupt
<1> QED BY <1>6, <1>8, <1>9

(* A record is not taken for a part.                                       *)
LEMMA RecordIsNoPart ==
  ASSUME written \in Logs, harm \in Nat, OneByteHarmed, ReadPart,
         NEW m \in Nat, Harmed(m), cursor = Ends(m + 1) + 1
  PROVE  phase' = "corrupt"
<1> DEFINE r == Record(m + 1)
           H == Header("*", Len(r))
           s == Ends(m + 1)
           g == Len(H)
           d == Len(data)
           end == LineEnd(data, cursor)
           line == SubSeq(data, cursor, end - 1)
<1>0. m < Len(written) /\ m + 1 < Len(written) /\ Ends(m) <= harm /\ harm < Ends(m + 1)
  BY HarmedWhere
<1>1. Laid(m + 1) /\ Mark(m + 1, 0) <= d /\ Shows(data, s + 1, H)
  BY <1>0, NextHeader
<1>2. Len(r) \in Nat /\ s \in Nat /\ Mark(m + 1, 0) = s + g
  BY <1>1 DEF Laid
<1>3. "*" \in {"*", "$"} /\ g \in Nat
  BY <1>2, HeaderFacts
<1>4. data \in Seq(Byte) /\ d \in Nat /\ cursor \in Nat \ {0} /\ cursor = s + 1
  BY <1>2, LenProperties DEF OneByteHarmed
<1>5. /\ (end = 0) <=> cursor + g - 1 > d
      /\ end # 0 => line # <<>> /\ line[1] = "*"
  <2>1. Shows(data, cursor, H)
    BY <1>1, <1>4
  <2> QED BY <1>2, <1>3, <1>4, <2>1, HeaderScanned
<1>6. ~(cursor + g - 1 > d)
  <2>1. s + g <= d
    BY <1>1, <1>2
  <2> HIDE DEF s, g, d
  <2> QED BY <1>2, <1>3, <1>4, <2>1
<1>7. end # 0 /\ line[1] # "$"
  BY <1>5, <1>6
<1> QED BY <1>7 DEF ReadPart, Corrupt

LEMMA LogStays ==
  ASSUME UNCHANGED <<written, harm, data>>
  PROVE  /\ Damaged' = Damaged /\ OneByteHarmed' = OneByteHarmed
         /\ \A n : Ends(n)' = Ends(n) /\ Record(n)' = Record(n) /\ Harmed(n)' = Harmed(n)
         /\ \A n, i : Mark(n, i)' = Mark(n, i)
<1>1. Encoded(written)' = Encoded(written) /\ Damaged' = Damaged /\ \A n : Ends(n)' = Ends(n)
  BY WrittenStays
<1>2. OneByteHarmed' = OneByteHarmed
  BY <1>1, Zenon DEF OneByteHarmed
<1>3. \A n : Record(n)' = Record(n)
  BY DEF Record
<1>4. \A n, i : Mark(n, i)' = Mark(n, i)
  BY <1>1, <1>3 DEF Mark
<1>5. \A n, i : PartLen(n, i)' = PartLen(n, i) /\ LineLen(n, i)' = LineLen(n, i)
  BY <1>3 DEF PartLen, LineLen
<1>6. \A n, i : HarmedPart(n, i)' = HarmedPart(n, i)
  BY <1>4, <1>5 DEF HarmedPart
<1>7. \A n : Harmed(n)' = Harmed(n)
  <2>1. \A n : HarmedIn(n)' = HarmedIn(n)
    BY <1>1, <1>3, <1>4, <1>6 DEF HarmedIn
  <2> QED BY <2>1 DEF Harmed
<1> QED BY <1>1, <1>2, <1>3, <1>4, <1>7

(* Reading on without damage.                                              *)
LEMMA ReadsOn ==
  ASSUME written \in Logs, harm \in Nat, OneByteHarmed, ReadPart, phase = "scan",
         NEW m \in Nat, Harmed(m), NEW n \in 0 .. m, NEW i \in Nat, Reading(n, i),
         Mark(n, i + 1) <= harm
  PROVE  phase' = "scan" /\ Astray(m)'
<1> DEFINE l == Len(Record(n))
<1>0. m < Len(written) /\ m + 1 < Len(written) /\ Len(written) \in Nat /\ harm < Ends(m + 1)
  BY HarmedWhere, WrittenFacts
<1>1. n < Len(written) /\ n \in Nat /\ Laid(n)
  <2>1. n < Len(written) /\ n \in Nat
    BY <1>0
  <2> QED BY <2>1, RecordLaid
<1>2. l \in Nat /\ i < l /\ left = l - i /\ cursor = Mark(n, i) + 1
  BY <1>1 DEF Laid, Reading
<1>3. i \in 0 .. l /\ i + 1 \in 0 .. l /\ i + 1 \in Nat
  BY <1>2
<1>4. Mark(n, i + 1) <= Len(data)
  <2>1. harm < Len(data) /\ Len(data) \in Nat
    BY LenProperties DEF OneByteHarmed
  <2>2. Mark(n, i + 1) \in Nat
    BY <1>1, <1>3 DEF Laid
  <2> QED BY <2>1, <2>2
<1>5. /\ left' = left - 1 /\ cursor' = Mark(n, i + 1) + 1 /\ phase' = phase
      /\ IF left > 1 THEN offset' = offset ELSE offset' = Mark(n, i + 1) + 1
  BY <1>1, <1>2, <1>3, <1>4, CleanPart
<1>6. UNCHANGED <<written, harm, data>>
  BY DEF ReadPart, Scanning
<1>7. /\ \A j : Ends(j)' = Ends(j) /\ Record(j)' = Record(j)
      /\ \A j, k : Mark(j, k)' = Mark(j, k)
  BY <1>6, LogStays
<1>8. CASE i + 1 < l
  <2>1. left - 1 = l - (i + 1)
    BY <1>2
  <2>2. harm' = harm
    BY <1>6
  <2>3. Reading(n, i + 1)'
    BY <1>5, <1>7, <1>8, <2>1, <2>2 DEF Reading
  <2> QED BY <1>3, <1>5, <2>3 DEF Astray
<1>9. CASE ~(i + 1 < l)
  <2>1. i + 1 = l /\ left - 1 = 0 /\ ~(left > 1)
    BY <1>2, <1>9
  <2>2. Mark(n, i + 1) = Ends(n + 1)
    BY <1>1, <2>1 DEF Laid
  <2>3. n # m
    BY <1>0, <1>1, <2>2 DEF Laid
  <2>4. n + 1 \in 0 .. m
    BY <1>1, <2>3
  <2>5. Between(n + 1)'
    BY <1>5, <1>7, <2>1, <2>2 DEF Between
  <2> QED BY <1>5, <2>4, <2>5 DEF Astray
<1> QED BY <1>8, <1>9

(* Reading on in a record that was miscounted.                             *)
LEMMA MiscountedReads ==
  ASSUME written \in Logs, harm \in Nat, OneByteHarmed, ReadPart, phase = "scan",
         NEW m \in Nat, Harmed(m), NEW i \in Nat, Miscounted(m, i)
  PROVE  phase' = "corrupt" \/ (phase' = "scan" /\ Astray(m)')
<1> DEFINE l == Len(Record(m))
<1>0. m < Len(written) /\ m + 1 < Len(written) /\ harm < Ends(m + 1)
  BY HarmedWhere
<1>1. Laid(m)
  BY <1>0, RecordLaid
<1>2. /\ l \in Nat /\ i <= l /\ left \in Nat \ {0} /\ left # l - i /\ cursor = Mark(m, i) + 1
      /\ harm < Mark(m, 0)
  BY <1>1 DEF Laid, Miscounted
<1>3. CASE i = l
  <2>1. cursor = Ends(m + 1) + 1
    BY <1>1, <1>2, <1>3 DEF Laid
  <2> QED BY <2>1, RecordIsNoPart
<1>4. CASE i # l
  <2>1. i < l /\ i \in 0 .. l /\ i + 1 \in 0 .. l /\ i + 1 \in Nat
    BY <1>2, <1>4
  <2>2. harm < Mark(m, i) /\ Mark(m, i + 1) <= Len(data)
    <3>1. /\ Mark(m, 0) <= Mark(m, i) /\ Mark(m, 0) \in Nat /\ Mark(m, i) \in Nat
          /\ Mark(m, i + 1) \in Nat /\ Mark(m, i + 1) <= Ends(m + 1) /\ Ends(m + 1) \in Nat
      <4>1. 0 \in 0 .. l
        BY <1>2
      <4> QED BY <1>1, <2>1, <4>1 DEF Laid
    <3>2. Mark(m + 1, 0) <= Len(data) /\ Ends(m + 1) + 4 <= Mark(m + 1, 0)
          /\ Len(data) \in Nat
      BY <1>0, NextHeader, LenProperties DEF OneByteHarmed
    <3>3. Mark(m + 1, 0) \in Nat
      <4>1. Laid(m + 1)
        BY <1>0, NextHeader
      <4>2. Len(Record(m + 1)) \in Nat
        BY <4>1 DEF Laid
      <4>3. 0 \in 0 .. Len(Record(m + 1))
        BY <4>2
      <4> QED BY <4>1, <4>3 DEF Laid
    <3> QED BY <1>2, <3>1, <3>2, <3>3
  <2>3. /\ left' = left - 1 /\ cursor' = Mark(m, i + 1) + 1 /\ phase' = phase
        /\ IF left > 1 THEN offset' = offset ELSE offset' = Mark(m, i + 1) + 1
    BY <1>0, <1>2, <2>1, <2>2, CleanPart
  <2>4. UNCHANGED <<written, harm, data>>
    BY DEF ReadPart, Scanning
  <2>5. /\ \A j : Record(j)' = Record(j)
        /\ \A j, k : Mark(j, k)' = Mark(j, k)
        /\ harm' = harm
    BY <2>4, LogStays
  <2>6. CASE left > 1
    <3>1. left - 1 \in Nat \ {0} /\ left - 1 # l - (i + 1) /\ i + 1 <= l
      BY <1>2, <2>1, <2>6
    <3>2. Miscounted(m, i + 1)'
      BY <1>2, <2>3, <2>5, <3>1 DEF Miscounted
    <3> QED BY <2>1, <2>3, <3>2 DEF Astray
  <2>7. CASE ~(left > 1)
    <3>1. left - 1 = 0 /\ i + 1 \in 1 .. l - 1
      BY <1>2, <2>1, <2>7
    <3>2. Misled(m, i + 1)'
      BY <1>2, <2>3, <2>5, <2>7, <3>1 DEF Misled
    <3> QED BY <2>1, <2>3, <3>2 DEF Astray
  <2> QED BY <2>6, <2>7
<1> QED BY <1>3, <1>4

LEMMA HeaderKeepsAstray ==
  ASSUME written \in Logs, harm \in Nat, OneByteHarmed, ReadHeader, phase = "scan",
         NEW m \in Nat, Harmed(m), Astray(m)
  PROVE  phase' = "corrupt" \/ (phase' = "scan" /\ Astray(m)')
<1>0. m < Len(written) /\ m + 1 < Len(written) /\ Ends(m) <= harm /\ harm < Ends(m + 1)
  BY HarmedWhere
<1>1. left = 0 /\ UNCHANGED <<written, harm, data>>
  BY DEF ReadHeader, Scanning
<1>2. /\ \A j : Record(j)' = Record(j)
      /\ \A j, k : Mark(j, k)' = Mark(j, k)
      /\ harm' = harm
  BY <1>1, LogStays
<1>3. ASSUME NEW n \in 0 .. m, Between(n)
      PROVE  phase' = "corrupt" \/ (phase' = "scan" /\ Astray(m)')
  <2>1. n < Len(written) /\ n \in Nat /\ Laid(n) /\ offset = Ends(n) + 1
    <3>1. n < Len(written) /\ n \in Nat
      BY <1>0, WrittenFacts
    <3> QED BY <1>3, <3>1, RecordLaid DEF Between
  <2>2. Len(Record(n)) \in Nat \ {0}
    BY <2>1 DEF Laid
  <2>3. 0 \in 0 .. Len(Record(n)) /\ 0 < Len(Record(n)) /\ Len(Record(n)) - 0 = Len(Record(n))
        /\ 0 <= Len(Record(n)) /\ 0 \in Nat
    BY <2>2
  <2>4. Mark(n, 0) \in Nat /\ Mark(n, 0) <= Ends(n + 1)
    BY <2>1, <2>3 DEF Laid
  <2>5. CASE Mark(n, 0) <= harm
    <3>1. Mark(n, 0) <= Len(data)
      <4>1. harm < Len(data) /\ Len(data) \in Nat
        BY LenProperties DEF OneByteHarmed
      <4> QED BY <2>4, <2>5, <4>1
    <3>2. left' = Len(Record(n)) /\ cursor' = Mark(n, 0) + 1 /\ phase' = phase
      BY <2>1, <2>5, <3>1, CleanHeader
    <3>3. Reading(n, 0)'
      BY <1>2, <2>3, <2>5, <3>2 DEF Reading
    <3> QED BY <2>3, <3>2, <3>3 DEF Astray
  <2>6. CASE ~(Mark(n, 0) <= harm)
    <3>1. n = m
      <4> SUFFICES ASSUME n # m PROVE FALSE
        OBVIOUS
      <4>1. n + 1 \in 0 .. Len(written) /\ m \in n + 1 .. Len(written)
        BY <1>0, <2>1, WrittenFacts
      <4>2. Ends(n + 1) <= Ends(m) /\ Ends(n + 1) \in Nat /\ Ends(m) \in Nat
        BY <1>0, <4>1, EndsFacts, WrittenFacts
      <4> QED BY <1>0, <2>4, <2>6, <4>2
    <3>2. harm < Mark(m, 0)
      BY <2>4, <2>6, <3>1
    <3>3. \/ phase' = "corrupt"
          \/ /\ left' \in Nat \ {0} /\ left' # Len(Record(m)) /\ cursor' = Mark(m, 0) + 1
             /\ phase' = phase
      BY <2>1, <3>1, <3>2, HarmedHeader
    <3>4. CASE /\ left' \in Nat \ {0} /\ left' # Len(Record(m)) /\ cursor' = Mark(m, 0) + 1
               /\ phase' = phase
      <4>1. Miscounted(m, 0)'
        BY <1>2, <2>3, <3>1, <3>2, <3>4 DEF Miscounted
      <4> QED BY <2>3, <3>4, <4>1 DEF Astray
    <3> QED BY <3>3, <3>4
  <2> QED BY <2>5, <2>6
<1>4. ASSUME NEW n \in 0 .. m, NEW i \in Nat, Reading(n, i)
      PROVE  FALSE
  <2>1. Laid(n)
    <3>1. n < Len(written) /\ n \in Nat
      BY <1>0, WrittenFacts
    <3> QED BY <3>1, RecordLaid
  <2>2. Len(Record(n)) \in Nat /\ i < Len(Record(n)) /\ left = Len(Record(n)) - i
    BY <1>4, <2>1 DEF Reading, Laid
  <2> QED BY <1>1, <2>2
<1>5. \A i \in Nat : ~Miscounted(m, i)
  BY <1>1 DEF Miscounted
<1>6. ASSUME NEW i \in Nat, Misled(m, i)
      PROVE  phase' = "corrupt"
  <2>1. Laid(m) /\ Laid(m + 1) /\ Ends(m + 1) + 4 <= Mark(m + 1, 0) /\ Mark(m + 1, 0) <= Len(data)
    BY <1>0, RecordLaid, NextHeader
  <2>2. /\ Len(Record(m)) \in Nat /\ Len(Record(m + 1)) \in Nat
        /\ offset = Mark(m, i) + 1 /\ harm < Mark(m, 0)
    BY <1>6, <2>1 DEF Laid, Misled
  <2>3. i \in 0 .. Len(Record(m)) /\ i < Len(Record(m)) /\ 0 \in 0 .. Len(Record(m))
        /\ 0 \in 0 .. Len(Record(m + 1))
    BY <1>6, <2>2 DEF Misled
  <2>4. /\ Mark(m, 0) <= Mark(m, i) /\ Mark(m, 0) \in Nat /\ Mark(m, i) \in Nat
        /\ Ends(m + 1) \in Nat /\ Mark(m + 1, 0) \in Nat
    BY <2>1, <2>3 DEF Laid
  <2>5. harm < Mark(m, i)
    BY <2>2, <2>4
  <2>6. Ends(m + 1) <= Len(data)
    <3>1. Len(data) \in Nat
      BY LenProperties DEF OneByteHarmed
    <3> QED BY <2>1, <2>4, <3>1
  <2> QED BY <1>0, <2>2, <2>3, <2>5, <2>6, PartIsNoRecord
<1> QED BY <1>3, <1>4, <1>5, <1>6 DEF Astray

LEMMA PartKeepsAstray ==
  ASSUME written \in Logs, harm \in Nat, OneByteHarmed, ReadPart, phase = "scan",
         NEW m \in Nat, Harmed(m), Astray(m)
  PROVE  phase' = "corrupt" \/ (phase' = "scan" /\ Astray(m)')
<1>0. m < Len(written) /\ m + 1 < Len(written) /\ Ends(m) <= harm /\ harm < Ends(m + 1)
  BY HarmedWhere
<1>1. left > 0 /\ left # 0
  BY DEF ReadPart
<1>2. \A n : ~Between(n) /\ ~Misled(m, n)
  BY <1>1 DEF Between, Misled
<1>3. ASSUME NEW n \in 0 .. m, NEW i \in Nat, Reading(n, i)
      PROVE  phase' = "corrupt" \/ (phase' = "scan" /\ Astray(m)')
  <2>1. n < Len(written) /\ n \in Nat /\ Laid(n)
    <3>1. n < Len(written) /\ n \in Nat
      BY <1>0, WrittenFacts
    <3> QED BY <3>1, RecordLaid
  <2>2. /\ Len(Record(n)) \in Nat /\ i < Len(Record(n)) /\ Mark(n, i) <= harm
        /\ cursor = Mark(n, i) + 1
    BY <1>3, <2>1 DEF Laid, Reading
  <2>3. i \in 0 .. Len(Record(n)) /\ i + 1 \in 0 .. Len(Record(n)) /\ 0 \in 0 .. Len(Record(n))
    BY <2>2
  <2>4. /\ Mark(n, i) \in Nat /\ Mark(n, i + 1) \in Nat /\ Mark(n, i + 1) <= Ends(n + 1)
        /\ Ends(n + 1) \in Nat /\ Mark(n, 0) \in Nat /\ Mark(n, 0) <= Mark(n, i)
    BY <2>1, <2>3 DEF Laid
  <2>5. CASE Mark(n, i + 1) <= harm
    BY <1>3, <2>5, ReadsOn
  <2>6. CASE ~(Mark(n, i + 1) <= harm)
    <3>1. n = m
      <4> SUFFICES ASSUME n # m PROVE FALSE
        OBVIOUS
      <4>1. n + 1 \in 0 .. Len(written) /\ m \in n + 1 .. Len(written)
        BY <1>0, <2>1, WrittenFacts
      <4>2. Ends(n + 1) <= Ends(m) /\ Ends(m) \in Nat
        BY <1>0, <4>1, EndsFacts, WrittenFacts
      <4> QED BY <1>0, <2>4, <2>6, <4>2
    <3>2. HarmedPart(m, i)
      <4>1. ~(harm < Mark(m, 0))
        BY <2>2, <2>4, <3>1
      <4>2. PICK k \in 0 .. Len(Record(m)) - 1 : HarmedPart(m, k)
        BY <4>1 DEF Harmed, HarmedIn
      <4>3. k \in 0 .. Len(Record(m)) /\ k + 1 \in 0 .. Len(Record(m)) /\ k < Len(Record(m))
        BY <2>2, <3>1
      <4> DEFINE o == Mark(m, k)
                 p == Mark(m, k + 1)
                 h == LineLen(m, k)
                 v == PartLen(m, k)
      <4>4. /\ o \in Nat /\ p \in Nat /\ h \in Nat /\ v \in Nat /\ h >= 4
            /\ p = o + h + v + 2
        BY <2>1, <3>1, <4>3 DEF Laid
      <4>5. harm - o \in {0, h - 2, h - 1, h + v, h + v + 1}
        BY <4>2 DEF HarmedPart
      <4>6. o <= harm /\ harm < p
        <5> HIDE DEF o, p, h, v
        <5> QED BY <4>4, <4>5
      <4>7. ~(k < i)
        <5> SUFFICES ASSUME k < i PROVE FALSE
          OBVIOUS
        <5>1. i \in k + 1 .. Len(Record(m))
          BY <2>2, <3>1, <4>3
        <5>2. p <= Mark(m, i)
          BY <2>1, <3>1, <4>3, <5>1 DEF Laid
        <5>3. Mark(m, i) \in Nat /\ Mark(m, i) <= harm
          BY <2>2, <2>4, <3>1
        <5>4. p \in Nat /\ harm < p
          BY <4>4, <4>6
        <5> HIDE DEF p
        <5> QED BY <5>2, <5>3, <5>4
      <4>8. ~(i < k)
        <5> SUFFICES ASSUME i < k PROVE FALSE
          OBVIOUS
        <5>1. k \in i + 1 .. Len(Record(m))
          BY <2>2, <3>1, <4>3
        <5>2. Mark(m, i + 1) <= o
          BY <2>1, <2>3, <3>1, <5>1 DEF Laid
        <5>3. Mark(m, i + 1) \in Nat /\ harm < Mark(m, i + 1)
          BY <2>4, <2>6, <3>1
        <5>4. o \in Nat /\ o <= harm
          BY <4>4, <4>6
        <5> HIDE DEF o
        <5> QED BY <5>2, <5>3, <5>4
      <4>9. k = i
        BY <4>3, <4>7, <4>8
      <4> QED BY <4>2, <4>9
    <3>3. phase' = "corrupt"
      BY <2>2, <2>3, <3>1, <3>2, HarmedPartRefused
    <3> QED BY <3>3
  <2> QED BY <2>5, <2>6
<1>4. ASSUME NEW i \in Nat, Miscounted(m, i)
      PROVE  phase' = "corrupt" \/ (phase' = "scan" /\ Astray(m)')
  BY <1>4, MiscountedReads
<1> QED BY <1>2, <1>3, <1>4 DEF Astray

LEMMA StepKeepsRefusal ==
  ASSUME RefuseInv, [Next]_vars
  PROVE  RefuseInv'
<1>1. UNCHANGED <<written, harm, data>>
  BY DEF Next, ReadHeader, ReadPart, Scanning, Apply, Repair, Done, vars
<1>2. /\ written \in Logs /\ harm \in Nat
      /\ Damaged => OneByteHarmed
      /\ written' = written /\ harm' = harm
      /\ Damaged' = Damaged /\ OneByteHarmed' = OneByteHarmed
      /\ \A n : Ends(n)' = Ends(n) /\ Record(n)' = Record(n) /\ Harmed(n)' = Harmed(n)
      /\ \A n, i : Mark(n, i)' = Mark(n, i)
  BY <1>1, LogStays DEF RefuseInv
<1>3. ASSUME NEW m \in Nat, Damaged, Harmed(m)
      PROVE  phase' = "corrupt" \/ (phase' = "scan" /\ Astray(m)')
  <2>1. phase = "corrupt" \/ (phase = "scan" /\ Astray(m))
    BY <1>3 DEF RefuseInv
  <2>2. OneByteHarmed
    BY <1>2, <1>3
  <2>3. CASE ReadHeader
    <3>1. phase = "scan"
      BY <2>3 DEF ReadHeader, Scanning
    <3> QED BY <1>2, <1>3, <2>1, <2>2, <2>3, <3>1, HeaderKeepsAstray
  <2>4. CASE ReadPart
    <3>1. phase = "scan"
      BY <2>4 DEF ReadPart, Scanning
    <3> QED BY <1>2, <1>3, <2>1, <2>2, <2>4, <3>1, PartKeepsAstray
  <2>5. CASE Apply \/ Repair
    BY <2>1, <2>5 DEF Apply, Repair
  <2>6. CASE Done \/ UNCHANGED vars
    <3>1. UNCHANGED <<phase, left, offset, cursor>>
      BY <2>6 DEF Done, vars
    <3>2. /\ \A n : Between(n)' = Between(n)
          /\ \A n, i : /\ Reading(n, i)' = Reading(n, i) /\ Miscounted(n, i)' = Miscounted(n, i)
                       /\ Misled(n, i)' = Misled(n, i)
      BY <1>2, <3>1 DEF Between, Reading, Miscounted, Misled
    <3>3. Astray(m)' = Astray(m)
      BY <3>2, Zenon DEF Astray
    <3> QED BY <2>1, <3>1, <3>3
  <2> QED BY <2>3, <2>4, <2>5, <2>6 DEF Next
<1> QED BY <1>2, <1>3 DEF RefuseInv

LEMMA InitHarmed ==
  ASSUME Init, Damaged
  PROVE  OneByteHarmed
<1> DEFINE E == Encoded(written)
           l == Len(E)
<1>1. /\ harm \in 0 .. l /\ E \in Seq(Byte) /\ l \in Nat /\ data = file
      /\ E \in [1 .. l -> Byte]
  BY EndsFacts, LenProperties DEF Init
<1>2. file # SubSeq(E, 1, harm)
  <2> SUFFICES ASSUME file = SubSeq(E, 1, harm) PROVE FALSE
    OBVIOUS
  <2>1. Len(SubSeq(E, 1, harm)) = harm
    BY <1>1
  <2> QED BY <1>1, <2>1 DEF Damaged
<1>3. harm < l /\ \E b \in Byte \ {E[harm + 1]}, whole \in BOOLEAN :
                    LET bytes == ReplaceAt(E, harm + 1, b)
                    IN  file = IF whole THEN bytes ELSE Front(bytes)
  BY <1>2 DEF Init
<1>4. PICK b \in Byte \ {E[harm + 1]}, whole \in BOOLEAN :
        LET bytes == ReplaceAt(E, harm + 1, b)
        IN  file = IF whole THEN bytes ELSE Front(bytes)
  BY <1>3
<1> DEFINE bytes == ReplaceAt(E, harm + 1, b)
<1>5. /\ bytes \in Seq(Byte) /\ Len(bytes) = l /\ bytes[harm + 1] = b
      /\ \A i \in 1 .. l : bytes[i] \in Byte /\ (i # harm + 1 => bytes[i] = E[i])
  <2>1. bytes = [E EXCEPT ![harm + 1] = b]
    BY DEF ReplaceAt
  <2> HIDE DEF bytes, l, E
  <2>2. harm + 1 \in 1 .. l
    BY <1>1, <1>3
  <2>3. /\ bytes \in [1 .. l -> Byte] /\ bytes[harm + 1] = b
        /\ \A i \in 1 .. l : i # harm + 1 => bytes[i] = E[i]
    BY <1>1, <1>4, <2>1, <2>2
  <2> QED BY <1>1, <2>3
<1> HIDE DEF bytes, E, l
<1>6. CASE whole
  <2>1. data = bytes
    BY <1>1, <1>4, <1>6 DEF bytes
  <2>2. /\ data \in Seq(Byte) /\ harm < Len(data) /\ Len(data) <= l /\ l <= Len(data) + 1
        /\ data[harm + 1] # E[harm + 1]
        /\ \A i \in 1 .. Len(data) : i # harm + 1 => data[i] = E[i]
    BY <1>1, <1>3, <1>4, <1>5, <2>1
  <2> QED BY <2>2 DEF OneByteHarmed, E, l
<1>7. CASE ~whole
  <2>1. data = SubSeq(bytes, 1, l - 1)
    BY <1>1, <1>4, <1>5, <1>7 DEF Front, bytes
  <2>2. SubSeq(bytes, 1, l - 1) = [i \in 1 .. l - 1 |-> bytes[i]]
    <3>1. \A i \in 1 .. l - 1 : 1 + i - 1 = i
      OBVIOUS
    <3> QED BY <1>1, <1>3, <1>5, <3>1
  <2>3. data \in Seq(Byte) /\ Len(data) = l - 1 /\ \A i \in 1 .. l - 1 : data[i] = bytes[i]
    <3>1. l - 1 \in Nat /\ \A i \in 1 .. l - 1 : i \in 1 .. l
      BY <1>1, <1>3
    <3> QED BY <1>5, <2>1, <2>2, <3>1
  <2>4. harm < l - 1
    BY <2>3 DEF Damaged
  <2>5. /\ harm < Len(data) /\ Len(data) <= l /\ l <= Len(data) + 1
        /\ data[harm + 1] # E[harm + 1]
        /\ \A i \in 1 .. Len(data) : i # harm + 1 => data[i] = E[i]
    <3>1. harm + 1 \in 1 .. l - 1 /\ \A i \in 1 .. l - 1 : i \in 1 .. l
      BY <1>1, <2>4
    <3> QED BY <1>1, <1>4, <1>5, <2>3, <2>4, <3>1
  <2> QED BY <2>3, <2>5 DEF OneByteHarmed, E, l
<1> QED BY <1>4, <1>6, <1>7

LEMMA InitRefuses ==
  ASSUME Init
  PROVE  RefuseInv
<1>1. /\ written \in Logs /\ harm \in 0 .. Len(Encoded(written))
      /\ phase = "scan" /\ left = 0 /\ offset = 1
  BY DEF Init
<1>2. harm \in Nat
  BY <1>1, EndsFacts
<1>3. Damaged => OneByteHarmed
  BY InitHarmed
<1>4. \A m \in Nat : Astray(m)
  <2>1. Ends(0) = 0 /\ 0 + 1 = 1 /\ \A m \in Nat : 0 \in 0 .. m
    BY <1>1, EndsFacts
  <2>2. Between(0)
    BY <1>1, <2>1 DEF Between
  <2> QED BY <2>1, <2>2 DEF Astray
<1> QED BY <1>1, <1>2, <1>3, <1>4 DEF RefuseInv

(* How much of a record comes before a part of it.                         *)
LEMMA PartsBefore ==
  ASSUME NEW r \in Seq(Seq(Byte)), NEW i \in 0 .. Len(r)
  PROVE  Offset(ArrayFrame(r), i)
           = Len(Header("*", Len(r)))
               + Len(FlattenSeq([j \in 1 .. i |-> EncodeBulkString(r[j])]))
<1> DEFINE f == ArrayFrame(r)
           q == Pieces(f)
<1>1. /\ f \in ClientFrame /\ Len(f.bulks) = Len(r) /\ Len(r) \in Nat
      /\ f.head = Header("*", Len(r))
      /\ \A j \in 1 .. Len(r) : f.bulks[j] = Bulk(Header("$", Len(r[j])), r[j])
  BY ArrayIsFrame
<1>2. /\ q \in Seq(Seq(Byte)) /\ Len(q) = Len(r)
      /\ \A j \in 1 .. Len(r) : q[j] = BulkBytes(f.bulks[j])
  BY <1>1, PieceFacts
<1> HIDE DEF f
<1>3. \A j \in 1 .. Len(r) : q[j] = EncodeBulkString(r[j])
  <2> SUFFICES ASSUME NEW j \in 1 .. Len(r) PROVE q[j] = EncodeBulkString(r[j])
    OBVIOUS
  <2>1. q[j] = BulkBytes(Bulk(Header("$", Len(r[j])), r[j]))
    BY <1>1, <1>2
  <2> QED BY <2>1 DEF BulkBytes, Bulk, EncodeBulkString
<1>4. SubSeq(q, 1, i) = [j \in 1 .. i |-> q[j]]
  <2>1. \A j \in 1 .. i : 1 + j - 1 = j /\ j \in 1 .. Len(q)
    BY <1>1, <1>2
  <2> QED BY <1>1, <1>2, <2>1
<1>5. SubSeq(q, 1, i) = [j \in 1 .. i |-> EncodeBulkString(r[j])]
  <2>1. \A j \in 1 .. i : j \in 1 .. Len(r)
    BY <1>1
  <2> QED BY <1>3, <1>4, <2>1
<1> QED BY <1>1, <1>5 DEF Offset, Joined, f

(* A byte that is framing is framing of some record.                       *)
LEMMA FramingIsHarmed ==
  ASSUME written \in Logs, harm \in Nat, harm + 1 \in FramingBytes
  PROVE  \E n \in 0 .. Len(written) - 1 : HarmedIn(n)
<1> DEFINE B(n) == Len(Encoded(SubSeq(written, 1, n)))
           Count(n) == Len(Header("*", Len(written[n + 1])))
           Start(n, i) == B(n) + Count(n)
             + Len(FlattenSeq([j \in 1 .. i |-> EncodeBulkString(written[n + 1][j])]))
           Line(v) == Len(Header("$", Len(v)))
           Part(v) == {1, Line(v) - 1, Line(v), Line(v) + Len(v) + 1, Line(v) + Len(v) + 2}
           Its(n, i) == {Start(n, i - 1) + d : d \in Part(written[n + 1][i])}
<1>1. FramingBytes = UNION {(B(n) + 1 .. B(n) + Count(n))
                              \cup UNION {Its(n, i) : i \in DOMAIN written[n + 1]} :
                            n \in 0 .. Len(written) - 1}
  BY DEF FramingBytes
<1> HIDE DEF Its, B, Count
<1>2. PICK n \in 0 .. Len(written) - 1 :
        \/ harm + 1 \in B(n) + 1 .. B(n) + Count(n)
        \/ \E i \in DOMAIN written[n + 1] : harm + 1 \in Its(n, i)
  BY <1>1
<1>3. n < Len(written) /\ n \in Nat /\ n \in 0 .. Len(written)
  BY WrittenFacts
<1>4. B(n) = Ends(n)
  BY <1>3, EncodedPrefix DEF B, Ends
<1> DEFINE r == Record(n)
<1>5. Laid(n)
  BY <1>3, RecordLaid
<1>6. /\ r \in Seq(Seq(Byte)) /\ Len(r) \in Nat /\ DOMAIN r = 1 .. Len(r) /\ r = written[n + 1]
      /\ Ends(n) \in Nat /\ Mark(n, 0) = Ends(n) + Count(n) /\ Mark(n, 0) \in Nat
  <2>1. r \in Seq(Seq(Byte)) /\ Len(r) \in Nat
    BY <1>5 DEF Laid
  <2>2. 0 \in 0 .. Len(r)
    BY <2>1
  <2>3. r = written[n + 1]
    BY DEF Record
  <2>4. Count(n) = Len(Header("*", Len(r)))
    BY <2>3 DEF Count
  <2>5. Ends(n) \in Nat /\ Mark(n, 0) = Ends(n) + Count(n) /\ Mark(n, 0) \in Nat
    BY <1>5, <2>2, <2>4 DEF Laid
  <2> QED BY <2>1, <2>3, <2>5
<1>7. CASE harm + 1 \in B(n) + 1 .. B(n) + Count(n)
  <2>1. Ends(n) <= harm /\ harm < Mark(n, 0)
    <3> DEFINE s == Ends(n)
               g == Count(n)
               o == Mark(n, 0)
    <3>1. s \in Nat /\ o \in Nat /\ o = s + g /\ harm + 1 \in s + 1 .. s + g
      BY <1>4, <1>6, <1>7
    <3> HIDE DEF s, g, o
    <3>2. s <= harm /\ harm < o
      BY <3>1
    <3> QED BY <3>2 DEF s, o
  <2> QED BY <2>1 DEF HarmedIn
<1>8. ASSUME NEW i \in DOMAIN written[n + 1], harm + 1 \in Its(n, i)
      PROVE  HarmedIn(n)
  <2>1. /\ i \in 1 .. Len(r) /\ i - 1 \in 0 .. Len(r) - 1 /\ i - 1 \in 0 .. Len(r)
        /\ i - 1 < Len(r) /\ (i - 1) + 1 = i
    BY <1>6, <1>8
  <2>2. Start(n, i - 1) = Mark(n, i - 1)
    <3> DEFINE x == Len(FlattenSeq([j \in 1 .. i - 1 |-> EncodeBulkString(r[j])]))
               y == Offset(ArrayFrame(r), i - 1)
               s == Ends(n)
               g == Count(n)
    <3>1. Start(n, i - 1) = s + g + x
      BY <1>4, <1>6
    <3>2. y = g + x
      BY <1>6, <2>1, PartsBefore DEF Count
    <3>3. Mark(n, i - 1) = s + y
      BY DEF Mark
    <3>4. s \in Nat /\ g \in Nat /\ y \in Nat
      <4>1. "*" \in {"*", "$"}
        OBVIOUS
      <4>2. g \in Nat
        BY <1>6, <4>1, HeaderFacts DEF Count
      <4>3. y \in Nat
        BY <1>6, <2>1, ArrayIsFrame, OffsetFacts
      <4> QED BY <1>6, <4>2, <4>3
    <3>5. x \in Nat
      <4>1. \A j \in 1 .. i - 1 : EncodeBulkString(r[j]) \in Seq(Byte)
        <5> SUFFICES ASSUME NEW j \in 1 .. i - 1 PROVE EncodeBulkString(r[j]) \in Seq(Byte)
          OBVIOUS
        <5>1. r[j] \in Seq(Byte)
          <6>1. j \in 1 .. Len(r)
            BY <1>6, <2>1
          <6> HIDE DEF r
          <6> QED BY <1>6, <6>1, ElementOfSeq
        <5>2. Header("$", Len(r[j])) \in Seq(Byte)
          <6>1. Len(r[j]) \in Nat /\ "$" \in {"*", "$"}
            BY <5>1, LenProperties
          <6> QED BY <6>1, HeaderFacts
        <5> QED BY <5>1, <5>2, CRLFType, ByteConcat DEF EncodeBulkString
      <4> DEFINE q == [j \in 1 .. i - 1 |-> EncodeBulkString(r[j])]
      <4>2. q \in Seq(Seq(Byte))
        <5>1. i - 1 \in Nat
          BY <2>1
        <5> QED BY <4>1, <5>1
      <4> HIDE DEF q
      <4>3. FlattenSeq(q) \in Seq(Byte)
        BY <4>2, ByteJoined
      <4>4. Len(FlattenSeq(q)) \in Nat
        BY <4>3, LenProperties
      <4> QED BY <4>4 DEF q
    <3> HIDE DEF x, y, s, g, Start
    <3> QED BY <3>1, <3>2, <3>3, <3>4, <3>5
  <2> DEFINE o == Mark(n, i - 1)
             h == LineLen(n, i - 1)
             k == PartLen(n, i - 1)
  <2>3. /\ o \in Nat /\ h \in Nat /\ k \in Nat
        /\ h = Line(written[n + 1][i]) /\ k = Len(written[n + 1][i])
    <3>1. k = Len(written[n + 1][i]) /\ h = Line(written[n + 1][i])
      BY <2>1 DEF PartLen, LineLen, Record
    <3> QED BY <1>5, <2>1, <3>1 DEF Laid
  <2>4. PICK d \in Part(written[n + 1][i]) : harm + 1 = Start(n, i - 1) + d
    BY <1>8 DEF Its
  <2> HIDE DEF o, h, k, Start, Line
  <2>5. harm - o \in {0, h - 2, h - 1, h + k, h + k + 1}
    <3>1. d \in {1, h - 1, h, h + k + 1, h + k + 2}
      BY <2>3, <2>4
    <3>2. harm + 1 = o + d
      BY <2>2, <2>4 DEF o
    <3>3. harm \in Int
      BY <1>3
    <3> HIDE DEF Part
    <3> QED BY <2>3, <3>1, <3>2, <3>3
  <2>6. HarmedPart(n, i - 1)
    BY <2>5 DEF HarmedPart, o, h, k
  <2> QED BY <2>1, <2>6 DEF HarmedIn
<1> QED BY <1>2, <1>7, <1>8

LEMMA RefusedIfFraming ==
  ASSUME RefuseInv
  PROVE  FramingDamageRefused
<1> SUFFICES ASSUME phase = "loaded", Damaged, ~InLastRecord, harm + 1 \in FramingBytes
             PROVE  FALSE
  BY DEF FramingDamageRefused
<1>1. written \in Logs /\ harm \in Nat /\ Len(written) \in Nat
  BY WrittenFacts DEF RefuseInv
<1>2. PICK n \in 0 .. Len(written) - 1 : HarmedIn(n)
  BY <1>1, FramingIsHarmed
<1>3. n < Len(written) /\ n \in Nat /\ n \in 0 .. Len(written) /\ n + 1 \in 0 .. Len(written)
  BY <1>1, <1>2
<1>4. Ends(n) <= harm
  BY <1>1, <1>2, <1>3, HarmedBetween
<1>5. harm < Ends(Len(written) - 1)
  <2>1. Len(written) - 1 \in 0 .. Len(written)
    BY <1>1, <1>3
  <2>2. Encoded(Front(written)) = Joined(Arrays, Len(written) - 1)
    BY <1>1, <2>1, EncodedPrefix DEF Front
  <2>3. Ends(Len(written) - 1) \in Nat
    BY <1>1, <2>1, EndsFacts
  <2> QED BY <1>1, <2>2, <2>3 DEF InLastRecord, Ends
<1>6. n # Len(written) - 1
  <2>1. Ends(n) \in Nat
    BY <1>1, <1>3, EndsFacts
  <2> QED BY <1>1, <1>4, <1>5, <2>1
<1>7. Harmed(n)
  <2>1. n + 1 < Len(written)
    BY <1>1, <1>2, <1>6
  <2> QED BY <1>2, <2>1 DEF Harmed
<1> QED BY <1>3, <1>7 DEF RefuseInv

(* Damage to a marker, a count or a line end before the last record is     *)
(* never taken for a torn tail, nor for other records: scan                *)
(* (aof.py:214-276) refuses the file, for every log the journal can write, *)
(* every payload in it, every damaged byte of its framing and every byte   *)
(* that takes its place, the last byte missing or not.                     *)
THEOREM FramingDamageIsRefused == Spec => []FramingDamageRefused
<1>1. Init => RefuseInv
  BY InitRefuses
<1>2. RefuseInv /\ [Next]_vars => RefuseInv'
  BY StepKeepsRefusal
<1>3. RefuseInv => FramingDamageRefused
  BY RefusedIfFraming
<1> QED BY <1>1, <1>2, <1>3, PTL DEF Spec
=============================================================================
