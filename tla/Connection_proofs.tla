-------------------------- MODULE Connection_proofs -------------------------
(***************************************************************************)
(* Proofs about Connection, for every stream and every limit.              *)
(***************************************************************************)
EXTENDS Connection, Wire_proofs

(* A session reads on only when the replies before are within the high     *)
(* water mark; the reply that exceeds it is the last before it waits.      *)
BacklogInv ==
  /\ unsent \in Nat
  /\ unsent <= HighWater + 1
  /\ pc \notin {"drain", "refused", "closed"} => unsent <= HighWater

(* A step of the client takes replies and adds none.                       *)
LEMMA ClientBounded ==
  ASSUME BacklogInv, Deliver \/ HangUp \/ Reset \/ TakeReply
  PROVE  BacklogInv'
<1>1. pc' = pc
  BY DEF Deliver, HangUp, Reset, TakeReply
<1>2. unsent' \in Nat /\ unsent' <= unsent
  BY DEF Deliver, HangUp, Reset, TakeReply, BacklogInv
<1> QED
  BY <1>1, <1>2, ConnectionAssumption DEF BacklogInv, ConnectionAssumption

(* The end of a session adds an error reply at most.                       *)
LEMMA CloseBounded ==
  ASSUME BacklogInv, pc \notin {"drain", "refused", "closed"}, Refuse \/ Crash
  PROVE  BacklogInv'
<1>1. pc' \in {"refused", "closed"} /\ unsent' \in {unsent, unsent + 1}
  BY DEF Refuse, Crash, Close
<1> QED
  BY <1>1, ConnectionAssumption DEF BacklogInv, ConnectionAssumption

(* Reading goes on without a reply.                                        *)
LEMMA ReadBounded ==
  ASSUME BacklogInv, ReadHeader \/ ReadBulkHeader \/ ReadBody
  PROVE  BacklogInv'
<1>1. pc \in {"header", "bulk", "body"}
  BY DEF ReadHeader, ReadBulkHeader, ReadBody
<1>2. CASE Refuse \/ Crash
  BY <1>1, <1>2, CloseBounded
<1>3. CASE unsent' = unsent
  BY <1>1, <1>3, ConnectionAssumption DEF BacklogInv, ConnectionAssumption
<1>4. Refuse \/ Crash \/ unsent' = unsent
  BY DEF ReadHeader, ReadBulkHeader, ReadBody, Continue
<1> QED
  BY <1>2, <1>3, <1>4

(* Each step of the reader, the reply of Respond included.                 *)
LEMMA ReaderBounded ==
  ASSUME BacklogInv, Reader
  PROVE  BacklogInv'
<1> USE ConnectionAssumption DEF ConnectionAssumption
<1>1. CASE Gone \/ EndOfStream \/ RefusalDrained
  <2>1. pc' = "closed" /\ unsent' = unsent
    BY <1>1 DEF Gone, EndOfStream, RefusalDrained, Close
  <2> QED
    BY <2>1 DEF BacklogInv
<1>2. CASE Overlong
  BY <1>2, CloseBounded DEF Overlong
<1>3. CASE ReadHeader \/ ReadBulkHeader \/ ReadBody
  BY <1>3, ReadBounded
<1>4. CASE Respond
  <2>1. unsent \in Nat /\ unsent <= HighWater /\ unsent' = unsent + 1
    BY <1>4 DEF Respond, Dispatch, BacklogInv
  <2>2. pc' = IF peer = "reset" \/ unsent + 1 > HighWater THEN "drain" ELSE "header"
    BY <1>4 DEF Respond, Dispatch
  <2> QED
    BY <2>1, <2>2 DEF BacklogInv
<1>5. CASE Drained
  <2>1. unsent <= LowWater /\ unsent' = unsent
    BY <1>5 DEF Drained, Continue
  <2> QED
    BY <2>1 DEF BacklogInv
<1> QED
  BY <1>1, <1>2, <1>3, <1>4, <1>5 DEF Reader

(* A client that pipelines and never reads costs the server one reply over *)
(* the high water mark at most (connection.py:59).                         *)
THEOREM BacklogStaysBounded == Spec => []BacklogBounded
<1>1. Init => BacklogInv
  BY ConnectionAssumption DEF Init, BacklogInv, ConnectionAssumption
<1>2. BacklogInv /\ [Next]_vars => BacklogInv'
  <2> SUFFICES ASSUME BacklogInv, [Next]_vars
               PROVE  BacklogInv'
    OBVIOUS
  <2>1. CASE Done \/ UNCHANGED vars
    BY <2>1 DEF Done, vars, BacklogInv
  <2> QED
    BY <2>1, ClientBounded, ReaderBounded DEF Next
<1>3. BacklogInv => BacklogBounded
  BY DEF BacklogInv, BacklogBounded
<1> QED
  BY <1>1, <1>2, <1>3, PTL DEF Spec

-----------------------------------------------------------------------------
(* What the reader finds in its buffer.                                    *)

Positions ==
  stream \in Seq(Byte) /\ arrived \in 0 .. Len(stream) /\ consumed \in 0 .. arrived

LEMMA BufferFacts ==
  ASSUME Positions
  PROVE  /\ Len(Buffered) = arrived - consumed /\ Len(Buffered) \in Nat
         /\ Buffered \in Seq(Byte)
         /\ \A i \in 1 .. Len(Buffered) : Buffered[i] = stream[consumed + i]
         /\ arrived \in Nat /\ consumed \in Nat /\ consumed <= arrived
<1>1. Len(stream) \in Nat /\ arrived \in Nat /\ consumed \in Nat /\ consumed <= arrived
      /\ arrived <= Len(stream)
  BY LenProperties DEF Positions
<1>2. \A i \in consumed + 1 .. arrived : stream[i] \in Byte
  <2> SUFFICES ASSUME NEW i \in consumed + 1 .. arrived PROVE stream[i] \in Byte
    OBVIOUS
  <2>1. i \in 1 .. Len(stream)
    BY <1>1
  <2> QED BY <2>1, ElementOfSeq DEF Positions
<1>3. consumed + 1 \in Int /\ arrived \in Int /\ arrived - (consumed + 1) + 1 = arrived - consumed
      /\ \A i \in 1 .. arrived - consumed : consumed + 1 + i - 1 = consumed + i
  BY <1>1
<1>4. /\ Buffered \in Seq(Byte)
      /\ Len(Buffered) = IF consumed + 1 <= arrived THEN arrived - (consumed + 1) + 1 ELSE 0
      /\ \A i \in 1 .. arrived - (consumed + 1) + 1 : Buffered[i] = stream[consumed + 1 + i - 1]
  BY <1>2, <1>3, SubSeqProperties DEF Buffered
<1>5. Len(Buffered) = arrived - consumed
  BY <1>1, <1>4
<1> QED BY <1>1, <1>3, <1>4, <1>5

LEMMA BufferShows ==
  ASSUME Positions, NEW b \in Seq(Byte), NEW d \in Nat, Shows(stream, consumed + 1 + d, b)
  PROVE  Shows(Buffered, 1 + d, b)
<1> SUFFICES ASSUME NEW i \in 1 .. Len(b), 1 + d + i - 1 <= Len(Buffered)
             PROVE  Buffered[1 + d + i - 1] = b[i]
  BY DEF Shows
<1>0. Len(b) \in Nat /\ Len(stream) \in Nat /\ stream \in Seq(Byte)
  BY LenProperties DEF Positions
<1>1. arrived <= Len(stream)
  BY <1>0 DEF Positions
<1> DEFINE m == Len(Buffered)
           s == Len(stream)
           lb == Len(b)
<1>4. m = arrived - consumed /\ m \in Nat /\ arrived \in Nat /\ consumed \in Nat
      /\ s \in Nat /\ lb \in Nat /\ arrived <= s /\ i \in 1 .. lb /\ 1 + d + i - 1 <= m
  BY <1>0, <1>1, BufferFacts
<1> HIDE DEF m, s, lb
<1>5. /\ 1 + d + i - 1 \in 1 .. m /\ 1 + d + i - 1 = d + i
      /\ consumed + 1 + d + i - 1 = consumed + (d + i)
      /\ consumed + 1 + d + i - 1 <= s
  BY <1>4
<1>2. /\ 1 + d + i - 1 \in 1 .. Len(Buffered) /\ 1 + d + i - 1 = d + i
      /\ consumed + 1 + d + i - 1 = consumed + (d + i)
      /\ consumed + 1 + d + i - 1 <= Len(stream)
  BY <1>5 DEF m, s
<1>3. stream[consumed + 1 + d + i - 1] = b[i]
  BY <1>2 DEF Shows
<1> QED BY <1>2, <1>3, BufferFacts

(* An accepted line: where it ends, and its length.                        *)
LEMMA AcceptedFacts ==
  ASSUME NEW marker, NEW b \in Seq(Byte), Accepted(marker, b)
  PROVE  /\ LineEnd(b, 1) \in 1 .. Len(b) - 1 /\ Len(b) \in Nat
         /\ LineOf(b) \in Seq(Byte) /\ Len(LineOf(b)) = LineEnd(b, 1) - 1
         /\ SizeOf(b) \in Int
         /\ LineEnd(b, 1) - 1 <= LineLimit
         /\ marker # "*" => SizeOf(b) \in Nat
<1>1. Len(b) \in Nat
  BY LenProperties
<1>2. LineEnd(b, 1) \in 1 .. Len(b) - 1
  BY <1>1, LineEndFound DEF Accepted
<1>3. LineOf(b) \in Seq(Byte) /\ Len(LineOf(b)) = LineEnd(b, 1) - 1
  <2>1. \A i \in 1 .. LineEnd(b, 1) - 1 : b[i] \in Byte
    <3> SUFFICES ASSUME NEW i \in 1 .. LineEnd(b, 1) - 1 PROVE b[i] \in Byte
      OBVIOUS
    <3>1. i \in 1 .. Len(b)
      BY <1>1, <1>2
    <3> QED BY <3>1, ElementOfSeq
  <2>2. 1 \in Int /\ LineEnd(b, 1) - 1 \in Int
        /\ (IF 1 <= LineEnd(b, 1) - 1 THEN LineEnd(b, 1) - 1 - 1 + 1 ELSE 0)
             = LineEnd(b, 1) - 1
    BY <1>2
  <2>3. /\ SubSeq(b, 1, LineEnd(b, 1) - 1) \in Seq(Byte)
        /\ Len(SubSeq(b, 1, LineEnd(b, 1) - 1))
             = IF 1 <= LineEnd(b, 1) - 1 THEN LineEnd(b, 1) - 1 - 1 + 1 ELSE 0
    BY <2>1, <2>2, SubSeqProperties
  <2> QED BY <2>2, <2>3 DEF LineOf
<1>4. SizeOf(b) \in Int
  <2>1. LineOf(b) # <<>> /\ IsLength(Tail(LineOf(b)))
    BY DEF Accepted, LengthLine
  <2>2. Tail(LineOf(b)) \in Seq(Byte)
    BY <1>3, <2>1, HeadTailProperties
  <2> QED BY <2>1, <2>2, LengthType DEF SizeOf
<1>5. LineEnd(b, 1) - 1 <= LineLimit
  BY <1>3 DEF Accepted
<1>6. marker # "*" => SizeOf(b) \in Nat
  BY ConnectionAssumption DEF Accepted, ConnectionAssumption
<1> QED BY <1>1, <1>2, <1>3, <1>4, <1>5, <1>6

(* It is the line the reader finds once it has arrived, and is not taken   *)
(* for too long before.                                                    *)
LEMMA GoodLine ==
  ASSUME Positions, NEW marker, NEW b \in Seq(Byte), Shows(stream, consumed + 1, b),
         Accepted(marker, b)
  PROVE  /\ ~LimitOverrun
         /\ LineReady <=> consumed + LineEnd(b, 1) + 1 <= arrived
         /\ LineReady => Line = LineOf(b)
<1> DEFINE e == LineEnd(b, 1)
           l == LineEnd(Buffered, 1)
<1>1. e \in 1 .. Len(b) - 1 /\ Len(b) \in Nat /\ Len(LineOf(b)) = e - 1 /\ e - 1 <= LineLimit
      /\ LineLimit \in Nat
  BY AcceptedFacts, ConnectionAssumption DEF ConnectionAssumption
<1>2. Len(Buffered) = arrived - consumed /\ Len(Buffered) \in Nat
      /\ arrived \in Nat /\ consumed \in Nat
  BY BufferFacts
<1>3. Shows(Buffered, 1, b)
  <2>1. consumed + 1 + 0 = consumed + 1 /\ 1 + 0 = 1
    BY <1>2
  <2> QED BY <2>1, BufferShows
<1>9. e # 0 => /\ l = IF 1 + e <= Len(Buffered) THEN 1 + e - 1 ELSE 0
               /\ 1 + e <= Len(Buffered) =>
                    SubSeq(Buffered, 1, 1 + e - 2) = SubSeq(b, 1, e - 1)
  <2>1. 1 \in Nat \ {0}
    OBVIOUS
  <2> QED BY <1>2, <1>3, <2>1, LineShown
<1>4. /\ l = IF 1 + e <= Len(Buffered) THEN 1 + e - 1 ELSE 0
      /\ 1 + e <= Len(Buffered) => SubSeq(Buffered, 1, 1 + e - 2) = SubSeq(b, 1, e - 1)
  <2>1. e # 0
    BY <1>1
  <2> QED BY <1>9, <2>1
<1>5. LineReady <=> l # 0
  BY DEF LineReady
<1>6. LineReady => Line = LineOf(b)
  <2> SUFFICES ASSUME LineReady PROVE Line = LineOf(b)
    OBVIOUS
  <2>1. l = e /\ 1 + e <= Len(Buffered) /\ 1 + e - 2 = e - 1
    BY <1>1, <1>4, <1>5
  <2> QED BY <1>4, <2>1 DEF Line, LineOf
<1> HIDE DEF e, l
<1>7. LineReady <=> consumed + e + 1 <= arrived
  BY <1>1, <1>2, <1>4, <1>5
<1>8. ~LimitOverrun
  <2>1. CASE LineReady
    BY <1>1, <1>6, <2>1 DEF LimitOverrun
  <2>2. CASE ~LineReady
    <3>1. Len(Buffered) - 1 <= LineLimit
      BY <1>1, <1>2, <1>7, <2>2
    <3> QED BY <1>1, <1>2, <2>2, <3>1 DEF LimitOverrun
  <2> QED BY <2>1, <2>2
<1> QED BY <1>6, <1>7, <1>8 DEF e

(* Any other line is found too, or found too long.                         *)
LEMMA BadLineFound ==
  ASSUME Positions, NEW marker, NEW b \in Seq(Byte), Shows(stream, consumed + 1, b),
         BadLine(marker, b), LineReady, ~LimitOverrun
  PROVE  /\ Line = LineOf(b)
         /\ LengthLine(marker, Line) /\ ~TooManyDigits(Tail(Line)) =>
              IF marker = "*" THEN ~(LengthOf(Tail(Line)) <= MAX_MULTIBULK_LENGTH)
                              ELSE LengthOf(Tail(Line)) \notin 0 .. MAX_BULK_LENGTH
<1> DEFINE e == LineEnd(b, 1)
           l == LineEnd(Buffered, 1)
<1>1. Len(b) \in Nat /\ e \in Nat /\ LineLimit \in Nat
  BY LenProperties, LineEndFound, ConnectionAssumption DEF ConnectionAssumption
<1>2. Len(Buffered) = arrived - consumed /\ Len(Buffered) \in Nat
      /\ arrived \in Nat /\ consumed \in Nat
  BY BufferFacts
<1>3. Shows(Buffered, 1, b)
  <2>1. consumed + 1 + 0 = consumed + 1 /\ 1 + 0 = 1
    BY <1>2
  <2> QED BY <2>1, BufferShows
<1>4. /\ e # 0 => /\ l = IF 1 + e <= Len(Buffered) THEN 1 + e - 1 ELSE 0
                  /\ 1 + e <= Len(Buffered) =>
                       SubSeq(Buffered, 1, 1 + e - 2) = SubSeq(b, 1, e - 1)
      /\ e = 0 => l = 0 \/ l >= 1 + Len(b) - 1
  BY <1>1, <1>2, <1>3, LineShown
<1>5. l # 0 /\ l \in 1 .. Len(Buffered) - 1
  BY <1>2, LineEndFound DEF LineReady
<1>6. Len(Line) = l - 1 /\ Len(Line) <= LineLimit
  <2>1. \A i \in 1 .. l - 1 : Buffered[i] \in Byte
    <3> SUFFICES ASSUME NEW i \in 1 .. l - 1 PROVE Buffered[i] \in Byte
      OBVIOUS
    <3>1. i \in 1 .. Len(Buffered)
      BY <1>2, <1>5
    <3> QED BY <3>1, BufferFacts, ElementOfSeq
  <2>2. Len(Line) = IF 1 <= l - 1 THEN l - 1 - 1 + 1 ELSE 0
    BY <1>5, <2>1, SubSeqProperties DEF Line
  <2>3. Len(Line) = l - 1
    BY <1>5, <2>2
  <2>4. ~(Len(Line) > LineLimit)
    BY DEF LimitOverrun
  <2> QED BY <1>1, <1>5, <2>3, <2>4
<1>7. e # 0
  <2> SUFFICES ASSUME e = 0 PROVE FALSE
    OBVIOUS
  <2>1. Len(b) - 1 > LineLimit
    BY DEF BadLine
  <2> HIDE DEF e, l
  <2> QED BY <1>1, <1>4, <1>5, <1>6, <2>1
<1>8. Line = LineOf(b)
  <2>1. l = e /\ 1 + e <= Len(Buffered) /\ 1 + e - 2 = e - 1
    BY <1>1, <1>2, <1>4, <1>5, <1>7
  <2> QED BY <1>4, <1>7, <2>1 DEF Line, LineOf
<1>9. ~Accepted(marker, b)
  BY DEF BadLine
<1> QED BY <1>6, <1>7, <1>8, <1>9 DEF Accepted, SizeOf

-----------------------------------------------------------------------------
(* Where the reader is in what the client sends.                           *)

(* The bytes before the n + 1st frame, and what the first n ask for.       *)
Start(n) == Len(Joined(Frames, n))

Asked(n) == Joined(Requests, n)

(* What read_command reads after i bulk strings of f.                      *)
NextPart(f, i) == IF i < Len(f.bulks) THEN f.bulks[i + 1].head ELSE f.rest

(* It is within f, which follows n frames, and has i of its arguments.     *)
Within(f, i) ==
  /\ f.head # <<>> /\ i <= Len(f.bulks)
  /\ args = [j \in 1 .. i |-> f.bulks[j].payload]
  /\ left = SizeOf(f.head) - i /\ left > 0

(* It has dispatched what the first n frames ask for, and read that far.   *)
Reached(n) ==
  /\ \A i \in 1 .. n : script[i].rest = <<>>
  /\ served = Asked(n) /\ Start(n) <= arrived
  /\ pc \in {"header", "drain"} => consumed = Start(n) /\ args = <<>>
  /\ pc \in {"bulk", "body", "request"} => n < Len(script)
  /\ pc = "bulk" =>
       \E i \in Nat : /\ Within(script[n + 1], i)
                      /\ consumed = Start(n) + Offset(script[n + 1], i)
  /\ pc = "body" =>
       \E i \in Nat :
         LET b == NextPart(script[n + 1], i)
         IN  /\ Within(script[n + 1], i) /\ Accepted("$", b)
             /\ consumed = Start(n) + Offset(script[n + 1], i) + LineEnd(b, 1) + 1
             /\ length = SizeOf(b)
  /\ pc = "request" => /\ script[n + 1].rest = <<>> /\ script[n + 1].bulks # <<>>
                       /\ args = Arguments(script[n + 1])
                       /\ consumed = Start(n + 1)
  /\ pc \in {"refused", "closed"} =>
       \/ peer = "reset" \/ n = Len(script) \/ script[n + 1].rest # <<>>
       \/ peer = "eof" /\ Start(n + 1) > arrived

SessionInv ==
  /\ script \in Scripts /\ stream = FlattenSeq(Frames) /\ Positions
  /\ pc \in {"header", "bulk", "body", "request", "drain", "refused", "closed"}
  /\ peer \in {"open", "eof", "reset"}
  /\ \E n \in 0 .. Len(script) : Reached(n)

LEMMA ScriptFacts ==
  ASSUME script \in Scripts
  PROVE  /\ Len(script) \in Nat /\ DOMAIN script = 1 .. Len(script)
         /\ \A i \in 1 .. Len(script) : script[i] \in ClientFrame /\ IsFrame(script[i])
         /\ Frames \in Seq(Seq(Byte)) /\ Len(Frames) = Len(script)
         /\ \A i \in 1 .. Len(script) : Frames[i] = Bytes(script[i])
<1>1. script \in Seq(ClientFrame) /\ \A i \in DOMAIN script : IsFrame(script[i])
  BY ScriptAssumption DEF ScriptAssumption, ClientFrame, Bulks
<1>2. Len(script) \in Nat /\ DOMAIN script = 1 .. Len(script)
  BY <1>1, LenProperties
<1>3. \A i \in 1 .. Len(script) : script[i] \in ClientFrame
  BY <1>1, ElementOfSeq
<1>4. \A i \in 1 .. Len(script) : Bytes(script[i]) \in Seq(Byte)
  BY <1>3, OffsetFacts
<1>5. Frames = [i \in 1 .. Len(script) |-> Bytes(script[i])]
  BY <1>2 DEF Frames
<1>6. Frames \in Seq(Seq(Byte)) /\ Len(Frames) = Len(script)
  BY <1>2, <1>4, <1>5
<1> QED BY <1>1, <1>2, <1>3, <1>5, <1>6

(* The stream is the frames, one after another.                            *)
LEMMA StartFacts ==
  ASSUME script \in Scripts, stream = FlattenSeq(Frames)
  PROVE  /\ Start(0) = 0 /\ Start(Len(script)) = Len(stream)
         /\ stream \in Seq(Byte) /\ Len(stream) \in Nat
         /\ \A n \in 0 .. Len(script) : Start(n) \in Nat
         /\ \A n \in 0 .. Len(script) : \A m \in n .. Len(script) : Start(n) <= Start(m)
         /\ \A n \in 0 .. Len(script) :
              n < Len(script) =>
                /\ n + 1 \in 1 .. Len(script)
                /\ Start(n + 1) = Start(n) + Len(Bytes(script[n + 1]))
                /\ Shows(stream, Start(n) + 1, Bytes(script[n + 1]))
<1>1. Frames \in Seq(Seq(Byte)) /\ Len(Frames) = Len(script) /\ Len(script) \in Nat
      /\ \A i \in 1 .. Len(script) : Frames[i] = Bytes(script[i])
  BY ScriptFacts
<1>2. /\ Start(0) = 0 /\ Start(Len(script)) = Len(stream) /\ stream \in Seq(Byte)
      /\ \A n \in 0 .. Len(script) : Start(n) \in Nat
      /\ \A n \in 1 .. Len(script) : Start(n) = Start(n - 1) + Len(Frames[n])
  BY <1>1, ByteJoined DEF Start
<1>3. Len(stream) \in Nat
  BY <1>2, LenProperties
<1>4. \A n \in 0 .. Len(script) : \A m \in n .. Len(script) : Start(n) <= Start(m)
  BY <1>1, JoinedGrows DEF Start
<1>5. ASSUME NEW n \in 0 .. Len(script), n < Len(script)
      PROVE  /\ n + 1 \in 1 .. Len(script)
             /\ Start(n + 1) = Start(n) + Len(Bytes(script[n + 1]))
             /\ Shows(stream, Start(n) + 1, Bytes(script[n + 1]))
  <2>1. n + 1 \in 1 .. Len(script) /\ (n + 1) - 1 = n
    BY <1>1, <1>5
  <2>2. Start(n + 1) = Start(n) + Len(Bytes(script[n + 1]))
    BY <1>1, <1>2, <2>1
  <2>3. Shows(stream, 1, FlattenSeq(Frames))
    <3>1. \A i \in 1 .. Len(stream) : 1 + i - 1 = i
      BY <1>3
    <3> QED BY <3>1 DEF Shows
  <2>4. Shows(stream, 1 + Len(Joined(Frames, n)), Frames[n + 1])
    <3>1. 1 \in Nat /\ n + 1 \in 1 .. Len(Frames)
      BY <1>1, <2>1
    <3>2. Shows(stream, 1 + Len(Joined(Frames, (n + 1) - 1)), Frames[n + 1])
      BY <1>1, <1>3, <2>3, <3>1, ShowsPiece
    <3> QED BY <2>1, <3>2
  <2>5. 1 + Start(n) = Start(n) + 1
    BY <1>2
  <2> QED BY <1>1, <2>1, <2>2, <2>4, <2>5 DEF Start
<1> QED BY <1>2, <1>3, <1>4, <1>5

(* What it shows where the reader stands within a frame.                   *)
LEMMA StreamShows ==
  ASSUME script \in Scripts, stream = FlattenSeq(Frames),
         NEW n \in 0 .. Len(script), n < Len(script), NEW f, f = script[n + 1]
  PROVE  /\ f \in ClientFrame /\ IsFrame(f)
         /\ Start(n) \in Nat /\ Start(n + 1) = Start(n) + Offset(f, Len(f.bulks)) + Len(f.rest)
         /\ Shows(stream, Start(n) + 1, f.head)
         /\ \A i \in 1 .. Len(f.bulks) :
              Shows(stream, Start(n) + 1 + Offset(f, i - 1) + Len(f.bulks[i].head),
                    f.bulks[i].payload \o CRLF)
         /\ \A i \in 0 .. Len(f.bulks) :
              /\ Shows(stream, Start(n) + 1 + Offset(f, i), NextPart(f, i))
              /\ NextPart(f, i) \in Seq(Byte)
<1>1. /\ Start(n) \in Nat /\ Start(n) + 1 \in Nat /\ Len(stream) \in Nat
      /\ n + 1 \in 1 .. Len(script)
      /\ Start(n + 1) = Start(n) + Len(Bytes(f)) /\ Shows(stream, Start(n) + 1, Bytes(f))
  BY StartFacts
<1>2. f \in ClientFrame /\ IsFrame(f)
  BY <1>1, ScriptFacts
<1>3. Start(n + 1) = Start(n) + Offset(f, Len(f.bulks)) + Len(f.rest)
  <2>1. Len(Bytes(f)) = Offset(f, Len(f.bulks)) + Len(f.rest) /\ Len(f.rest) \in Nat
    BY <1>2, OffsetFacts
  <2>2. Offset(f, Len(f.bulks)) \in Nat
    <3>1. Len(f.bulks) \in 0 .. Len(f.bulks)
      BY <1>2, PieceFacts
    <3> QED BY <1>2, <3>1, OffsetFacts
  <2>3. \A a, b, c \in Nat : a + (b + c) = a + b + c
    OBVIOUS
  <2> QED BY <1>1, <2>1, <2>2, <2>3
<1>4. /\ Shows(stream, Start(n) + 1, f.head)
      /\ \A i \in 1 .. Len(f.bulks) :
           /\ Shows(stream, Start(n) + 1 + Offset(f, i - 1), f.bulks[i].head)
           /\ Shows(stream, Start(n) + 1 + Offset(f, i - 1) + Len(f.bulks[i].head),
                    f.bulks[i].payload \o CRLF)
      /\ Shows(stream, Start(n) + 1 + Offset(f, Len(f.bulks)), f.rest)
  BY <1>1, <1>2, FrameShown
<1>5. ASSUME NEW i \in 0 .. Len(f.bulks)
      PROVE  /\ Shows(stream, Start(n) + 1 + Offset(f, i), NextPart(f, i))
             /\ NextPart(f, i) \in Seq(Byte)
  <2>1. Len(f.bulks) \in Nat /\ f.rest \in Seq(Byte)
    BY <1>2, PieceFacts
  <2>2. CASE i < Len(f.bulks)
    <3>1. i + 1 \in 1 .. Len(f.bulks) /\ (i + 1) - 1 = i
      BY <2>1, <2>2
    <3>2. f.bulks[i + 1].head \in Seq(Byte)
      BY <1>2, <3>1, PieceFacts, BulkFacts
    <3>3. NextPart(f, i) = f.bulks[i + 1].head
      BY <2>2 DEF NextPart
    <3>4. Shows(stream, Start(n) + 1 + Offset(f, (i + 1) - 1), f.bulks[i + 1].head)
      BY <1>4, <3>1
    <3> QED BY <3>1, <3>2, <3>3, <3>4
  <2>3. CASE ~(i < Len(f.bulks))
    <3>1. i = Len(f.bulks)
      BY <2>1, <2>3
    <3> QED BY <1>4, <2>1, <2>3, <3>1 DEF NextPart
  <2> QED BY <2>2, <2>3
<1> QED BY <1>1, <1>2, <1>3, <1>4, <1>5

(* What is asked for, frame by frame.                                      *)
LEMMA AskedFacts ==
  ASSUME script \in Scripts
  PROVE  /\ Asked(0) = <<>>
         /\ \A n \in 0 .. Len(script) :
              n < Len(script) =>
                /\ script[n + 1].bulks = <<>> => Asked(n + 1) = Asked(n)
                /\ script[n + 1].bulks # <<>> =>
                     Asked(n + 1) = Append(Asked(n), Arguments(script[n + 1]))
         /\ \A n \in 0 .. Len(script) : \A m \in n .. Len(script) :
              IsPrefix(Asked(n), Asked(m))
<1> DEFINE R == Seq(Seq(Byte))
<1>1. Len(script) \in Nat /\ DOMAIN script = 1 .. Len(script)
      /\ \A i \in 1 .. Len(script) : script[i] \in ClientFrame
  BY ScriptFacts
<1>2. ASSUME NEW i \in 1 .. Len(script)
      PROVE  Arguments(script[i]) \in R
  <2> DEFINE f == script[i]
  <2>1. f \in ClientFrame
    BY <1>1
  <2>2. DOMAIN f.bulks = 1 .. Len(f.bulks) /\ Len(f.bulks) \in Nat
        /\ \A j \in 1 .. Len(f.bulks) : f.bulks[j].payload \in Seq(Byte)
    BY <2>1, PieceFacts, BulkFacts
  <2> QED BY <2>2 DEF Arguments
<1>3. Requests = [i \in 1 .. Len(script) |->
                    IF script[i].bulks = <<>> THEN <<>> ELSE <<Arguments(script[i])>>]
  BY <1>1 DEF Requests
<1>4. Requests \in Seq(Seq(R)) /\ Len(Requests) = Len(script)
  <2> HIDE DEF R
  <2>1. \A i \in 1 .. Len(script) :
          (IF script[i].bulks = <<>> THEN <<>> ELSE <<Arguments(script[i])>>) \in Seq(R)
    BY <1>2
  <2> QED BY <1>1, <1>3, <2>1
<1> HIDE DEF R
<1>5. Asked(0) = <<>>
  BY <1>4, JoinedSteps DEF Asked
<1>6. ASSUME NEW n \in 0 .. Len(script), n < Len(script)
      PROVE  /\ script[n + 1].bulks = <<>> => Asked(n + 1) = Asked(n)
             /\ script[n + 1].bulks # <<>> =>
                  Asked(n + 1) = Append(Asked(n), Arguments(script[n + 1]))
  <2>1. n + 1 \in 1 .. Len(script) /\ (n + 1) - 1 = n
    BY <1>1, <1>6
  <2>2. Joined(Requests, n) \in Seq(R)
    BY <1>4, JoinedSteps
  <2>3. Joined(Requests, n + 1) = Joined(Requests, n) \o Requests[n + 1]
    <3>1. Joined(Requests, n + 1) = Joined(Requests, (n + 1) - 1) \o Requests[n + 1]
      BY <1>4, <2>1, JoinedSteps
    <3> QED BY <2>1, <3>1
  <2>4. Requests[n + 1] = IF script[n + 1].bulks = <<>> THEN <<>>
                          ELSE <<Arguments(script[n + 1])>>
    BY <1>3, <2>1
  <2>5. Joined(Requests, n) \o <<>> = Joined(Requests, n)
    BY <2>2, ConcatEmptySeq
  <2>6. Arguments(script[n + 1]) \in R
    BY <1>2, <2>1
  <2>7. Append(Joined(Requests, n), Arguments(script[n + 1]))
          = Joined(Requests, n) \o <<Arguments(script[n + 1])>>
    BY <2>2, <2>6, AppendIsConcat
  <2> QED BY <2>3, <2>4, <2>5, <2>7 DEF Asked
<1>7. \A n \in 0 .. Len(script) : \A m \in n .. Len(script) :
        IsPrefix(Asked(n), Asked(m))
  BY <1>4, JoinedPrefix DEF Asked
<1> QED BY <1>5, <1>6, <1>7

-----------------------------------------------------------------------------
(* The steps.                                                              *)

LEMMA ScriptStays ==
  ASSUME script' = script
  PROVE  /\ Frames' = Frames
         /\ \A n : Start(n)' = Start(n) /\ Asked(n)' = Asked(n)
<1>1. Frames' = Frames /\ Requests' = Requests
  BY DEF Frames, Requests
<1> QED BY <1>1 DEF Start, Asked

(* The client does not move the reader; and once the session is closed, no *)
(* byte arrives from a client that has hung up.                            *)
LEMMA ClientKeepsPlace ==
  ASSUME SessionInv, Deliver \/ HangUp \/ Reset \/ TakeReply
  PROVE  SessionInv'
<1> USE DEF Deliver, HangUp, Reset, TakeReply
<1>1. UNCHANGED <<script, stream, pc, consumed, left, length, args, served>>
  BY DEF reading
<1>2. Frames' = Frames /\ \A n : Start(n)' = Start(n) /\ Asked(n)' = Asked(n)
  BY <1>1, ScriptStays
<1>3. /\ stream \in Seq(Byte) /\ Len(stream) \in Nat /\ arrived \in Nat /\ consumed \in Nat
      /\ arrived <= Len(stream) /\ consumed <= arrived
  BY LenProperties DEF SessionInv, Positions
<1>4. arrived' \in Nat /\ arrived <= arrived' /\ arrived' <= Len(stream)
      /\ (arrived' = arrived \/ peer = "open")
  BY <1>3
<1>5. Positions'
  BY <1>1, <1>3, <1>4 DEF Positions
<1>6. peer' \in {"open", "eof", "reset"} /\ (peer = "reset" => peer' = "reset")
      /\ (peer = "eof" => peer' \in {"eof", "reset"})
  BY DEF SessionInv
<1>7. PICK n \in 0 .. Len(script) : Reached(n)
  BY DEF SessionInv
<1>8. Start(n) \in Nat /\ (n < Len(script) => Start(n + 1) \in Nat)
  <2>1. \A m \in 0 .. Len(script) : Start(m) \in Nat
    BY StartFacts DEF SessionInv
  <2>2. Len(script) \in Nat
    BY ScriptFacts DEF SessionInv
  <2>3. n < Len(script) => n + 1 \in 0 .. Len(script)
    BY <2>2
  <2> QED BY <2>1, <2>3
<1>9. Reached(n)'
  <2>1. Start(n)' <= arrived'
    BY <1>2, <1>3, <1>4, <1>7, <1>8 DEF Reached
  <2>2. pc' \in {"refused", "closed"} =>
          \/ peer' = "reset" \/ n = Len(script) \/ script[n + 1].rest # <<>>
          \/ peer' = "eof" /\ Start(n + 1) > arrived'
    BY <1>1, <1>4, <1>6, <1>7 DEF Reached
  <2> QED BY <1>1, <1>2, <1>7, <2>1, <2>2 DEF Reached, Within
<1> QED BY <1>1, <1>2, <1>5, <1>6, <1>9 DEF SessionInv

(* The places of a session, and their bounds.                              *)
LEMMA PlaceFacts ==
  ASSUME SessionInv
  PROVE  /\ script \in Scripts /\ stream = FlattenSeq(Frames) /\ Positions
         /\ Len(script) \in Nat
         /\ stream \in Seq(Byte) /\ Len(stream) \in Nat
         /\ arrived \in Nat /\ consumed \in Nat
         /\ arrived <= Len(stream) /\ consumed <= arrived
         /\ Len(Buffered) = arrived - consumed /\ Len(Buffered) \in Nat
         /\ \A n \in 0 .. Len(script) : Start(n) \in Nat
         /\ Start(Len(script)) = Len(stream)
<1>1. script \in Scripts /\ stream = FlattenSeq(Frames) /\ Positions
  BY DEF SessionInv
<1>2. stream \in Seq(Byte) /\ Len(stream) \in Nat /\ Len(script) \in Nat
  BY <1>1, StartFacts, ScriptFacts
<1>3. arrived \in Nat /\ consumed \in Nat /\ arrived <= Len(stream) /\ consumed <= arrived
  BY <1>1, <1>2 DEF Positions
<1> QED BY <1>1, <1>2, <1>3, StartFacts, BufferFacts

(* Closing is right at a bad frame, or at the end of what will arrive.     *)
LEMMA CloseKeepsPlace ==
  ASSUME SessionInv, NEW n \in 0 .. Len(script), Reached(n), pc' \in {"refused", "closed"},
         UNCHANGED <<Client, reading, served>>,
         \/ peer = "reset" \/ n = Len(script) \/ script[n + 1].rest # <<>>
         \/ peer = "eof" /\ Start(n + 1) > arrived
  PROVE  SessionInv'
<1>1. UNCHANGED <<script, stream, arrived, peer, consumed, left, length, args, served>>
  BY DEF Client, reading
<1>2. Frames' = Frames /\ \A m : Start(m)' = Start(m) /\ Asked(m)' = Asked(m)
  BY <1>1, ScriptStays
<1>3. Reached(n)'
  BY <1>1, <1>2 DEF Reached
<1>4. Positions'
  BY <1>1, PlaceFacts DEF Positions
<1> QED BY <1>1, <1>2, <1>3, <1>4 DEF SessionInv

(* Nothing follows the last frame.                                         *)
LEMMA NothingFollows ==
  ASSUME SessionInv, NEW n \in 0 .. Len(script), Reached(n), pc = "header", n = Len(script)
  PROVE  ~LineReady /\ ~LimitOverrun
<1>1. Len(Buffered) = 0
  BY PlaceFacts DEF Reached
<1>2. ~LineReady
  <2>1. Len(Buffered) \in Nat /\ 1 \in Nat \ {0}
    BY <1>1
  <2>2. \A i \in 1 .. Len(Buffered) - 1 : ~Breaks(Buffered, i)
    BY <1>1
  <2> QED BY <2>1, <2>2, NoLineEnd DEF LineReady
<1>3. LineLimit \in Nat
  BY ConnectionAssumption DEF ConnectionAssumption
<1> QED BY <1>1, <1>2, <1>3 DEF LimitOverrun

LEMMA NoBytesNotBad == \A marker : ~BadLine(marker, <<>>)
<1> SUFFICES ASSUME NEW marker, BadLine(marker, <<>>) PROVE FALSE
  OBVIOUS
<1>1. Len(<<>>) = 0
  OBVIOUS
<1>2. LineEnd(<<>>, 1) = 0
  <2>1. \A i \in 1 .. Len(<<>>) - 1 : ~Breaks(<<>>, i)
    BY <1>1
  <2>2. Len(<<>>) \in Nat /\ 1 \in Nat \ {0}
    BY <1>1
  <2> QED BY <2>1, <2>2, NoLineEnd
<1>3. 0 - 1 > LineLimit
  BY <1>1, <1>2 DEF BadLine
<1> QED BY <1>3, ConnectionAssumption DEF ConnectionAssumption

(* At the header of the next frame, ...                                    *)
LEMMA AtHeader ==
  ASSUME SessionInv, NEW n \in 0 .. Len(script), Reached(n), pc = "header",
         n < Len(script), NEW f, f = script[n + 1]
  PROVE  /\ f \in ClientFrame /\ IsFrame(f)
         /\ f.head = <<>> => /\ Shows(stream, consumed + 1, f.rest)
                             /\ BadLine("*", f.rest) /\ f.rest # <<>>
         /\ f.head # <<>> => Shows(stream, consumed + 1, f.head) /\ IsHead("*", f.head)
<1>1. f \in ClientFrame /\ IsFrame(f) /\ Start(n) \in Nat /\ consumed = Start(n)
      /\ Shows(stream, Start(n) + 1, f.head)
      /\ \A i \in 0 .. Len(f.bulks) : Shows(stream, Start(n) + 1 + Offset(f, i), NextPart(f, i))
  BY PlaceFacts, StreamShows DEF Reached
<1>2. ASSUME f.head = <<>>
      PROVE  /\ Shows(stream, consumed + 1, f.rest)
             /\ BadLine("*", f.rest) /\ f.rest # <<>>
  <2>1. f.bulks = <<>> /\ BadLine("*", f.rest)
    BY <1>1, <1>2 DEF IsFrame
  <2>2. Len(f.bulks) = 0 /\ Offset(f, 0) = 0
    BY <1>1, <1>2, <2>1, OffsetFacts
  <2>3. NextPart(f, 0) = f.rest /\ Start(n) + 1 + Offset(f, 0) = consumed + 1
    BY <1>1, <2>2 DEF NextPart
  <2>4. Shows(stream, Start(n) + 1 + Offset(f, 0), NextPart(f, 0))
    BY <1>1, <2>2
  <2> QED BY <2>1, <2>3, <2>4, NoBytesNotBad
<1>3. f.head # <<>> => IsHead("*", f.head)
  BY <1>1 DEF IsFrame
<1> QED BY <1>1, <1>2, <1>3

(* ... of its next bulk string, ...                                        *)
LEMMA AtBulk ==
  ASSUME SessionInv, NEW n \in 0 .. Len(script), n < Len(script), NEW f, f = script[n + 1],
         NEW i \in Nat, Within(f, i), NEW b, b = NextPart(f, i)
  PROVE  /\ f \in ClientFrame /\ IsFrame(f) /\ Len(f.bulks) \in Nat
         /\ i \in 0 .. Len(f.bulks)
         /\ b \in Seq(Byte) /\ Shows(stream, Start(n) + 1 + Offset(f, i), b)
         /\ Start(n) \in Nat /\ Offset(f, i) \in Nat
         /\ SizeOf(f.head) \in Int
         /\ i < Len(f.bulks) =>
              /\ b = f.bulks[i + 1].head /\ f.bulks[i + 1] \in Bulks
              /\ IsHead("$", b) /\ SizeOf(b) = Len(f.bulks[i + 1].payload)
         /\ ~(i < Len(f.bulks)) =>
              b = f.rest /\ f.rest # <<>> /\ BadBulk(f.rest) /\ i = Len(f.bulks)
<1>1. /\ f \in ClientFrame /\ IsFrame(f) /\ Start(n) \in Nat
      /\ \A j \in 0 .. Len(f.bulks) : /\ NextPart(f, j) \in Seq(Byte)
                                      /\ Shows(stream, Start(n) + 1 + Offset(f, j), NextPart(f, j))
  BY PlaceFacts, StreamShows
<1>2. Len(f.bulks) \in Nat /\ f.head \in Seq(Byte) /\ DOMAIN f.bulks = 1 .. Len(f.bulks)
  BY <1>1, PieceFacts
<1>3. i \in 0 .. Len(f.bulks)
  BY <1>2 DEF Within
<1>4. f.head # <<>> /\ left = SizeOf(f.head) - i /\ left > 0
  BY DEF Within
<1>5. SizeOf(f.head) \in Int
  <2>1. Accepted("*", f.head)
    BY <1>1, <1>4 DEF IsFrame, IsHead
  <2> QED BY <1>2, <2>1, AcceptedFacts
<1>6. ASSUME i < Len(f.bulks)
      PROVE  /\ b = f.bulks[i + 1].head /\ f.bulks[i + 1] \in Bulks
             /\ IsHead("$", b) /\ SizeOf(b) = Len(f.bulks[i + 1].payload)
  <2>1. i + 1 \in 1 .. Len(f.bulks)
    BY <1>2, <1>3, <1>6
  <2>2. b = f.bulks[i + 1].head
    BY <1>6 DEF NextPart
  <2>3. IsBulk(f.bulks[i + 1])
    BY <1>1, <1>2, <2>1 DEF IsFrame
  <2> QED BY <1>1, <2>1, <2>2, <2>3, PieceFacts DEF IsBulk
<1>7. ASSUME ~(i < Len(f.bulks))
      PROVE  b = f.rest /\ f.rest # <<>> /\ BadBulk(f.rest) /\ i = Len(f.bulks)
  <2>1. b = f.rest /\ i = Len(f.bulks)
    BY <1>2, <1>3, <1>7 DEF NextPart
  <2>2. f.rest # <<>>
    <3> SUFFICES ASSUME f.rest = <<>> PROVE FALSE
      OBVIOUS
    <3>1. Len(f.bulks) = Max({0, SizeOf(f.head)})
      BY <1>1, <1>4 DEF IsFrame
    <3> QED BY <1>2, <1>3, <1>4, <1>5, <2>1, <3>1, MaxWithZero
  <2>3. BadBulk(f.rest)
    BY <1>1, <1>4, <2>2 DEF IsFrame
  <2> QED BY <2>1, <2>2, <2>3
<1>8. Offset(f, i) \in Nat
  BY <1>1, <1>3, OffsetFacts
<1> QED BY <1>1, <1>2, <1>3, <1>5, <1>6, <1>7, <1>8

(* The header of a request: a good one is taken whole, a bad one closes.   *)
LEMMA HeaderKeepsPlace ==
  ASSUME SessionInv, ReadHeader
  PROVE  SessionInv'
<1>1. pc = "header" /\ LineReady /\ ~LimitOverrun
  BY DEF ReadHeader
<1>2. PICK n \in 0 .. Len(script) : Reached(n)
  BY DEF SessionInv
<1>3. n < Len(script)
  <2>1. n # Len(script)
    BY <1>1, <1>2, NothingFollows
  <2> QED BY <2>1, PlaceFacts
<1> DEFINE f == script[n + 1]
<1>4. /\ f \in ClientFrame /\ IsFrame(f)
      /\ f.head = <<>> => /\ Shows(stream, consumed + 1, f.rest)
                          /\ BadLine("*", f.rest) /\ f.rest # <<>>
      /\ f.head # <<>> => Shows(stream, consumed + 1, f.head) /\ IsHead("*", f.head)
  BY <1>1, <1>2, <1>3, AtHeader
<1>5. CASE f.head = <<>>
  <2>1. f.rest \in Seq(Byte) /\ Positions
    BY <1>4, PieceFacts, PlaceFacts
  <2>2. LengthLine("*", Line) /\ ~TooManyDigits(Tail(Line)) =>
          ~(LengthOf(Tail(Line)) <= MAX_MULTIBULK_LENGTH)
    BY <1>1, <1>4, <1>5, <2>1, BadLineFound
  <2>3. LengthOf(Tail(Line)) > MAX_MULTIBULK_LENGTH \/ ~LengthLine("*", Line)
        \/ TooManyDigits(Tail(Line))
    <3> SUFFICES ASSUME LengthLine("*", Line), ~TooManyDigits(Tail(Line))
                 PROVE  LengthOf(Tail(Line)) > MAX_MULTIBULK_LENGTH
      OBVIOUS
    <3>1. Line \in Seq(Byte)
      <4>1. LineEnd(Buffered, 1) \in 1 .. Len(Buffered) - 1 /\ Len(Buffered) \in Nat
        BY <1>1, PlaceFacts, LineEndFound DEF LineReady
      <4>2. \A i \in 1 .. LineEnd(Buffered, 1) - 1 : Buffered[i] \in Byte
        <5> SUFFICES ASSUME NEW i \in 1 .. LineEnd(Buffered, 1) - 1
                     PROVE  Buffered[i] \in Byte
          OBVIOUS
        <5>1. i \in 1 .. Len(Buffered)
          BY <4>1
        <5> QED BY <2>1, <5>1, BufferFacts, ElementOfSeq
      <4>3. 1 \in Int /\ LineEnd(Buffered, 1) - 1 \in Int
        BY <4>1
      <4> QED BY <4>2, <4>3, SubSeqProperties DEF Line
    <3>2. Tail(Line) \in Seq(Byte) /\ IsLength(Tail(Line))
      BY <3>1, HeadTailProperties DEF LengthLine
    <3>3. LengthOf(Tail(Line)) \in Int
      BY <3>2, LengthType
    <3> QED BY <2>2, <3>3, ConnectionAssumption DEF ConnectionAssumption
  <2>4. Refuse \/ Crash
    BY <2>3 DEF ReadHeader
  <2>5. pc' \in {"refused", "closed"} /\ UNCHANGED <<Client, reading, served>>
    BY <2>4 DEF Refuse, Crash, Close
  <2> QED BY <1>2, <1>4, <1>5, <2>5, CloseKeepsPlace
<1>6. CASE f.head # <<>>
  <2>1. f.head \in Seq(Byte) /\ Accepted("*", f.head) /\ Len(f.bulks) \in Nat
        /\ Len(f.rest) \in Nat /\ LineEnd(f.head, 1) = Len(f.head) - 1
    BY <1>4, <1>6, PieceFacts, OffsetFacts DEF IsHead
  <2>2. /\ LineEnd(f.head, 1) \in 1 .. Len(f.head) - 1 /\ Len(f.head) \in Nat
        /\ Len(LineOf(f.head)) = LineEnd(f.head, 1) - 1 /\ SizeOf(f.head) \in Int
    BY <2>1, AcceptedFacts
  <2>3. Line = LineOf(f.head) /\ consumed + LineEnd(f.head, 1) + 1 <= arrived
    BY <1>1, <1>4, <1>6, <2>1, GoodLine, PlaceFacts
  <2>4. LengthLine("*", Line) /\ ~TooManyDigits(Tail(Line))
        /\ LengthOf(Tail(Line)) = SizeOf(f.head) /\ SizeOf(f.head) <= MAX_MULTIBULK_LENGTH
    BY <2>1, <2>3 DEF Accepted, SizeOf
  <2>5. ~(SizeOf(f.head) > MAX_MULTIBULK_LENGTH)
    BY <2>2, <2>4, ConnectionAssumption DEF ConnectionAssumption
  <2>6. /\ TakeLine /\ Continue /\ left' = Max({0, SizeOf(f.head)})
        /\ pc' = IF left' = 0 THEN "header" ELSE "bulk"
        /\ UNCHANGED <<length, args>>
    BY <2>4, <2>5 DEF ReadHeader
  <2>7. UNCHANGED <<script, stream, arrived, peer, served, length, args>>
    BY <2>6 DEF Continue, Client
  <2>8. Frames' = Frames /\ \A m : Start(m)' = Start(m) /\ Asked(m)' = Asked(m)
    BY <2>7, ScriptStays
  <2>9. consumed' = Start(n) + Offset(f, 0) /\ consumed = Start(n) /\ args = <<>>
    <3>1. consumed = Start(n) /\ args = <<>> /\ Start(n) \in Nat
      BY <1>1, <1>2, PlaceFacts DEF Reached
    <3>2. consumed' = consumed + Len(Line) + 2
      BY <2>6, CRLFType DEF TakeLine
    <3>3. Offset(f, 0) = Len(f.head)
      BY <1>4, OffsetFacts
    <3> DEFINE e == LineEnd(f.head, 1)
    <3>4. e \in Nat /\ Len(Line) = e - 1 /\ Len(f.head) = e + 1
      BY <2>1, <2>2, <2>3
    <3> HIDE DEF e
    <3> QED BY <3>1, <3>2, <3>3, <3>4
  <2>10. consumed' \in Nat /\ consumed' <= arrived /\ Positions'
    <3>1. consumed' = consumed + LineEnd(f.head, 1) + 1
      <4>1. Offset(f, 0) = Len(f.head)
        BY <1>4, OffsetFacts
      <4>2. consumed \in Nat
        BY PlaceFacts
      <4> DEFINE e == LineEnd(f.head, 1)
                 h == Len(f.head)
      <4>3. e \in Nat /\ h \in Nat /\ e = h - 1 /\ consumed' = consumed + h
        BY <2>1, <2>2, <2>9, <4>1
      <4> HIDE DEF e, h
      <4>4. consumed' = consumed + e + 1
        BY <4>2, <4>3
      <4> QED BY <4>4 DEF e
    <3>2. consumed \in Nat
      BY PlaceFacts
    <3>3. consumed' \in Nat /\ consumed' <= arrived
      BY <2>2, <2>3, <3>1, <3>2
    <3> QED BY <2>7, <3>3, PlaceFacts DEF Positions
  <2>13. left' = IF SizeOf(f.head) > 0 THEN SizeOf(f.head) ELSE 0
    <3>1. \A x \in Int : Max({0, x}) = IF x > 0 THEN x ELSE 0
      BY MaxWithZero
    <3> QED BY <2>2, <2>6, <3>1
  <2>11. CASE left' = 0
    <3>1. ~(SizeOf(f.head) > 0)
      BY <2>2, <2>11, <2>13
    <3>2. f.rest = <<>> /\ Len(f.bulks) = Max({0, SizeOf(f.head)})
      BY <1>4, <1>6, <2>1, <2>2, <3>1 DEF IsFrame
    <3>3. Len(f.bulks) = 0 /\ f.bulks = <<>>
      <4>1. f.bulks \in Seq(Bulks)
        BY <1>4, PieceFacts
      <4>2. Len(f.bulks) = 0
        BY <2>2, <3>1, <3>2, MaxWithZero
      <4> QED BY <4>1, <4>2, EmptySeq
    <3>4. Start(n + 1) = consumed'
      <4>1. Start(n + 1) = Start(n) + Offset(f, Len(f.bulks)) + Len(f.rest)
        BY <1>3, StreamShows, PlaceFacts
      <4>2. Len(f.rest) = 0
        BY <3>2
      <4> QED BY <2>9, <2>10, <3>3, <4>1, <4>2
    <3>5. Asked(n + 1) = Asked(n)
      BY <1>3, <3>3, AskedFacts, PlaceFacts
    <3>6. n + 1 \in 0 .. Len(script) /\ \A i \in 1 .. n + 1 : i \in 1 .. n \/ i = n + 1
      BY <1>3, PlaceFacts
    <3>7. \A i \in 1 .. n + 1 : script[i].rest = <<>>
      BY <1>2, <3>2, <3>6 DEF Reached
    <3>8. pc' = "header"
      BY <2>6, <2>11
    <3>9. Reached(n + 1)'
      BY <1>2, <2>7, <2>8, <2>9, <2>10, <3>4, <3>5, <3>7, <3>8 DEF Reached
    <3>10. n + 1 \in 0 .. Len(script')
      BY <2>7, <3>6
    <3> QED BY <2>7, <2>8, <2>10, <3>8, <3>9, <3>10 DEF SessionInv
  <2>12. CASE left' # 0
    <3>1. left' = SizeOf(f.head) - 0 /\ left' > 0
      BY <2>2, <2>12, <2>13
    <3>2. pc' = "bulk"
      BY <2>6, <2>12
    <3>3. args' = [j \in 1 .. 0 |-> f.bulks[j].payload]
      BY <2>7, <2>9
    <3>4. Within(f, 0)'
      BY <1>6, <2>1, <2>7, <3>1, <3>3 DEF Within
    <3>5. Reached(n)'
      BY <1>2, <1>3, <2>7, <2>8, <2>9, <3>2, <3>4 DEF Reached
    <3> QED BY <2>7, <2>8, <2>10, <3>2, <3>5 DEF SessionInv
  <2> QED BY <2>11, <2>12
<1> QED BY <1>5, <1>6

(* The header of a bulk string, in the same way.                           *)
LEMMA BulkHeaderKeepsPlace ==
  ASSUME SessionInv, ReadBulkHeader
  PROVE  SessionInv'
<1>1. pc = "bulk" /\ LineReady /\ ~LimitOverrun
  BY DEF ReadBulkHeader
<1>2. PICK n \in 0 .. Len(script) : Reached(n)
  BY DEF SessionInv
<1> DEFINE f == script[n + 1]
<1>3. n < Len(script)
  BY <1>1, <1>2 DEF Reached
<1>4. PICK i \in Nat : Within(f, i) /\ consumed = Start(n) + Offset(f, i)
  BY <1>1, <1>2 DEF Reached
<1> DEFINE b == NextPart(f, i)
<1>5. /\ b \in Seq(Byte) /\ Shows(stream, Start(n) + 1 + Offset(f, i), b)
      /\ Start(n) \in Nat /\ Offset(f, i) \in Nat
      /\ i < Len(f.bulks) => IsHead("$", b)
      /\ ~(i < Len(f.bulks)) => b = f.rest /\ f.rest # <<>> /\ BadBulk(f.rest)
  BY <1>3, <1>4, AtBulk
<1>6. Shows(stream, consumed + 1, b)
  <2>1. Start(n) + 1 + Offset(f, i) = consumed + 1
    BY <1>4, <1>5
  <2> QED BY <1>5, <2>1
<1> HIDE DEF b
<1>7. CASE Accepted("$", b)
  <2>1. LineEnd(b, 1) \in 1 .. Len(b) - 1 /\ Len(LineOf(b)) = LineEnd(b, 1) - 1
        /\ Len(b) \in Nat
    BY <1>5, <1>7, AcceptedFacts
  <2>2. Line = LineOf(b) /\ consumed + LineEnd(b, 1) + 1 <= arrived
    BY <1>1, <1>5, <1>6, <1>7, GoodLine, PlaceFacts
  <2>3. LengthLine("$", Line) /\ ~TooManyDigits(Tail(Line))
        /\ LengthOf(Tail(Line)) = SizeOf(b) /\ SizeOf(b) \in 0 .. MAX_BULK_LENGTH
    BY <1>7, <2>2 DEF Accepted, SizeOf
  <2>4. TakeLine /\ Continue /\ length' = SizeOf(b) /\ pc' = "body" /\ UNCHANGED <<left, args>>
    BY <2>3 DEF ReadBulkHeader
  <2>5. UNCHANGED <<script, stream, arrived, peer, served, left, args>>
    BY <2>4 DEF Continue, Client
  <2>6. Frames' = Frames /\ \A m : Start(m)' = Start(m) /\ Asked(m)' = Asked(m)
    BY <2>5, ScriptStays
  <2>7. /\ consumed' = consumed + LineEnd(b, 1) + 1
        /\ consumed' = Start(n) + Offset(f, i) + LineEnd(b, 1) + 1
        /\ consumed' \in Nat
    <3> DEFINE e == LineEnd(b, 1)
    <3>1. e \in Nat /\ Len(Line) = e - 1 /\ consumed' = consumed + Len(Line) + 2
          /\ consumed \in Nat
      <4>1. e \in Nat
        BY <2>1
      <4>2. Len(Line) = e - 1
        BY <2>1, <2>2
      <4>3. consumed' = consumed + Len(Line) + 2
        BY <2>4, CRLFType DEF TakeLine
      <4> QED BY <4>1, <4>2, <4>3, PlaceFacts
    <3> HIDE DEF e
    <3>2. consumed' = consumed + e + 1 /\ consumed' \in Nat
      BY <3>1
    <3> QED BY <1>4, <3>2 DEF e
  <2>8. Positions'
    BY <2>2, <2>5, <2>7, PlaceFacts DEF Positions
  <2>9. Within(f, i)'
    BY <1>4, <2>5 DEF Within
  <2>10. Reached(n)'
    BY <1>2, <1>3, <1>7, <2>4, <2>5, <2>6, <2>7, <2>9 DEF Reached, b
  <2> QED BY <2>4, <2>5, <2>6, <2>8, <2>10 DEF SessionInv
<1>8. CASE ~Accepted("$", b)
  <2>1. ~(i < Len(f.bulks))
    BY <1>5, <1>8 DEF IsHead
  <2>2. f.rest # <<>> /\ BadLine("$", b)
    BY <1>5, <1>8, <2>1 DEF BadBulk
  <2>3. LengthLine("$", Line) /\ ~TooManyDigits(Tail(Line)) =>
          LengthOf(Tail(Line)) \notin 0 .. MAX_BULK_LENGTH
    <3>1. "$" # "*"
      OBVIOUS
    <3> QED BY <1>1, <1>5, <1>6, <2>2, <3>1, BadLineFound, PlaceFacts
  <2>4. Refuse \/ Crash
    BY <2>3 DEF ReadBulkHeader
  <2>5. pc' \in {"refused", "closed"} /\ UNCHANGED <<Client, reading, served>>
    BY <2>4 DEF Refuse, Crash, Close
  <2> QED BY <1>2, <2>2, <2>5, CloseKeepsPlace
<1> QED BY <1>7, <1>8

(* A payload and its terminator: the reader has them when they arrived,    *)
(* and a bad one is seen to be.                                            *)
LEMMA BodyKeepsPlace ==
  ASSUME SessionInv, ReadBody
  PROVE  SessionInv'
<1> DEFINE body == SubSeq(Buffered, 1, BodyLength(length))
<1>1. pc = "body" /\ BodyReady
  BY DEF ReadBody
<1>2. PICK n \in 0 .. Len(script) : Reached(n)
  BY DEF SessionInv
<1> DEFINE f == script[n + 1]
<1>3. n < Len(script)
  BY <1>1, <1>2 DEF Reached
<1>4. PICK i \in Nat :
        /\ Within(f, i) /\ Accepted("$", NextPart(f, i))
        /\ consumed = Start(n) + Offset(f, i) + LineEnd(NextPart(f, i), 1) + 1
        /\ length = SizeOf(NextPart(f, i))
  BY <1>1, <1>2 DEF Reached
<1> DEFINE b == NextPart(f, i)
           e == LineEnd(b, 1)
<1>5. /\ f \in ClientFrame /\ IsFrame(f) /\ Len(f.bulks) \in Nat
      /\ i \in 0 .. Len(f.bulks)
      /\ b \in Seq(Byte) /\ Shows(stream, Start(n) + 1 + Offset(f, i), b)
      /\ Start(n) \in Nat /\ Offset(f, i) \in Nat
      /\ SizeOf(f.head) \in Int
      /\ i < Len(f.bulks) =>
           /\ b = f.bulks[i + 1].head /\ f.bulks[i + 1] \in Bulks
           /\ IsHead("$", b) /\ SizeOf(b) = Len(f.bulks[i + 1].payload)
      /\ ~(i < Len(f.bulks)) =>
           b = f.rest /\ f.rest # <<>> /\ BadBulk(f.rest) /\ i = Len(f.bulks)
  BY <1>3, <1>4, AtBulk
<1>6. e \in 1 .. Len(b) - 1 /\ Len(b) \in Nat /\ e \in Nat /\ length \in Nat
  <2>1. "$" # "*"
    OBVIOUS
  <2>2. e \in 1 .. Len(b) - 1 /\ Len(b) \in Nat /\ SizeOf(b) \in Nat
    BY <1>4, <1>5, <2>1, AcceptedFacts
  <2> QED BY <1>4, <2>2
<1>7. /\ BodyLength(length) = length + 2 /\ length + 2 <= Len(Buffered)
      /\ Len(Buffered) = arrived - consumed /\ arrived \in Nat /\ consumed \in Nat
      /\ Len(Buffered) \in Nat
  BY <1>1, CRLFType, PlaceFacts DEF BodyReady, BodyLength
<1>8. body \in Seq(Byte) /\ Len(body) = length + 2
      /\ \A k \in 1 .. length + 2 : body[k] = Buffered[k]
  <2>1. \A k \in 1 .. length + 2 : Buffered[k] \in Byte
    <3> SUFFICES ASSUME NEW k \in 1 .. length + 2 PROVE Buffered[k] \in Byte
      OBVIOUS
    <3>1. k \in 1 .. Len(Buffered) /\ Buffered \in Seq(Byte)
      BY <1>6, <1>7, BufferFacts, PlaceFacts
    <3> QED BY <3>1, ElementOfSeq
  <2>2. 1 \in Int /\ length + 2 \in Int /\ 1 <= length + 2
        /\ (length + 2) - 1 + 1 = length + 2
        /\ \A k \in 1 .. length + 2 : 1 + k - 1 = k
    BY <1>6
  <2>3. /\ SubSeq(Buffered, 1, length + 2) \in Seq(Byte)
        /\ Len(SubSeq(Buffered, 1, length + 2)) = length + 2
        /\ \A k \in 1 .. length + 2 : SubSeq(Buffered, 1, length + 2)[k] = Buffered[1 + k - 1]
    BY <2>1, <2>2, SubSeqProperties
  <2> QED BY <1>7, <2>2, <2>3
<1> HIDE DEF body, b, e
<1>9. CASE i < Len(f.bulks)
  <2> DEFINE v == f.bulks[i + 1].payload
  <2>1. i + 1 \in 1 .. Len(f.bulks) /\ (i + 1) - 1 = i /\ i + 1 \in Nat
    BY <1>5, <1>9
  <2>2. v \in Seq(Byte) /\ Len(v) = length /\ v \o CRLF \in Seq(Byte)
        /\ Len(v \o CRLF) = length + 2 /\ Len(b) = e + 1
        /\ b = f.bulks[i + 1].head
    <3>1. v \in Seq(Byte) /\ v \o CRLF \in Seq(Byte) /\ Len(v \o CRLF) = Len(v) + 2
      BY <1>5, <1>9, BulkFacts
    <3>2. Len(v) = length /\ b = f.bulks[i + 1].head
      BY <1>4, <1>5, <1>9 DEF b
    <3>3. Len(b) = e + 1
      BY <1>5, <1>6, <1>9 DEF IsHead, e
    <3> QED BY <3>1, <3>2, <3>3
  <2>3. Shows(stream, Start(n) + 1 + Offset(f, i) + Len(b), v \o CRLF)
    <3>1. Shows(stream, Start(n) + 1 + Offset(f, (i + 1) - 1) + Len(f.bulks[i + 1].head),
                v \o CRLF)
      BY <1>3, <2>1, StreamShows, PlaceFacts
    <3> QED BY <2>1, <2>2, <3>1
  <2>4. consumed = Start(n) + Offset(f, i) + e + 1
        /\ Start(n) + 1 + Offset(f, i) + Len(b) = consumed + 1 + 0
    <3>1. consumed = Start(n) + Offset(f, i) + e + 1
      BY <1>4 DEF e, b
    <3> QED BY <1>5, <1>6, <2>2, <3>1, SMTT(20)
  <2>5. Shows(Buffered, 1 + 0, v \o CRLF)
    BY <2>2, <2>3, <2>4, BufferShows, PlaceFacts
  <2>6. body = v \o CRLF
    <3>1. 1 + 0 = 1 /\ 1 \in Nat \ {0} /\ 1 + Len(v \o CRLF) - 1 = length + 2
      BY <1>6, <2>2
    <3>2. SubSeq(Buffered, 1, 1 + Len(v \o CRLF) - 1) = v \o CRLF
      BY <1>7, <2>2, <2>5, <3>1, SubSeqShown
    <3> QED BY <1>7, <3>1, <3>2 DEF body
  <2>7. /\ \A k \in 1 .. length : body[k] = v[k]
        /\ body[length + 1] = "cr" /\ body[length + 2] = "lf"
    <3>1. \A k \in 1 .. Len(v) + Len(CRLF) :
            (v \o CRLF)[k] = IF k <= Len(v) THEN v[k] ELSE CRLF[k - Len(v)]
      BY <2>2, CRLFType, ConcatProperties
    <3>2. (length + 1) - length = 1 /\ (length + 2) - length = 2
          /\ ~(length + 1 <= length) /\ ~(length + 2 <= length)
          /\ length + 1 \in 1 .. length + 2 /\ length + 2 \in 1 .. length + 2
          /\ \A k \in 1 .. length : k \in 1 .. length + 2 /\ k <= length
      BY <1>6
    <3> QED BY <2>2, <2>6, <3>1, <3>2, CRLFType
  <2>8. IsSuffix(CRLF, body)
    BY <1>6, <1>8, <2>7, SuffixCRLF
  <2>9. SubSeq(body, 1, length) = v
    <3>1. \A k \in 1 .. Len(v) : 1 + k - 1 <= Len(body) => body[1 + k - 1] = v[k]
      <4>1. \A k \in 1 .. length : 1 + k - 1 = k
        BY <1>6
      <4> QED BY <2>2, <2>7, <4>1
    <3>2. 1 + Len(v) - 1 = length /\ 1 + Len(v) - 1 <= Len(body) /\ Len(body) \in Nat
          /\ 1 \in Nat \ {0}
      BY <1>6, <1>8, <2>2
    <3>3. Shows(body, 1, v)
      BY <3>1 DEF Shows
    <3>4. SubSeq(body, 1, 1 + Len(v) - 1) = v
      BY <2>2, <3>2, <3>3, SubSeqShown
    <3> QED BY <3>2, <3>4
  <2>10. /\ consumed' = consumed + Len(body) /\ args' = Append(args, v) /\ left' = left - 1
         /\ pc' = IF left = 1 THEN "request" ELSE "bulk"
         /\ UNCHANGED length /\ Continue
    BY <2>8, <2>9 DEF ReadBody, body
  <2>11. UNCHANGED <<script, stream, arrived, peer, served>>
    BY <2>10 DEF Continue, Client
  <2>12. Frames' = Frames /\ \A m : Start(m)' = Start(m) /\ Asked(m)' = Asked(m)
    BY <2>11, ScriptStays
  <2>13. args' = [j \in 1 .. i + 1 |-> f.bulks[j].payload]
    <3>1. args = [j \in 1 .. i |-> f.bulks[j].payload]
      BY <1>4 DEF Within
    <3>2. Len(args) = i
      BY <3>1
    <3> QED BY <2>10, <3>1, <3>2
  <2>14. consumed' = Start(n) + Offset(f, i + 1) /\ Offset(f, i + 1) \in Nat
    <3>1. Offset(f, i + 1) = Offset(f, i) + Len(b) + Len(v) + 2
      <4>1. Offset(f, i + 1) = Offset(f, (i + 1) - 1) + Len(f.bulks[i + 1].head) + Len(v) + 2
        BY <1>5, <2>1, OffsetFacts
      <4> QED BY <2>1, <2>2, <4>1
    <3>2. Offset(f, i + 1) = Offset(f, i) + (e + 1) + length + 2
      BY <2>2, <3>1
    <3>3. consumed' = Start(n) + Offset(f, i) + e + 1 + (length + 2)
      BY <1>8, <2>4, <2>10
    <3>4. Start(n) \in Nat /\ Offset(f, i) \in Nat /\ e \in Nat /\ length \in Nat
      BY <1>5, <1>6
    <3> DEFINE s == Start(n)
               o == Offset(f, i)
               p == Offset(f, i + 1)
    <3>5. s \in Nat /\ o \in Nat /\ e \in Nat /\ length \in Nat
          /\ p = o + (e + 1) + length + 2 /\ consumed' = s + o + e + 1 + (length + 2)
      BY <3>2, <3>3, <3>4
    <3> HIDE DEF s, o, p
    <3>6. consumed' = s + p /\ p \in Nat
      BY <3>5
    <3> QED BY <3>6 DEF s, p
  <2>15. Positions'
    <3>1. consumed' = consumed + (length + 2)
      BY <1>8, <2>10
    <3>2. consumed' \in Nat /\ consumed' <= arrived
      BY <1>6, <1>7, <3>1
    <3> QED BY <2>11, <3>2, PlaceFacts DEF Positions
  <2>16. left = SizeOf(f.head) - i /\ left > 0 /\ f.head # <<>>
    BY <1>4 DEF Within
  <2>17. CASE left = 1
    <3>1. SizeOf(f.head) = i + 1
      <4>1. SizeOf(f.head) \in Int /\ SizeOf(f.head) - i = 1
        BY <1>5, <2>16, <2>17
      <4>2. \A x \in Int : \A j \in Nat : x - j = 1 => x = j + 1
        OBVIOUS
      <4> QED BY <4>1, <4>2
    <3>2. f.rest = <<>>
      <4> SUFFICES ASSUME f.rest # <<>> PROVE FALSE
        OBVIOUS
      <4>1. Len(f.bulks) < SizeOf(f.head)
        BY <1>5, <2>16 DEF IsFrame
      <4> QED BY <1>5, <1>9, <3>1, <4>1
    <3>3. Len(f.bulks) = i + 1
      <4>1. Len(f.bulks) = Max({0, SizeOf(f.head)})
        BY <1>5, <2>16, <3>2 DEF IsFrame
      <4>2. \A x \in Int : Max({0, x}) = IF x > 0 THEN x ELSE 0
        BY MaxWithZero
      <4>3. SizeOf(f.head) > 0
        BY <1>5, <3>1
      <4> QED BY <1>5, <3>1, <4>1, <4>2, <4>3
    <3>4. args' = Arguments(f) /\ f.bulks # <<>>
      <4>1. DOMAIN f.bulks = 1 .. i + 1
        BY <1>5, <3>3, PieceFacts
      <4>2. f.bulks # <<>>
        BY <1>5, <3>3
      <4> QED BY <2>13, <4>1, <4>2 DEF Arguments
    <3>5. consumed' = Start(n + 1)
      <4>1. Start(n + 1) = Start(n) + Offset(f, Len(f.bulks)) + Len(f.rest)
        BY <1>3, StreamShows, PlaceFacts
      <4>2. Len(f.rest) = 0
        BY <3>2
      <4> QED BY <1>5, <2>14, <3>3, <4>1, <4>2
    <3>6. pc' = "request"
      BY <2>10, <2>17
    <3>7. Reached(n)'
      BY <1>2, <1>3, <2>11, <2>12, <3>2, <3>4, <3>5, <3>6 DEF Reached
    <3> QED BY <2>11, <2>12, <2>15, <3>6, <3>7 DEF SessionInv
  <2>18. CASE left # 1
    <3>1. pc' = "bulk"
      BY <2>10, <2>18
    <3>2. left' = SizeOf(f.head) - (i + 1) /\ left' > 0
      <4>1. SizeOf(f.head) \in Int /\ left = SizeOf(f.head) - i /\ left > 0 /\ left # 1
            /\ left' = left - 1
        BY <1>5, <2>10, <2>16, <2>18
      <4>2. \A x \in Int : \A j \in Nat : x - j > 0 /\ x - j # 1 =>
              (x - j) - 1 = x - (j + 1) /\ (x - j) - 1 > 0
        OBVIOUS
      <4> QED BY <4>1, <4>2
    <3>3. i + 1 <= Len(f.bulks)
      BY <1>5, <2>1
    <3>4. Within(f, i + 1)'
      BY <2>11, <2>13, <2>16, <3>2, <3>3 DEF Within
    <3>5. Reached(n)'
      BY <1>2, <1>3, <2>1, <2>11, <2>12, <2>14, <3>1, <3>4 DEF Reached
    <3> QED BY <2>11, <2>12, <2>15, <3>1, <3>5 DEF SessionInv
  <2> QED BY <2>17, <2>18
<1>10. CASE ~(i < Len(f.bulks))
  <2>1. b = f.rest /\ f.rest # <<>> /\ Accepted("$", b) /\ BadBulk(b)
    BY <1>4, <1>5, <1>10 DEF b
  <2> DEFINE stop == e + length + 2
  <2>2. stop + 1 <= Len(b) /\ SubSeq(b, stop, stop + 1) # CRLF
    BY <1>4, <2>1 DEF BadBulk, BadLine, b, e
  <2>3. stop \in 1 .. Len(b) /\ stop + 1 \in 1 .. Len(b)
    BY <1>6, <2>2
  <2>4. ~(b[stop] = "cr" /\ b[stop + 1] = "lf")
    <3> SUFFICES ASSUME b[stop] = "cr", b[stop + 1] = "lf" PROVE FALSE
      OBVIOUS
    <3>1. SubSeq(b, stop, stop + 1) = [k \in 1 .. 2 |-> b[stop + k - 1]]
      BY <1>6, <2>3
    <3>2. stop + 1 - 1 = stop /\ stop + 2 - 1 = stop + 1
      BY <2>3
    <3>3. SubSeq(b, stop, stop + 1) = <<"cr", "lf">>
      <4> HIDE DEF stop
      <4>1. \A k \in 1 .. 2 : b[stop + k - 1] = <<"cr", "lf">>[k]
        BY <3>2
      <4>2. [k \in 1 .. 2 |-> b[stop + k - 1]] = [k \in 1 .. 2 |-> <<"cr", "lf">>[k]]
        BY <4>1
      <4>3. [k \in 1 .. 2 |-> <<"cr", "lf">>[k]] = <<"cr", "lf">>
        OBVIOUS
      <4> QED BY <3>1, <4>2, <4>3
    <3> QED BY <2>2, <3>3 DEF CRLF
  <2>5. Start(n) + 1 + Offset(f, i) + stop - 1 = consumed + (length + 1)
        /\ Start(n) + 1 + Offset(f, i) + (stop + 1) - 1 = consumed + (length + 2)
    <3>1. consumed = Start(n) + Offset(f, i) + e + 1
      BY <1>4 DEF e, b
    <3>2. Start(n) \in Nat /\ Offset(f, i) \in Nat /\ e \in Nat /\ length \in Nat
      BY <1>5, <1>6
    <3>3. \A s, o, a, l \in Nat :
            /\ s + 1 + o + (a + l + 2) - 1 = (s + o + a + 1) + (l + 1)
            /\ s + 1 + o + (a + l + 2 + 1) - 1 = (s + o + a + 1) + (l + 2)
      OBVIOUS
    <3> QED BY <3>1, <3>2, <3>3, SMTT(20)
  <2>6. length + 1 \in 1 .. Len(Buffered) /\ length + 2 \in 1 .. Len(Buffered)
        /\ consumed + (length + 1) <= Len(stream) /\ consumed + (length + 2) <= Len(stream)
    BY <1>6, <1>7, PlaceFacts
  <2>7. Buffered[length + 1] = b[stop] /\ Buffered[length + 2] = b[stop + 1]
    <3>1. stream[consumed + (length + 1)] = b[stop]
      BY <1>5, <2>3, <2>5, <2>6 DEF Shows
    <3>2. stream[consumed + (length + 2)] = b[stop + 1]
      BY <1>5, <2>3, <2>5, <2>6 DEF Shows
    <3> QED BY <2>6, <3>1, <3>2, BufferFacts, PlaceFacts
  <2>8. ~IsSuffix(CRLF, body)
    <3>1. length + 1 \in 1 .. length + 2 /\ length + 2 \in 1 .. length + 2
      BY <1>6
    <3>2. body[length + 1] = b[stop] /\ body[length + 2] = b[stop + 1]
      BY <1>8, <2>7, <3>1
    <3> QED BY <1>6, <1>8, <2>4, <3>2, SuffixCRLF
  <2>9. Refuse
    BY <2>8 DEF ReadBody, body
  <2>10. pc' \in {"refused", "closed"} /\ UNCHANGED <<Client, reading, served>>
    BY <2>9 DEF Refuse, Close
  <2> QED BY <1>2, <2>1, <2>10, CloseKeepsPlace
<1> QED BY <1>9, <1>10

(* What was read is dispatched once, and the next frame is read from where *)
(* it begins.                                                              *)
LEMMA RespondKeepsPlace ==
  ASSUME SessionInv, Respond
  PROVE  SessionInv'
<1>1. pc = "request" /\ served' = Append(served, args) /\ args' = <<>>
      /\ pc' \in {"header", "drain"}
      /\ UNCHANGED <<script, stream, arrived, peer, consumed, left, length>>
  BY DEF Respond, Dispatch, Client
<1>2. PICK n \in 0 .. Len(script) : Reached(n)
  BY DEF SessionInv
<1>3. /\ n < Len(script) /\ script[n + 1].rest = <<>> /\ script[n + 1].bulks # <<>>
      /\ args = Arguments(script[n + 1]) /\ consumed = Start(n + 1) /\ served = Asked(n)
  BY <1>1, <1>2 DEF Reached
<1>4. Frames' = Frames /\ \A m : Start(m)' = Start(m) /\ Asked(m)' = Asked(m)
  BY <1>1, ScriptStays
<1>5. served' = Asked(n + 1)
  BY <1>1, <1>3, AskedFacts, PlaceFacts
<1>6. n + 1 \in 0 .. Len(script) /\ \A i \in 1 .. n + 1 : i \in 1 .. n \/ i = n + 1
  BY <1>3, PlaceFacts
<1>7. \A i \in 1 .. n + 1 : script[i].rest = <<>>
  BY <1>2, <1>3, <1>6 DEF Reached
<1>8. Positions' /\ Start(n + 1) <= arrived
  BY <1>1, <1>3, PlaceFacts DEF Positions
<1>9. Reached(n + 1)'
  BY <1>1, <1>3, <1>4, <1>5, <1>7, <1>8 DEF Reached
<1>10. n + 1 \in 0 .. Len(script')
  BY <1>1, <1>6
<1> QED BY <1>1, <1>4, <1>8, <1>9, <1>10 DEF SessionInv

LEMMA DrainedKeepsPlace ==
  ASSUME SessionInv, Drained
  PROVE  SessionInv'
<1>1. pc = "drain" /\ pc' = "header"
      /\ UNCHANGED <<script, stream, arrived, peer, consumed, left, length, args, served>>
  BY DEF Drained, reading, Continue, Client
<1>2. PICK n \in 0 .. Len(script) : Reached(n)
  BY DEF SessionInv
<1>3. Frames' = Frames /\ \A m : Start(m)' = Start(m) /\ Asked(m)' = Asked(m)
  BY <1>1, ScriptStays
<1>4. Reached(n)'
  BY <1>1, <1>2, <1>3 DEF Reached
<1>5. Positions'
  BY <1>1, PlaceFacts DEF Positions
<1> QED BY <1>1, <1>3, <1>4, <1>5 DEF SessionInv

(* A reader that stops for want of bytes wants those of an unfinished      *)
(* frame; a line too long is never part of a good one.                     *)
LEMMA StopsAtUnfinished ==
  ASSUME SessionInv, NEW n \in 0 .. Len(script), Reached(n), EndOfStream \/ Overlong
  PROVE  \/ n = Len(script) \/ script[n + 1].rest # <<>>
         \/ peer = "eof" /\ Start(n + 1) > arrived
<1> DEFINE f == script[n + 1]
<1> SUFFICES ASSUME n # Len(script), f.rest = <<>>
             PROVE  peer = "eof" /\ Start(n + 1) > arrived
  OBVIOUS
<1>1. n < Len(script) /\ arrived \in Nat /\ consumed \in Nat /\ Start(n) \in Nat /\ Positions
  BY PlaceFacts
<1>2. /\ f \in ClientFrame /\ IsFrame(f)
      /\ Start(n + 1) = Start(n) + Offset(f, Len(f.bulks)) + 0
  <2>1. Len(f.rest) = 0
    OBVIOUS
  <2>2. f \in ClientFrame /\ IsFrame(f)
        /\ Start(n + 1) = Start(n) + Offset(f, Len(f.bulks)) + Len(f.rest)
    BY <1>1, StreamShows, PlaceFacts
  <2> QED BY <2>1, <2>2
<1>3. /\ Len(f.bulks) \in Nat /\ Offset(f, 0) = Len(f.head) /\ Len(f.head) \in Nat
      /\ \A i \in 0 .. Len(f.bulks) : /\ Offset(f, i) \in Nat
                                      /\ Offset(f, i) <= Offset(f, Len(f.bulks))
      /\ \A i \in 1 .. Len(f.bulks) :
           Offset(f, i) = Offset(f, i - 1)
                            + Len(f.bulks[i].head) + Len(f.bulks[i].payload) + 2
  BY <1>2, PieceFacts, OffsetFacts
<1>4. ASSUME NEW i \in 0 .. Len(f.bulks), Start(n) + Offset(f, i) > arrived
      PROVE  Start(n + 1) > arrived
  <2> DEFINE o == Offset(f, i)
             p == Offset(f, Len(f.bulks))
             s == Start(n)
  <2>1. s \in Nat /\ o \in Nat /\ p \in Nat /\ o <= p /\ s + o > arrived
        /\ Start(n + 1) = s + p + 0
    <3>1. Len(f.bulks) \in 0 .. Len(f.bulks)
      BY <1>3
    <3> QED BY <1>1, <1>2, <1>3, <1>4, <3>1
  <2> HIDE DEF o, p, s
  <2>2. s + p + 0 > arrived
    BY <1>1, <2>1
  <2> QED BY <2>1, <2>2
<1>5. CASE pc = "header"
  <2>1. f.head # <<>> /\ Shows(stream, consumed + 1, f.head) /\ IsHead("*", f.head)
        /\ consumed = Start(n)
    BY <1>1, <1>5, AtHeader DEF Reached
  <2>2. f.head \in Seq(Byte) /\ Accepted("*", f.head) /\ LineEnd(f.head, 1) = Len(f.head) - 1
    BY <1>2, <2>1, PieceFacts DEF IsHead
  <2>3. ~LimitOverrun /\ (LineReady <=> consumed + LineEnd(f.head, 1) + 1 <= arrived)
    BY <1>1, <2>1, <2>2, GoodLine
  <2>4. peer = "eof" /\ ~LineReady
    BY <1>5, <2>3 DEF EndOfStream, Overlong
  <2>5. Start(n) + Offset(f, 0) > arrived
    <3> DEFINE h == Len(f.head)
    <3>1. h \in Nat /\ ~(consumed + (h - 1) + 1 <= arrived) /\ Offset(f, 0) = h
      BY <1>3, <2>2, <2>3, <2>4
    <3> HIDE DEF h
    <3>2. consumed + h > arrived
      BY <1>1, <3>1
    <3> QED BY <2>1, <3>1, <3>2
  <2>6. 0 \in 0 .. Len(f.bulks)
    BY <1>3
  <2> QED BY <1>4, <2>4, <2>5, <2>6
<1>6. CASE pc = "bulk"
  <2>1. PICK i \in Nat : Within(f, i) /\ consumed = Start(n) + Offset(f, i)
    BY <1>6 DEF Reached
  <2> DEFINE b == NextPart(f, i)
  <2>2. /\ i \in 0 .. Len(f.bulks) /\ b \in Seq(Byte)
        /\ Shows(stream, Start(n) + 1 + Offset(f, i), b)
        /\ Offset(f, i) \in Nat /\ i < Len(f.bulks)
        /\ b = f.bulks[i + 1].head /\ f.bulks[i + 1] \in Bulks /\ IsHead("$", b)
    <3>1. f = script[n + 1] /\ b = NextPart(f, i)
      OBVIOUS
    <3> HIDE DEF f, b
    <3>2. /\ i \in 0 .. Len(f.bulks) /\ b \in Seq(Byte)
          /\ Shows(stream, Start(n) + 1 + Offset(f, i), b)
          /\ Offset(f, i) \in Nat
          /\ i < Len(f.bulks) => b = f.bulks[i + 1].head /\ f.bulks[i + 1] \in Bulks
                                  /\ IsHead("$", b)
          /\ ~(i < Len(f.bulks)) => f.rest # <<>>
      BY <1>1, <2>1, <3>1, AtBulk
    <3>3. f.rest = <<>>
      BY DEF f
    <3> QED BY <3>2, <3>3
  <2>3. Start(n) + 1 + Offset(f, i) = consumed + 1 /\ i + 1 \in 1 .. Len(f.bulks)
        /\ i + 1 \in 0 .. Len(f.bulks) /\ (i + 1) - 1 = i
    BY <1>1, <1>3, <2>1, <2>2, SMTT(20)
  <2>4. Accepted("$", b) /\ LineEnd(b, 1) = Len(b) - 1 /\ Shows(stream, consumed + 1, b)
    BY <2>2, <2>3 DEF IsHead
  <2>5. ~LimitOverrun /\ (LineReady <=> consumed + LineEnd(b, 1) + 1 <= arrived)
    BY <1>1, <2>2, <2>4, GoodLine
  <2>6. peer = "eof" /\ ~LineReady
    BY <1>6, <2>5 DEF EndOfStream, Overlong
  <2>7. Start(n) + Offset(f, i + 1) > arrived
    <3> DEFINE s == Start(n)
               o == Offset(f, i)
               h == Len(b)
               v == Len(f.bulks[i + 1].payload)
    <3>1. h \in Nat /\ v \in Nat
      BY <2>2, BulkFacts, LenProperties
    <3>2. Offset(f, i + 1) = o + h + v + 2
      <4>1. Offset(f, i + 1) = Offset(f, (i + 1) - 1)
                                 + Len(f.bulks[i + 1].head) + Len(f.bulks[i + 1].payload) + 2
        BY <1>3, <2>3
      <4> QED BY <2>2, <2>3, <4>1
    <3>3. s \in Nat /\ o \in Nat /\ consumed = s + o /\ ~(consumed + (h - 1) + 1 <= arrived)
      BY <1>1, <2>1, <2>2, <2>4, <2>5, <2>6
    <3> HIDE DEF s, o, h, v
    <3>4. s + (o + h + v + 2) > arrived
      BY <1>1, <3>1, <3>3
    <3> QED BY <3>2, <3>4 DEF s
  <2> QED BY <1>4, <2>3, <2>6, <2>7
<1>7. CASE pc = "body"
  <2>1. PICK i \in Nat :
          /\ Within(f, i) /\ Accepted("$", NextPart(f, i))
          /\ consumed = Start(n) + Offset(f, i) + LineEnd(NextPart(f, i), 1) + 1
          /\ length = SizeOf(NextPart(f, i))
    BY <1>7 DEF Reached
  <2> DEFINE b == NextPart(f, i)
  <2>2. /\ i \in 0 .. Len(f.bulks) /\ b \in Seq(Byte) /\ Offset(f, i) \in Nat
        /\ i < Len(f.bulks)
        /\ b = f.bulks[i + 1].head /\ f.bulks[i + 1] \in Bulks /\ IsHead("$", b)
        /\ SizeOf(b) = Len(f.bulks[i + 1].payload)
    <3>1. Within(f, i)
      BY <2>1
    <3> QED BY <1>1, <3>1, AtBulk, SMTT(20)
  <2>3. i + 1 \in 1 .. Len(f.bulks) /\ i + 1 \in 0 .. Len(f.bulks) /\ (i + 1) - 1 = i
    BY <1>3, <2>2
  <2>4. peer = "eof" /\ ~BodyReady
    BY <1>7 DEF EndOfStream, Overlong
  <2>5. Start(n) + Offset(f, i + 1) > arrived
    <3> DEFINE s == Start(n)
               o == Offset(f, i)
               h == Len(b)
               v == Len(f.bulks[i + 1].payload)
    <3>1. h \in Nat /\ v \in Nat
      BY <2>2, BulkFacts, LenProperties
    <3>2. Offset(f, i + 1) = o + h + v + 2
      <4>1. Offset(f, i + 1) = Offset(f, (i + 1) - 1)
                                 + Len(f.bulks[i + 1].head) + Len(f.bulks[i + 1].payload) + 2
        BY <1>3, <2>3
      <4> QED BY <2>2, <2>3, <4>1
    <3>3. s \in Nat /\ o \in Nat /\ consumed = s + o + (h - 1) + 1
      BY <1>1, <2>1, <2>2 DEF IsHead
    <3>4. length = v /\ Len(Buffered) = arrived - consumed /\ ~(Len(Buffered) >= v + 2)
      BY <2>1, <2>2, <2>4, CRLFType, PlaceFacts DEF BodyReady, BodyLength
    <3> HIDE DEF s, o, h, v
    <3>5. ~(arrived - consumed >= v + 2)
      BY <3>4
    <3>6. s + (o + h + v + 2) > arrived
      BY <1>1, <3>1, <3>3, <3>5
    <3> QED BY <3>2, <3>6 DEF s
  <2> QED BY <1>4, <2>3, <2>4, <2>5
<1> QED BY <1>5, <1>6, <1>7 DEF EndOfStream, Overlong

LEMMA ReaderKeepsPlace ==
  ASSUME SessionInv, Reader
  PROVE  SessionInv'
<1>1. PICK n \in 0 .. Len(script) : Reached(n)
  BY DEF SessionInv
<1>2. CASE Gone
  <2>1. peer = "reset" /\ pc' = "closed" /\ UNCHANGED <<Client, reading, served>>
    BY <1>2 DEF Gone, Close
  <2> QED BY <1>1, <2>1, CloseKeepsPlace
<1>3. CASE EndOfStream \/ Overlong
  <2>1. pc' \in {"refused", "closed"} /\ UNCHANGED <<Client, reading, served>>
    BY <1>3 DEF EndOfStream, Overlong, Refuse, Close
  <2>2. \/ n = Len(script) \/ script[n + 1].rest # <<>>
        \/ peer = "eof" /\ Start(n + 1) > arrived
    BY <1>1, <1>3, StopsAtUnfinished
  <2> QED BY <1>1, <2>1, <2>2, CloseKeepsPlace
<1>4. CASE RefusalDrained
  <2>1. pc = "refused" /\ pc' = "closed" /\ UNCHANGED <<Client, reading, served>>
    BY <1>4 DEF RefusalDrained, Close
  <2>2. \/ peer = "reset" \/ n = Len(script) \/ script[n + 1].rest # <<>>
        \/ peer = "eof" /\ Start(n + 1) > arrived
    BY <1>1, <2>1 DEF Reached
  <2> QED BY <1>1, <2>1, <2>2, CloseKeepsPlace
<1> QED BY <1>2, <1>3, <1>4, HeaderKeepsPlace, BulkHeaderKeepsPlace, BodyKeepsPlace,
           RespondKeepsPlace, DrainedKeepsPlace DEF Reader

(* However the stream is split, what is dispatched is what the client sent *)
(* in order, and a session that was not reset ends only when everything    *)
(* that arrived whole before the first bad frame was (resp.py:44-90).      *)
LEMMA PlaceIsExact ==
  ASSUME SessionInv
  PROVE  RequestsExact
<1>1. PICK n \in 0 .. Len(script) : Reached(n)
  BY DEF SessionInv
<1> DEFINE whole == {m \in 0 .. Len(script) :
                       /\ \A i \in 1 .. m : script[i].rest = <<>>
                       /\ Len(FlattenSeq(SubSeq(Frames, 1, m))) <= arrived}
           last == Max(whole)
<1>2. \A m : Start(m) = Len(FlattenSeq(SubSeq(Frames, 1, m)))
  BY DEF Start, Joined
<1>3. n \in whole /\ Len(script) \in Nat
  BY <1>1, <1>2, PlaceFacts DEF Reached
<1>4. last \in whole /\ \A m \in whole : m <= last
  <2>1. whole \in SUBSET (0 .. Len(script)) /\ whole # {}
    BY <1>3
  <2> HIDE DEF whole
  <2> QED BY <1>3, <2>1, MaxIsGreatest
<1>5. /\ last \in n .. Len(script) /\ Start(last) <= arrived
      /\ \A i \in 1 .. last : script[i].rest = <<>>
  <2>1. last \in 0 .. Len(script) /\ n <= last
    BY <1>3, <1>4
  <2> HIDE DEF last
  <2>2. last \in n .. Len(script)
    BY <1>3, <2>1
  <2> QED BY <1>2, <1>4, <2>2
<1>6. Complete = Asked(last)
  BY DEF Complete, Asked, Joined
<1> HIDE DEF last, whole
<1>7. served = Asked(n)
  BY <1>1 DEF Reached
<1>8. IsPrefix(served, Complete)
  BY <1>5, <1>6, <1>7, AskedFacts, PlaceFacts
<1>9. ASSUME pc = "closed", peer # "reset"
      PROVE  served = Complete
  <2> SUFFICES ASSUME n # last PROVE FALSE
    BY <1>6, <1>7
  <2>1. n < Len(script) /\ n + 1 \in 1 .. last /\ n + 1 \in 0 .. Len(script)
        /\ last \in n + 1 .. Len(script) /\ last \in 0 .. Len(script)
    BY <1>3, <1>5
  <2>2. script[n + 1].rest = <<>>
    BY <1>5, <2>1
  <2>3. Start(n + 1) > arrived
    BY <1>1, <1>9, <2>1, <2>2 DEF Reached
  <2>4. Start(n + 1) <= Start(last)
    BY <2>1, StartFacts, PlaceFacts
  <2>5. Start(n + 1) \in Nat /\ Start(last) \in Nat /\ arrived \in Nat
    BY <2>1, PlaceFacts
  <2> QED BY <1>5, <2>3, <2>4, <2>5
<1> QED BY <1>8, <1>9 DEF RequestsExact

LEMMA SessionInvariance == Spec => []SessionInv
<1>1. Init => SessionInv
  <2> SUFFICES ASSUME Init PROVE SessionInv
    OBVIOUS
  <2>1. /\ script \in Scripts /\ stream = FlattenSeq(Frames) /\ arrived = 0 /\ peer = "open"
        /\ pc = "header" /\ consumed = 0 /\ args = <<>> /\ served = <<>>
    BY DEF Init
  <2>2. stream \in Seq(Byte) /\ Len(stream) \in Nat /\ Len(script) \in Nat /\ Start(0) = 0
    BY <2>1, StartFacts, ScriptFacts
  <2>3. Positions
    BY <2>1, <2>2 DEF Positions
  <2>4. Reached(0)
    BY <2>1, <2>2, AskedFacts DEF Reached
  <2>5. 0 \in 0 .. Len(script)
    BY <2>2
  <2> QED BY <2>1, <2>3, <2>4, <2>5 DEF SessionInv
<1>2. SessionInv /\ [Next]_vars => SessionInv'
  <2> SUFFICES ASSUME SessionInv, [Next]_vars
               PROVE  SessionInv'
    OBVIOUS
  <2>1. CASE Done \/ UNCHANGED vars
    <3>1. UNCHANGED vars
      BY <2>1 DEF Done
    <3>2. UNCHANGED <<script, stream, arrived, peer, pc, consumed, left, length, args, served>>
      BY <3>1 DEF vars
    <3>3. PICK n \in 0 .. Len(script) : Reached(n)
      BY DEF SessionInv
    <3>4. Frames' = Frames /\ \A m : Start(m)' = Start(m) /\ Asked(m)' = Asked(m)
      BY <3>2, ScriptStays
    <3>5. Reached(n)'
      BY <3>2, <3>3, <3>4 DEF Reached, Within
    <3>6. Positions'
      BY <3>2, PlaceFacts DEF Positions
    <3> QED BY <3>2, <3>4, <3>5, <3>6 DEF SessionInv
  <2> QED
    BY <2>1, ClientKeepsPlace, ReaderKeepsPlace DEF Next
<1> QED
  BY <1>1, <1>2, PTL DEF Spec

(* For every script, every split of it and every place at which it ends.   *)
THEOREM EveryRequestExact == Spec => []RequestsExact
BY SessionInvariance, PlaceIsExact, PTL

-----------------------------------------------------------------------------
(* Hanging up.                                                             *)

(* A number of too many digits is the first bad frame's: the lines of the  *)
(* frames before, and of its own good parts, are not bad.                  *)
LEMMA LongNumberIsBad ==
  ASSUME SessionInv, LineReady, ~LimitOverrun, NEW marker,
         (pc = "header" /\ marker = "*") \/ (pc = "bulk" /\ marker = "$"),
         LengthLine(marker, Line), TooManyDigits(Tail(Line)),
         NEW n \in 0 .. Len(script), Reached(n)
  PROVE  n < Len(script) /\ Unconvertible(script[n + 1])
<1> DEFINE f == script[n + 1]
<1>2. n < Len(script)
  <2>1. CASE pc = "header"
    <3>1. n # Len(script)
      BY <2>1, NothingFollows
    <3> QED BY <3>1, PlaceFacts
  <2>2. CASE pc = "bulk"
    BY <2>2 DEF Reached
  <2> QED BY <2>1, <2>2
<1>3. Positions /\ f \in ClientFrame /\ f.rest \in Seq(Byte) /\ f.head \in Seq(Byte)
  <2>1. n + 1 \in 1 .. Len(script)
    BY <1>2, PlaceFacts
  <2>2. script \in Scripts /\ Positions
    BY PlaceFacts
  <2>3. f \in ClientFrame
    BY <2>1, <2>2, ScriptFacts
  <2> QED BY <2>2, <2>3, PieceFacts
<1>4. Line = LineOf(f.rest) /\ marker = (IF f.head = <<>> THEN "*" ELSE "$") => Unconvertible(f)
  BY DEF Unconvertible, LimitOverrun
<1>5. ASSUME NEW b \in Seq(Byte), Shows(stream, consumed + 1, b), Accepted(marker, b)
      PROVE  FALSE
  BY <1>3, <1>5, GoodLine DEF Accepted
<1>6. ASSUME Shows(stream, consumed + 1, f.rest), BadLine(marker, f.rest)
      PROVE  Line = LineOf(f.rest)
  BY <1>3, <1>6, BadLineFound
<1>7. CASE pc = "header"
  <2>1. /\ f.head = <<>> => Shows(stream, consumed + 1, f.rest) /\ BadLine("*", f.rest)
        /\ f.head # <<>> => Shows(stream, consumed + 1, f.head) /\ IsHead("*", f.head)
    BY <1>2, <1>7, AtHeader
  <2>2. marker = "*"
    BY <1>7
  <2>3. f.head = <<>>
    BY <1>3, <1>5, <2>1, <2>2 DEF IsHead
  <2> QED BY <1>2, <1>4, <1>6, <2>1, <2>2, <2>3
<1>8. CASE pc = "bulk"
  <2>1. PICK i \in Nat : Within(f, i) /\ consumed = Start(n) + Offset(f, i)
    BY <1>8 DEF Reached
  <2> DEFINE b == NextPart(f, i)
  <2>2. /\ b \in Seq(Byte) /\ Shows(stream, Start(n) + 1 + Offset(f, i), b)
        /\ Start(n) \in Nat /\ Offset(f, i) \in Nat
        /\ i < Len(f.bulks) => IsHead("$", b)
        /\ ~(i < Len(f.bulks)) => b = f.rest /\ BadBulk(f.rest)
    BY <1>2, <2>1, AtBulk
  <2>3. Shows(stream, consumed + 1, b)
    <3>1. Start(n) + 1 + Offset(f, i) = consumed + 1
      BY <2>1, <2>2
    <3> QED BY <2>2, <3>1
  <2>4. marker = "$" /\ f.head # <<>>
    BY <1>8, <2>1 DEF Within
  <2> HIDE DEF b
  <2>5. ~Accepted("$", b)
    BY <1>5, <2>2, <2>3, <2>4
  <2>6. b = f.rest /\ BadLine("$", b)
    BY <2>2, <2>5 DEF IsHead, BadBulk
  <2> QED BY <1>2, <1>4, <1>6, <2>3, <2>4, <2>6
<1> QED BY <1>7, <1>8

(* Where a session is closed at that number, the rest was served.          *)
LEMMA SilenceShown ==
  ASSUME SessionInv, NEW n \in 0 .. Len(script), Reached(n), n < Len(script),
         Unconvertible(script[n + 1]), UNCHANGED <<script, served>>
  PROVE  SilentOnlyOnLongNumber'
<1>1. n \in 0 .. Len(script) - 1
  BY PlaceFacts
<1>2. (\A i \in 1 .. n : script[i].rest = <<>>) /\ served = FlattenSeq(SubSeq(Requests, 1, n))
  BY DEF Reached, Asked, Joined
<1>3. \E m \in 0 .. Len(script) - 1 :
        /\ Unconvertible(script[m + 1])
        /\ \A i \in 1 .. m : script[i].rest = <<>>
        /\ served = FlattenSeq(SubSeq(Requests, 1, m))
  BY <1>1, <1>2
<1> QED BY <1>3 DEF SilentOnlyOnLongNumber, Requests

(* Whatever a client that is still there sends, and however it is split,   *)
(* it is told why the session ends (resp.py:39-40), unless its first bad   *)
(* frame is bad for a number int() does not convert (resp.py:116); then    *)
(* every request before it was served, and it learns nothing.              *)
THEOREM SilenceIsALongNumber == Spec => []SilentOnlyOnLongNumber
<1>1. Init => SilentOnlyOnLongNumber
  BY DEF Init, SilentOnlyOnLongNumber
<1>2. SessionInv /\ SilentOnlyOnLongNumber /\ [Next]_vars => SilentOnlyOnLongNumber'
  <2> SUFFICES ASSUME SessionInv, SilentOnlyOnLongNumber, [Next]_vars
               PROVE  SilentOnlyOnLongNumber'
    OBVIOUS
  <2>0. PICK n \in 0 .. Len(script) : Reached(n)
    BY DEF SessionInv
  <2>1. CASE Deliver \/ HangUp \/ Reset \/ TakeReply \/ Done \/ UNCHANGED vars
    <3>1. UNCHANGED <<script, pc, served, ending>> /\ (peer' = "open" => peer = "open")
      BY <2>1 DEF Deliver, HangUp, Reset, TakeReply, Done, vars
    <3>2. UNCHANGED Requests
      BY <3>1 DEF Requests
    <3> QED BY <3>1, <3>2 DEF SilentOnlyOnLongNumber
  <2>2. CASE Gone \/ EndOfStream \/ RefusalDrained
    BY <2>2 DEF Gone, EndOfStream, RefusalDrained, Close, Client, SilentOnlyOnLongNumber
  <2>3. CASE Refuse \/ Overlong
    BY <2>3 DEF Overlong, Refuse, Close, SilentOnlyOnLongNumber
  <2>4. CASE Respond \/ Drained
    BY <2>4 DEF Respond, Dispatch, Drained, SilentOnlyOnLongNumber
  <2>5. CASE ReadHeader
    <3>1. CASE Refuse \/ pc' \in {"header", "bulk"}
      BY <2>3, <3>1 DEF SilentOnlyOnLongNumber
    <3>2. CASE LengthLine("*", Line) /\ TooManyDigits(Tail(Line)) /\ Crash
      <4>1. n < Len(script) /\ Unconvertible(script[n + 1])
        BY <2>0, <2>5, <3>2, LongNumberIsBad DEF ReadHeader
      <4> QED BY <2>0, <3>2, <4>1, SilenceShown DEF Crash, Close, Client
    <3> QED BY <2>5, <3>1, <3>2 DEF ReadHeader
  <2>6. CASE ReadBulkHeader
    <3>1. CASE Refuse \/ pc' = "body"
      BY <2>3, <3>1 DEF SilentOnlyOnLongNumber
    <3>2. CASE LengthLine("$", Line) /\ TooManyDigits(Tail(Line)) /\ Crash
      <4>1. n < Len(script) /\ Unconvertible(script[n + 1])
        BY <2>0, <2>6, <3>2, LongNumberIsBad DEF ReadBulkHeader
      <4> QED BY <2>0, <3>2, <4>1, SilenceShown DEF Crash, Close, Client
    <3> QED BY <2>6, <3>1, <3>2 DEF ReadBulkHeader
  <2>7. CASE ReadBody
    <3>1. Refuse \/ pc' \in {"request", "bulk"}
      BY <2>7 DEF ReadBody
    <3> QED BY <2>3, <3>1 DEF SilentOnlyOnLongNumber
  <2> QED
    BY <2>1, <2>2, <2>3, <2>4, <2>5, <2>6, <2>7 DEF Next, Reader
<1> QED
  BY <1>1, <1>2, SessionInvariance, PTL DEF Spec
=============================================================================
