----------------------------- MODULE Connection -----------------------------
(***************************************************************************)
(* One client session: read_command (src/pyredis/resp.py:44-116) under     *)
(* handle_connection (src/pyredis/connection.py:23-62), on a stream that   *)
(* arrives one byte at a time and may end or be reset after any of them.   *)
(*                                                                         *)
(* The reader stops at an await and nowhere else; letting bytes arrive     *)
(* between any two of its steps covers every way to split the stream.      *)
(* What a command does is in Durability; here it is the reply it earns.    *)
(***************************************************************************)
EXTENDS Wire

CONSTANTS
  Scripts,               \* sequences of frames a client may send
  MAX_MULTIBULK_LENGTH, MAX_BULK_LENGTH,
  LineLimit,             \* the stream's limit on a line
  HighWater, LowWater    \* replies buffered when drain starts, stops waiting

ASSUME ConnectionAssumption ==
  /\ MaxIntDigits \in Nat /\ LineLimit \in Nat
  /\ HighWater \in Nat /\ LowWater \in 0 .. HighWater
  /\ MAX_MULTIBULK_LENGTH \in Nat /\ MAX_BULK_LENGTH \in Nat

VARIABLES
  script,    \* what the client means to send
  stream,    \* its bytes
  arrived,   \* how many of them did
  peer,      \* "open"; "eof": it sends no more; "reset"
  pc,        \* "header", "bulk", "body", "request", "drain", "refused" (in the
             \* drain after an error reply) or "closed"
  consumed,  \* bytes read
  left,      \* bulk strings of the request still to be read
  length,    \* of the one being read
  args,      \* those read
  served,    \* requests dispatched
  unsent,    \* replies the client has not taken
  ending     \* how it closed: "eof", "gone", "error" (answered), "crash"

reading == <<consumed, left, length, args>>
vars == <<script, stream, arrived, peer, pc, consumed, left, length, args,
          served, unsent, ending>>

(* A line with a marker and a length, if read_command makes sense of it.   *)
LengthLine(marker, line) == line # <<>> /\ line[1] = marker /\ IsLength(Tail(line))

(* What a frame asks for.                                                  *)
Arguments(f) == [i \in DOMAIN f.bulks |-> f.bulks[i].payload]

Frames == [i \in DOMAIN script |-> Bytes(script[i])]

(* The lines read_command accepts, ...                                     *)
LineOf(bytes) == SubSeq(bytes, 1, LineEnd(bytes, 1) - 1)

SizeOf(bytes) == LengthOf(Tail(LineOf(bytes)))

Accepted(marker, bytes) ==
  /\ LineEnd(bytes, 1) # 0 /\ Len(LineOf(bytes)) <= LineLimit
  /\ LengthLine(marker, LineOf(bytes)) /\ ~TooManyDigits(Tail(LineOf(bytes)))
  /\ IF marker = "*" THEN SizeOf(bytes) <= MAX_MULTIBULK_LENGTH
                     ELSE SizeOf(bytes) \in 0 .. MAX_BULK_LENGTH

IsHead(marker, bytes) == Accepted(marker, bytes) /\ LineEnd(bytes, 1) = Len(bytes) - 1

(* ... and the bytes after which it reads no further: another line, one    *)
(* that is too long, or a payload that ends elsewhere than its line says.  *)
BadLine(marker, bytes) ==
  /\ ~Accepted(marker, bytes)
  /\ LineEnd(bytes, 1) # 0 \/ Len(bytes) - 1 > LineLimit

BadBulk(bytes) ==
  \/ BadLine("$", bytes)
  \/ /\ Accepted("$", bytes)
     /\ LET stop == LineEnd(bytes, 1) + SizeOf(bytes) + 2
        IN  stop + 1 <= Len(bytes) /\ SubSeq(bytes, stop, stop + 1) # CRLF

IsBulk(b) == IsHead("$", b.head) /\ SizeOf(b.head) = Len(b.payload)

IsFrame(f) ==
  /\ \A i \in DOMAIN f.bulks : IsBulk(f.bulks[i])
  /\ IF f.head = <<>> THEN f.bulks = <<>> /\ BadLine("*", f.rest)
     ELSE /\ IsHead("*", f.head)
          /\ IF f.rest = <<>> THEN Len(f.bulks) = Max({0, SizeOf(f.head)})
                              ELSE Len(f.bulks) < SizeOf(f.head) /\ BadBulk(f.rest)

(* Any bytes a client may send are such frames, cut where it stops.        *)
ASSUME ScriptAssumption ==
  \A s \in Scripts :
    /\ s \in Seq([head  : Seq(Byte),
                  bulks : Seq([head : Seq(Byte), payload : Seq(Byte)]),
                  rest  : Seq(Byte)])
    /\ \A i \in DOMAIN s : IsFrame(s[i])

Init ==
  /\ script \in Scripts
  /\ stream = FlattenSeq(Frames)
  /\ arrived = 0 /\ peer = "open"
  /\ pc = "header" /\ consumed = 0 /\ left = 0 /\ length = 0 /\ args = <<>>
  /\ served = <<>> /\ unsent = 0 /\ ending = "none"

-----------------------------------------------------------------------------
(* The client.                                                             *)
Deliver ==
  /\ peer = "open" /\ arrived < Len(stream)
  /\ arrived' = arrived + 1
  /\ UNCHANGED <<script, stream, peer, pc, reading, served, unsent, ending>>

(* It shuts its sending side, and still reads.                             *)
HangUp ==
  /\ peer = "open" /\ peer' = "eof"
  /\ UNCHANGED <<script, stream, arrived, pc, reading, served, unsent, ending>>

Reset ==
  /\ peer # "reset" /\ peer' = "reset"
  /\ UNCHANGED <<script, stream, arrived, pc, reading, served, unsent, ending>>

TakeReply ==
  /\ peer # "reset" /\ unsent > 0 /\ unsent' = unsent - 1
  /\ UNCHANGED <<script, stream, arrived, peer, pc, reading, served, ending>>

-----------------------------------------------------------------------------
(* The stream reader.                                                      *)
Buffered == SubSeq(stream, consumed + 1, arrived)

(* readuntil: the line, once it is there.                                  *)
LineReady == LineEnd(Buffered, 1) # 0

Line == SubSeq(Buffered, 1, LineEnd(Buffered, 1) - 1)

LimitOverrun ==
  IF LineReady THEN Len(Line) > LineLimit ELSE Len(Buffered) - 1 > LineLimit

(* Faulty: the terminator is left in the stream.                           *)
PayloadOnly(n) == n

BodyLength(n) == n + Len(CRLF)

BodyReady == Len(Buffered) >= BodyLength(length)

-----------------------------------------------------------------------------
Client == <<script, stream, arrived, peer>>

Close(how) ==
  /\ pc' = "closed" /\ ending' = how
  /\ UNCHANGED <<Client, reading, served>>

(* ProtocolError: an error reply, and the session is over when it is       *)
(* drained.                                                                *)
Refuse ==
  /\ unsent' = unsent + 1
  /\ IF unsent' > HighWater
       THEN pc' = "refused" /\ UNCHANGED <<Client, reading, served, ending>>
       ELSE Close("error")

RefusalDrained ==
  /\ pc = "refused" /\ (peer = "reset" \/ unsent <= LowWater)
  /\ Close(IF peer = "reset" THEN "gone" ELSE "error") /\ UNCHANGED unsent

(* int() raises: the task ends with neither.                               *)
Crash == Close("crash") /\ UNCHANGED unsent

Continue == UNCHANGED <<Client, served, unsent, ending>>

(* ConnectionError, at the next read or the next drain.                    *)
Gone ==
  /\ pc \in {"header", "bulk", "body", "drain"} /\ peer = "reset"
  /\ Close("gone") /\ UNCHANGED unsent

(* Faulty: the end of the stream is seen before what precedes it is read.  *)
EndOfStreamFirst ==
  /\ pc \in {"header", "bulk", "body"} /\ peer = "eof"
  /\ Close("gone") /\ UNCHANGED unsent

(* IncompleteReadError: the stream ended, within a frame or between two.   *)
EndOfStream ==
  /\ peer = "eof"
  /\ \/ pc \in {"header", "bulk"} /\ ~LineReady /\ ~LimitOverrun
     \/ pc = "body" /\ ~BodyReady
  /\ Close(IF pc = "header" /\ Buffered = <<>> THEN "eof" ELSE "gone")
  /\ UNCHANGED unsent

(* Faulty: a line too long is taken for a client that went away.           *)
OverlongGone ==
  /\ pc \in {"header", "bulk"} /\ peer # "reset" /\ LimitOverrun
  /\ Close("gone") /\ UNCHANGED unsent

Overlong ==
  /\ pc \in {"header", "bulk"} /\ peer # "reset" /\ LimitOverrun
  /\ Refuse

TakeLine == consumed' = consumed + Len(Line) + Len(CRLF)

(* The header of a request.                                                *)
ReadHeader ==
  /\ pc = "header" /\ peer # "reset" /\ LineReady /\ ~LimitOverrun
  /\ IF ~LengthLine("*", Line) THEN Refuse
     ELSE IF TooManyDigits(Tail(Line)) THEN Crash
     ELSE IF LengthOf(Tail(Line)) > MAX_MULTIBULK_LENGTH THEN Refuse
     ELSE /\ TakeLine /\ Continue
          /\ left' = Max({0, LengthOf(Tail(Line))})
          /\ pc' = IF left' = 0 THEN "header" ELSE "bulk"
          /\ UNCHANGED <<length, args>>

(* The header of a bulk string.                                            *)
ReadBulkHeader ==
  /\ pc = "bulk" /\ peer # "reset" /\ LineReady /\ ~LimitOverrun
  /\ IF ~LengthLine("$", Line) THEN Refuse
     ELSE IF TooManyDigits(Tail(Line)) THEN Crash
     ELSE IF LengthOf(Tail(Line)) \notin 0 .. MAX_BULK_LENGTH THEN Refuse
     ELSE /\ TakeLine /\ Continue
          /\ length' = LengthOf(Tail(Line))
          /\ pc' = "body"
          /\ UNCHANGED <<left, args>>

(* Its payload and its terminator.                                         *)
ReadBody ==
  LET body == SubSeq(Buffered, 1, BodyLength(length))
  IN  /\ pc = "body" /\ peer # "reset" /\ BodyReady
      /\ IF ~IsSuffix(CRLF, body) THEN Refuse
         ELSE /\ consumed' = consumed + Len(body)
              /\ args' = Append(args, SubSeq(body, 1, length))
              /\ left' = left - 1
              /\ pc' = IF left = 1 THEN "request" ELSE "bulk"
              /\ UNCHANGED length /\ Continue

-----------------------------------------------------------------------------
Dispatch(next) ==
  /\ pc = "request"
  /\ served' = Append(served, args)
  /\ args' = <<>>
  /\ unsent' = unsent + 1
  /\ pc' = next
  /\ UNCHANGED <<Client, consumed, left, length, ending>>

(* Faulty: the next request is read whether or not replies pile up.        *)
RespondUndrained == Dispatch("header")

(* dispatch, write, drain.  A reply written to a connection that was reset *)
(* goes nowhere.                                                           *)
Respond ==
  Dispatch(IF peer = "reset" \/ unsent + 1 > HighWater THEN "drain" ELSE "header")

Drained ==
  /\ pc = "drain" /\ peer # "reset" /\ unsent <= LowWater
  /\ pc' = "header"
  /\ UNCHANGED reading /\ Continue

Done == pc = "closed" /\ UNCHANGED vars

Reader ==
  \/ Gone \/ EndOfStream \/ Overlong
  \/ ReadHeader \/ ReadBulkHeader \/ ReadBody \/ Respond \/ Drained \/ RefusalDrained

Next == Deliver \/ HangUp \/ Reset \/ TakeReply \/ Reader \/ Done

Spec == Init /\ [][Next]_vars

(* The event loop resumes a reader that has something to read, and the     *)
(* client takes its replies.                                               *)
FairSpec == Spec /\ WF_vars(Reader) /\ WF_vars(TakeReply)

-----------------------------------------------------------------------------
(* Properties.                                                             *)

(* What each frame asks for; one without arguments, nothing.               *)
Requests ==
  [i \in DOMAIN script |->
     IF script[i].bulks = <<>> THEN <<>> ELSE <<Arguments(script[i])>>]

(* The requests whose last byte has arrived, up to the first bad frame.    *)
Complete ==
  LET whole == {n \in 0 .. Len(script) :
                  /\ \A i \in 1 .. n : script[i].rest = <<>>
                  /\ Len(FlattenSeq(SubSeq(Frames, 1, n))) <= arrived}
  IN  FlattenSeq(SubSeq(Requests, 1, Max(whole)))

(* However the stream is split, what is dispatched is what the client sent,*)
(* in order, payloads that look like framing included; and when a session  *)
(* ends other than by a reset, every request that arrived whole before the *)
(* first bad frame was dispatched (resp.py:44-90).                         *)
RequestsExact ==
  /\ IsPrefix(served, Complete)
  /\ pc = "closed" /\ peer # "reset" => served = Complete

(* "the caller must reply and then close" (resp.py:39-40): the server      *)
(* never hangs up on a client that is still there without telling it why.  *)
HangsUpWithReply == pc = "closed" /\ peer = "open" => ending = "error"

(* It does so in one case only, the ValueError of int() (resp.py:116): the *)
(* first bad frame is bad for a number of more digits than int() converts, *)
(* on a line that is not too long, and all before it was served.           *)
Unconvertible(f) ==
  LET line == LineOf(f.rest)
  IN  /\ LengthLine(IF f.head = <<>> THEN "*" ELSE "$", line)
      /\ TooManyDigits(Tail(line)) /\ ~(Len(line) > LineLimit)

SilentOnlyOnLongNumber ==
  pc = "closed" /\ peer = "open" /\ ending # "error" =>
    \E n \in 0 .. Len(script) - 1 :
      /\ Unconvertible(script[n + 1])
      /\ \A i \in 1 .. n : script[i].rest = <<>>
      /\ served = FlattenSeq(SubSeq(Requests, 1, n))

(* A client that pipelines requests and takes no replies makes the server  *)
(* stop reading, not buffer replies without bound (connection.py:58-59).   *)
BacklogBounded == unsent <= HighWater + 1

(* Every request that arrived whole is dispatched, whatever follows it,    *)
(* and although its client has stopped sending, as long as it was not      *)
(* reset (connection.py:31-59).                                            *)
EveryRequestServed == <>[](peer = "reset" \/ served = Complete)
=============================================================================
