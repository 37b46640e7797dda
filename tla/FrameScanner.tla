---------------------------- MODULE FrameScanner ----------------------------
(* The byte level of a connection: Run appends what Recv returns to         *)
(* InboundBuffer, ConsumeBufferedFrames cuts it into lines.  TCP may cut    *)
(* the client's bytes anywhere.  BridgeServer takes up the frames found     *)
(* here one by one.                                                         *)
EXTENDS Naturals, SequencesExt

CONSTANTS
  FrameMaxBytes,   \* kMCPFrameMaxBytes
  ChunkBytes,      \* kRecvChunkBytes
  StreamBytes      \* bound on the bytes a client sends

ASSUME SizesAssumption ==
  /\ FrameMaxBytes \in Nat \ {0}
  /\ ChunkBytes \in Nat \ {0}
  /\ StreamBytes \in Nat

\* A newline, a carriage return and any other byte.
Bytes == {"nl", "cr", "x"}

VARIABLES
  received,   \* history: every byte Recv has returned
  buffer,     \* InboundBuffer, with indices from 1
  consumed,   \* ConsumedSoFar (and ScanFrom, which equals it)
  frames,     \* history: the lines passed to HandleFrame
  at          \* "recv", "scan", and the ends "tooLarge" and "closed"

vars == <<received, buffer, consumed, frames, at>>

Init ==
  /\ received = <<>> /\ buffer = <<>> /\ frames = <<>>
  /\ consumed = 0
  /\ at = "recv"

------------------------------------------------------------------------------
(* Run.                                                                     *)

Recv(chunk) ==
  /\ at = "recv"
  /\ Len(received) + Len(chunk) <= StreamBytes
  /\ received' = received \o chunk
  /\ buffer' = buffer \o chunk
  /\ consumed' = 0
  /\ at' = "scan"
  /\ UNCHANGED frames

\* The peer has closed, Recv has failed or Stop was asked for.
Leave ==
  /\ at = "recv"
  /\ at' = "closed"
  /\ UNCHANGED <<received, buffer, consumed, frames>>

------------------------------------------------------------------------------
(* ConsumeBufferedFrames.                                                   *)

Newlines == {i \in consumed + 1 .. Len(buffer) : buffer[i] = "nl"}

\* The last byte of the line that ends before the newline at i.
LineEnd(i) == IF i - 1 > consumed /\ buffer[i - 1] = "cr" THEN i - 2 ELSE i - 1

SkipNewline(i) == i

TakeFrame ==
  /\ at = "scan"
  /\ \E i \in Newlines :
       /\ \A k \in Newlines : i <= k
       /\ frames' = IF LineEnd(i) > consumed
                    THEN Append(frames, SubSeq(buffer, consumed + 1, LineEnd(i)))
                    ELSE frames
       /\ consumed' = SkipNewline(i)
  /\ UNCHANGED <<received, buffer, at>>

\* Mutant: a frame of just FrameMaxBytes is waited for.
TooLargeIfLonger == Len(buffer) - consumed > FrameMaxBytes

TooLarge == Len(buffer) - consumed >= FrameMaxBytes

\* Mutant: the bytes after the last newline are dropped with the lines.
DropBuffer == buffer' = <<>>

ShiftBuffer == buffer' = SubSeq(buffer, consumed + 1, Len(buffer))

KeepRest ==
  /\ at = "scan" /\ Newlines = {}
  /\ ~TooLarge
  /\ ShiftBuffer
  /\ consumed' = 0
  /\ at' = "recv"
  /\ UNCHANGED <<received, frames>>

Abort ==
  /\ at = "scan" /\ Newlines = {}
  /\ TooLarge
  /\ at' = "tooLarge"
  /\ UNCHANGED <<received, buffer, consumed, frames>>

------------------------------------------------------------------------------
Chunks == UNION {[1 .. n -> Bytes] : n \in 1 .. ChunkBytes}

Next == (\E chunk \in Chunks : Recv(chunk)) \/ Leave \/ TakeFrame \/ KeepRest \/ Abort

Spec == Init /\ [][Next]_vars

------------------------------------------------------------------------------
(* Properties.                                                              *)

\* Every variable has its type, and no more was consumed than is there.
TypeOK ==
  /\ received \in Seq(Bytes) /\ buffer \in Seq(Bytes)
  /\ consumed \in 0 .. Len(buffer)
  /\ frames \in Seq(Seq(Bytes))
  /\ at \in {"recv", "scan", "tooLarge", "closed"}

\* How much of what was received is not yet cut into lines.
Pending == Len(buffer) - consumed

\* Reference: the lines of a stream, read one byte after the other.  A carriage
\* return before the newline is not part of the line, a blank line is none.
Ends(line) == IF line # <<>> /\ Last(line) = "cr" THEN Front(line) ELSE line

Take(acc, byte) ==
  IF byte # "nl" THEN [acc EXCEPT !.line = Append(@, byte)]
  ELSE [line  |-> <<>>,
        lines |-> IF Ends(acc.line) = <<>> THEN acc.lines
                  ELSE Append(acc.lines, Ends(acc.line))]

\* The reader after i bytes of the stream.
Reader(stream) ==
  LET after[i \in 0 .. Len(stream)] ==
        IF i = 0 THEN [line |-> <<>>, lines |-> <<>>] ELSE Take(after[i - 1], stream[i])
  IN  after

LinesOf(stream) == Reader(stream)[Len(stream)].lines

\* The frames handled are the lines of the bytes consumed, in order, however
\* TCP cut the stream into chunks: no byte is lost, doubled or left over.
FramesAreLines ==
  frames = LinesOf(SubSeq(received, 1, Len(received) - Pending))

\* FrameMaxBytes bounds memory: between two calls of Recv less than a frame is
\* kept, and no frame is a chunk longer than that.
BufferBounded ==
  /\ at = "recv" => Len(buffer) < FrameMaxBytes
  /\ Len(buffer) < FrameMaxBytes + ChunkBytes
  /\ \A i \in 1 .. Len(frames) : Len(frames[i]) < FrameMaxBytes + ChunkBytes

\* Only an unfinished line of FrameMaxBytes or more aborts a connection.
AbortedByLongLine ==
  at = "tooLarge" =>
    /\ Len(received) >= FrameMaxBytes
    /\ \A i \in Len(received) - FrameMaxBytes + 1 .. Len(received) :
         received[i] # "nl"

\* What comes out of the scanner is what the stream's lines and the cap demand.
FramesExact == FramesAreLines /\ AbortedByLongLine
=============================================================================
