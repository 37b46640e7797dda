-------------------------- MODULE FrameScannerProofs ------------------------
(* The memory a connection uses for its input is bounded, for every frame   *)
(* limit, every chunk size and every way the stream is cut.                 *)
EXTENDS FrameScanner, DataLemmas, SequenceTheorems, TLAPS

\* A chunk is a short, non-empty sequence of bytes.
LEMMA ChunkLength ==
  ASSUME NEW chunk \in Chunks
  PROVE  chunk \in Seq(Bytes) /\ Len(chunk) \in 1 .. ChunkBytes
  <1>1. PICK n \in 1 .. ChunkBytes : chunk \in [1 .. n -> Bytes]
    BY DEF Chunks
  <1> QED BY <1>1, SizesAssumption

\* A line found by the scan lies between what was consumed and its newline.
LEMMA LineEndBounds ==
  ASSUME TypeOK, NEW i \in Newlines
  PROVE  /\ i \in Nat /\ i > consumed /\ i <= Len(buffer)
         /\ LineEnd(i) \in consumed .. i - 1
  <1>1. Len(buffer) \in Nat /\ consumed \in 0 .. Len(buffer)
    BY DEF TypeOK
  <1>2. i \in consumed + 1 .. Len(buffer)
    BY DEF Newlines
  <1> QED BY <1>1, <1>2 DEF LineEnd

\* The line is a sequence of bytes and leaves room for its newline.
LEMMA LineLength ==
  ASSUME TypeOK, NEW i \in Newlines
  PROVE  LET line == SubSeq(buffer, consumed + 1, LineEnd(i))
         IN  line \in Seq(Bytes) /\ Len(line) < Len(buffer)
  <1> DEFINE line == SubSeq(buffer, consumed + 1, LineEnd(i))
  <1>1. /\ buffer \in Seq(Bytes) /\ Len(buffer) \in Nat
        /\ consumed \in 0 .. Len(buffer)
    BY DEF TypeOK
  <1>2. /\ i \in Nat /\ i > consumed /\ i <= Len(buffer)
        /\ LineEnd(i) \in consumed .. i - 1
    BY LineEndBounds
  <1>3. \A k \in consumed + 1 .. LineEnd(i) : buffer[k] \in Bytes
    BY <1>1, <1>2, ElementOfSeq
  <1>4. line \in Seq(Bytes)
    BY <1>1, <1>2, <1>3, SubSeqProperties
  <1>5. Len(line) = LineEnd(i) - consumed
    BY <1>1, <1>2, SubSeqProperties
  <1> QED BY <1>1, <1>2, <1>4, <1>5

\* TypeOK is inductive.
THEOREM TypeCorrect == Spec => []TypeOK
  <1>1. Init => TypeOK
    <2>1. <<>> \in Seq(Bytes) /\ Len(<<>>) = 0 /\ <<>> \in Seq(Seq(Bytes))
      BY EmptySeq
    <2> QED BY <2>1 DEF Init, TypeOK
  <1>2. TypeOK /\ [Next]_vars => TypeOK'
    <2> SUFFICES ASSUME TypeOK, [Next]_vars PROVE TypeOK'
      OBVIOUS
    <2>1. ASSUME NEW chunk \in Chunks, Recv(chunk) PROVE TypeOK'
      <3>1. chunk \in Seq(Bytes)
        BY ChunkLength
      <3>2. buffer' \in Seq(Bytes) /\ received' \in Seq(Bytes)
        BY <2>1, <3>1, ConcatProperties DEF Recv, TypeOK
      <3>3. consumed' \in 0 .. Len(buffer')
        BY <2>1, <3>2, LenProperties DEF Recv
      <3> QED BY <2>1, <3>2, <3>3 DEF Recv, TypeOK
    <2>2. CASE Leave
      BY <2>2 DEF Leave, TypeOK
    <2>3. CASE TakeFrame
      <3>1. PICK i \in Newlines :
              /\ frames' = IF LineEnd(i) > consumed
                           THEN Append(frames, SubSeq(buffer, consumed + 1, LineEnd(i)))
                           ELSE frames
              /\ consumed' = i
        BY <2>3 DEF TakeFrame, SkipNewline
      <3>2. SubSeq(buffer, consumed + 1, LineEnd(i)) \in Seq(Bytes)
        BY LineLength
      <3>3. frames' \in Seq(Seq(Bytes))
        BY <3>1, <3>2, AppendProperties DEF TypeOK
      <3>4. consumed' \in 0 .. Len(buffer)
        BY <3>1, LineEndBounds DEF TypeOK
      <3> QED BY <2>3, <3>3, <3>4 DEF TakeFrame, TypeOK
    <2>4. CASE KeepRest
      <3>1. buffer' \in Seq(Bytes)
        <4>1. /\ buffer \in Seq(Bytes) /\ Len(buffer) \in Nat
              /\ consumed \in 0 .. Len(buffer)
          BY DEF TypeOK
        <4>2. \A k \in consumed + 1 .. Len(buffer) : buffer[k] \in Bytes
          BY <4>1, ElementOfSeq
        <4>3. SubSeq(buffer, consumed + 1, Len(buffer)) \in Seq(Bytes)
          BY <4>1, <4>2, SubSeqProperties
        <4> QED BY <2>4, <4>3 DEF KeepRest, ShiftBuffer
      <3>2. consumed' \in 0 .. Len(buffer')
        BY <2>4, <3>1, LenProperties DEF KeepRest
      <3> QED BY <2>4, <3>1, <3>2 DEF KeepRest, TypeOK
    <2>5. CASE Abort
      BY <2>5 DEF Abort, TypeOK
    <2>6. CASE UNCHANGED vars
      BY <2>6 DEF vars, TypeOK
    <2> QED BY <2>1, <2>2, <2>3, <2>4, <2>5, <2>6 DEF Next
  <1> QED BY <1>1, <1>2, PTL DEF Spec

\* A step keeps the bound: Recv adds one chunk to less than a frame, the scan
\* cuts lines shorter than the buffer, and what is kept is less than a frame.
LEMMA StepKeepsBound ==
  ASSUME TypeOK, TypeOK', BufferBounded, [Next]_vars
  PROVE  BufferBounded'
  <1>1. /\ FrameMaxBytes \in Nat /\ ChunkBytes \in Nat
        /\ FrameMaxBytes > 0 /\ ChunkBytes > 0
        /\ buffer \in Seq(Bytes) /\ Len(buffer) \in Nat
        /\ consumed \in 0 .. Len(buffer)
        /\ frames \in Seq(Seq(Bytes))
    BY SizesAssumption DEF TypeOK
  <1>2. ASSUME NEW chunk \in Chunks, Recv(chunk) PROVE BufferBounded'
    <2>1. chunk \in Seq(Bytes) /\ Len(chunk) \in 1 .. ChunkBytes
      BY ChunkLength
    <2>2. Len(buffer') = Len(buffer) + Len(chunk)
      BY <1>1, <1>2, <2>1, ConcatProperties DEF Recv
    <2>3. Len(buffer) < FrameMaxBytes
      BY <1>2 DEF Recv, BufferBounded
    <2>4. Len(buffer') < FrameMaxBytes + ChunkBytes
      BY <1>1, <2>1, <2>2, <2>3
    <2> QED BY <1>2, <2>4 DEF Recv, BufferBounded
  <1>3. CASE Leave
    BY <1>3 DEF Leave, BufferBounded
  <1>4. CASE TakeFrame
    <2>1. PICK i \in Newlines :
            frames' = IF LineEnd(i) > consumed
                      THEN Append(frames, SubSeq(buffer, consumed + 1, LineEnd(i)))
                      ELSE frames
      BY <1>4 DEF TakeFrame
    <2> DEFINE line == SubSeq(buffer, consumed + 1, LineEnd(i))
    <2>2. line \in Seq(Bytes) /\ Len(line) \in Nat /\ Len(line) < Len(buffer)
      BY LineLength, LenProperties
    <2>3. Len(buffer) < FrameMaxBytes + ChunkBytes
      BY DEF BufferBounded
    <2>4. Len(line) < FrameMaxBytes + ChunkBytes
      BY <1>1, <2>2, <2>3
    <2> HIDE DEF line
    <2>5. ASSUME NEW k \in 1 .. Len(frames')
          PROVE  Len(frames'[k]) < FrameMaxBytes + ChunkBytes
      <3>1. CASE frames' = frames
        BY <3>1, <2>5 DEF BufferBounded
      <3>2. CASE frames' = Append(frames, line)
        <4>1. /\ Len(frames) \in Nat /\ Len(frames') = Len(frames) + 1
              /\ \A j \in 1 .. Len(frames) : frames'[j] = frames[j]
              /\ frames'[Len(frames) + 1] = line
          BY <1>1, <2>2, <3>2, AppendProperties, LenProperties
        <4>2. CASE k \in 1 .. Len(frames)
          BY <4>1, <4>2 DEF BufferBounded
        <4>3. CASE k = Len(frames) + 1
          BY <4>1, <4>3, <2>4
        <4> QED BY <4>1, <4>2, <4>3, <2>5
      <3> QED BY <3>1, <3>2, <2>1 DEF line
    <2>6. UNCHANGED <<buffer, at>>
      BY <1>4 DEF TakeFrame
    <2> QED BY <2>5, <2>6 DEF BufferBounded
  <1>5. CASE KeepRest
    <2>1. Len(buffer') = Len(buffer) - consumed
      <3>1. \A k \in consumed + 1 .. Len(buffer) : buffer[k] \in Bytes
        BY <1>1, ElementOfSeq
      <3>2. buffer' = SubSeq(buffer, consumed + 1, Len(buffer))
        BY <1>5 DEF KeepRest, ShiftBuffer
      <3> QED BY <1>1, <3>1, <3>2, SubSeqProperties
    <2>2. Len(buffer) - consumed < FrameMaxBytes
      BY <1>1, <1>5 DEF KeepRest, TooLarge
    <2>3. Len(buffer') < FrameMaxBytes /\ Len(buffer') < FrameMaxBytes + ChunkBytes
      BY <1>1, <2>1, <2>2
    <2> QED BY <1>5, <2>3 DEF KeepRest, BufferBounded
  <1>6. CASE Abort
    BY <1>6 DEF Abort, BufferBounded
  <1>7. CASE UNCHANGED vars
    BY <1>7 DEF vars, BufferBounded
  <1> QED BY <1>2, <1>3, <1>4, <1>5, <1>6, <1>7 DEF Next

\* The input buffer and the frames cut from it are bounded.
THEOREM MemoryBounded == Spec => []BufferBounded
  <1>1. Init => BufferBounded
    <2>1. FrameMaxBytes > 0 /\ FrameMaxBytes + ChunkBytes > 0 /\ Len(<<>>) = 0
      BY SizesAssumption
    <2> QED BY <2>1, EmptySeq DEF Init, BufferBounded
  <1>2. TypeOK /\ TypeOK' /\ BufferBounded /\ [Next]_vars => BufferBounded'
    BY StepKeepsBound
  <1> QED BY <1>1, <1>2, TypeCorrect, PTL DEF Spec

------------------------------------------------------------------------------
(* The frames handled are the lines of the stream.                          *)

Nothing == [line |-> <<>>, lines |-> <<>>]

\* What the recursive definition of Reader demands of a function.
Reads(f, stream) ==
  f = [i \in 0 .. Len(stream) |-> IF i = 0 THEN Nothing ELSE Take(f[i - 1], stream[i])]

\* For every n, the streams that have n bytes have a reader.
LEMMA SomeReader == \A n \in Nat : \A stream : Len(stream) = n => \E f : Reads(f, stream)
  <1> DEFINE After(f, stream, n) ==
               f = [i \in 0 .. n |-> IF i = 0 THEN Nothing ELSE Take(f[i - 1], stream[i])]
             S == {n \in Nat : \A stream : \E f : After(f, stream, n)}
  <1>1. 0 \in S
    <2>1. ASSUME NEW stream PROVE \E f : After(f, stream, 0)
      <3> DEFINE f == [i \in 0 .. 0 |-> Nothing]
      <3>1. After(f, stream, 0)
        OBVIOUS
      <3> QED BY <3>1
    <2> QED BY <2>1
  <1>2. ASSUME NEW n \in Nat, n \in S PROVE n + 1 \in S
    <2>1. ASSUME NEW stream PROVE \E f : After(f, stream, n + 1)
      <3>1. PICK f : After(f, stream, n)
        BY <1>2
      <3> DEFINE g == [i \in 0 .. n + 1 |-> IF i = n + 1 THEN Take(f[n], stream[n + 1]) ELSE f[i]]
                 h == [i \in 0 .. n + 1 |-> IF i = 0 THEN Nothing ELSE Take(g[i - 1], stream[i])]
      <3>2. ASSUME NEW i \in 0 .. n + 1 PROVE g[i] = h[i]
        <4>1. CASE i = 0
          <5>1. f[0] = Nothing
            BY <3>1
          <5> QED BY <4>1, <5>1
        <4>2. CASE i \in 1 .. n
          <5>1. f[i] = Take(f[i - 1], stream[i])
            BY <3>1, <4>2
          <5>2. g[i] = f[i] /\ g[i - 1] = f[i - 1]
            BY <4>2
          <5>3. h[i] = Take(g[i - 1], stream[i])
            BY <4>2
          <5> QED BY <5>1, <5>2, <5>3
        <4>3. CASE i = n + 1
          <5>1. g[n] = f[n] /\ g[n + 1] = Take(f[n], stream[n + 1])
            OBVIOUS
          <5>2. h[n + 1] = Take(g[n], stream[n + 1])
            OBVIOUS
          <5> QED BY <4>3, <5>1, <5>2
        <4> QED BY <4>1, <4>2, <4>3
      <3>3. g = h
        BY <3>2
      <3> HIDE DEF g
      <3>4. After(g, stream, n + 1)
        BY <3>3
      <3> QED BY <3>4
    <2> QED BY <2>1
  <1> HIDE DEF S
  <1>3. \A n \in Nat : n \in S
    BY <1>1, <1>2, SetInduction
  <1> USE DEF S
  <1>4. ASSUME NEW n \in Nat, NEW stream, Len(stream) = n PROVE \E f : Reads(f, stream)
    <2>1. PICK f : After(f, stream, n)
      BY <1>3
    <2>2. Reads(f, stream)
      BY <2>1, <1>4 DEF Reads
    <2> QED BY <2>2
  <1> QED BY <1>4

\* Reader is the function that its definition describes.
LEMMA ReaderReads ==
  ASSUME NEW stream, Len(stream) \in Nat
  PROVE  Reads(Reader(stream), stream)
  <1>1. \E f : Reads(f, stream)
    BY SomeReader
  <1>2. Reader(stream) = CHOOSE f : Reads(f, stream)
    BY DEF Reader, Reads, Nothing
  <1> QED BY <1>1, <1>2

\* The step of the reader.
LEMMA ReaderStep ==
  ASSUME NEW stream, Len(stream) \in Nat
  PROVE  /\ Reader(stream)[0] = Nothing
         /\ \A i \in 1 .. Len(stream) :
              Reader(stream)[i] = Take(Reader(stream)[i - 1], stream[i])
  <1> DEFINE f == Reader(stream)
  <1>1. f = [i \in 0 .. Len(stream) |-> IF i = 0 THEN Nothing ELSE Take(f[i - 1], stream[i])]
    BY ReaderReads DEF Reads
  <1> HIDE DEF f
  <1>2. f[0] = Nothing
    BY <1>1
  <1>3. ASSUME NEW i \in 1 .. Len(stream)
        PROVE  f[i] = Take(f[i - 1], stream[i])
    BY <1>1
  <1> QED BY <1>2, <1>3 DEF f

\* After n bytes that two streams have in common the reader is the same.
LEMMA SamePrefix ==
  ASSUME NEW s, NEW t, Len(s) \in Nat, Len(t) \in Nat,
         NEW n \in Nat, n <= Len(s), n <= Len(t),
         \A i \in 1 .. n : s[i] = t[i]
  PROVE  Reader(s)[n] = Reader(t)[n]
  <1> DEFINE S == {k \in Nat : k <= n => Reader(s)[k] = Reader(t)[k]}
  <1>1. 0 \in S
    BY ReaderStep
  <1>2. ASSUME NEW k \in Nat, k \in S PROVE k + 1 \in S
    <2> SUFFICES ASSUME k + 1 <= n PROVE Reader(s)[k + 1] = Reader(t)[k + 1]
      OBVIOUS
    <2>1. Reader(s)[k] = Reader(t)[k] /\ s[k + 1] = t[k + 1]
      BY <1>2
    <2>2. k + 1 \in 1 .. Len(s) /\ k + 1 \in 1 .. Len(t) /\ (k + 1) - 1 = k
      OBVIOUS
    <2>3. Reader(s)[k + 1] = Take(Reader(s)[k], s[k + 1])
      BY <2>2, ReaderStep
    <2>4. Reader(t)[k + 1] = Take(Reader(t)[k], t[k + 1])
      BY <2>2, ReaderStep
    <2> QED BY <2>1, <2>3, <2>4
  <1> HIDE DEF S
  <1>3. \A k \in Nat : k \in S
    BY <1>1, <1>2, SetInduction
  <1> USE DEF S
  <1> QED BY <1>3

\* What Take does with a byte of a line and with the byte that ends it.
LEMMA TakeByte ==
  ASSUME NEW line, NEW lines, NEW byte
  PROVE  LET acc == [line |-> line, lines |-> lines]
         IN  /\ byte # "nl" => Take(acc, byte) = [line |-> Append(line, byte), lines |-> lines]
             /\ byte = "nl" => Take(acc, byte) =
                  [line  |-> <<>>,
                   lines |-> IF Ends(line) = <<>> THEN lines ELSE Append(lines, Ends(line))]
  <1> DEFINE acc == [line |-> line, lines |-> lines]
  <1>1. acc.line = line /\ acc.lines = lines
    OBVIOUS
  <1>2. [acc EXCEPT !.line = Append(@, byte)] = [line |-> Append(line, byte), lines |-> lines]
    OBVIOUS
  <1> HIDE DEF acc
  <1>3. byte # "nl" => Take(acc, byte) = [line |-> Append(line, byte), lines |-> lines]
    BY <1>2 DEF Take
  <1>4. byte = "nl" => Take(acc, byte) =
          [line  |-> <<>>,
           lines |-> IF Ends(line) = <<>> THEN lines ELSE Append(lines, Ends(line))]
    BY <1>1 DEF Take
  <1> QED BY <1>3, <1>4 DEF acc

\* The reader is between two lines after n bytes, and no newline comes before m.
Between(stream, n, lines) == Reader(stream)[n] = [line |-> <<>>, lines |-> lines]
NoNewline(stream, n, m) == \A i \in n + 1 .. m : stream[i] # "nl"

\* Bytes other than a newline are collected: after k of them the line is the
\* bytes read, and no line has been added.
LEMMA ReaderCollects ==
  ASSUME NEW stream \in Seq(Bytes), NEW n \in Nat, NEW lines,
         Between(stream, n, lines),
         NEW m \in Nat, n <= m, m <= Len(stream), NoNewline(stream, n, m)
  PROVE  Reader(stream)[m] = [line |-> SubSeq(stream, n + 1, m), lines |-> lines]
  <1> DEFINE S == {k \in Nat : n + k <= m =>
                     Reader(stream)[n + k] = [line |-> SubSeq(stream, n + 1, n + k), lines |-> lines]}
  <1>0. Len(stream) \in Nat
    BY LenProperties
  <1>1. 0 \in S
    <2>1. SubSeq(stream, n + 1, n + 0) = <<>>
      BY SMT
    <2> QED BY <2>1 DEF Between
  <1>2. ASSUME NEW k \in Nat, k \in S PROVE k + 1 \in S
    <2> SUFFICES ASSUME n + (k + 1) <= m
                 PROVE  Reader(stream)[n + (k + 1)]
                          = [line |-> SubSeq(stream, n + 1, n + (k + 1)), lines |-> lines]
      OBVIOUS
    <2> DEFINE p == n + k + 1
    <2>1. p \in 1 .. Len(stream) /\ p - 1 = n + k /\ p \in n + 1 .. m
      BY <1>0
    <2>2. Reader(stream)[n + k] = [line |-> SubSeq(stream, n + 1, n + k), lines |-> lines]
      BY <1>2
    <2>3. Reader(stream)[p] = Take(Reader(stream)[p - 1], stream[p])
      BY <2>1, <1>0, ReaderStep
    <2>4. stream[p] # "nl"
      BY <2>1 DEF NoNewline
    <2>5. Reader(stream)[p] = [line |-> Append(SubSeq(stream, n + 1, n + k), stream[p]), lines |-> lines]
      <3> DEFINE line == SubSeq(stream, n + 1, n + k)
                 byte == stream[p]
      <3>1. Reader(stream)[p] = Take([line |-> line, lines |-> lines], byte)
        BY <2>1, <2>2, <2>3
      <3> HIDE DEF line, byte
      <3>2. byte # "nl" => Take([line |-> line, lines |-> lines], byte)
                             = [line |-> Append(line, byte), lines |-> lines]
        BY TakeByte
      <3>3. byte # "nl"
        BY <2>4 DEF byte
      <3>4. Reader(stream)[p] = [line |-> Append(line, byte), lines |-> lines]
        BY <3>1, <3>2, <3>3
      <3> QED BY <3>4 DEF line, byte
    <2>6. Append(SubSeq(stream, n + 1, n + k), stream[p]) = SubSeq(stream, n + 1, p)
      BY <2>1, <1>0, SMT
    <2>7. Reader(stream)[p] = [line |-> SubSeq(stream, n + 1, p), lines |-> lines]
      BY <2>5, <2>6
    <2>8. p = n + (k + 1)
      OBVIOUS
    <2> HIDE DEF p
    <2> QED BY <2>7, <2>8
  <1> HIDE DEF S
  <1>3. \A k \in Nat : k \in S
    BY <1>1, <1>2, SetInduction
  <1> USE DEF S
  <1>4. m - n \in Nat /\ n + (m - n) = m
    OBVIOUS
  <1> QED BY <1>3, <1>4

\* A line without the carriage return before its newline is what is cut out of
\* the buffer, and it is blank if nothing is left of it.
LEMMA EndsIsCut ==
  ASSUME TypeOK, NEW i \in Newlines
  PROVE  LET line == SubSeq(buffer, consumed + 1, i - 1)
             cut  == SubSeq(buffer, consumed + 1, LineEnd(i))
         IN  /\ Ends(line) = IF LineEnd(i) > consumed THEN cut ELSE <<>>
             /\ LineEnd(i) > consumed => cut # <<>>
  <1> DEFINE line == SubSeq(buffer, consumed + 1, i - 1)
             cut  == SubSeq(buffer, consumed + 1, LineEnd(i))
  <1>1. /\ buffer \in Seq(Bytes) /\ Len(buffer) \in Nat /\ consumed \in 0 .. Len(buffer)
        /\ i \in consumed + 1 .. Len(buffer)
    BY DEF TypeOK, Newlines
  <1>2. /\ line \in Seq(Bytes) /\ Len(line) = i - 1 - consumed
        /\ \A k \in 1 .. Len(line) : line[k] = buffer[consumed + k]
    <2>1. \A k \in consumed + 1 .. i - 1 : buffer[k] \in Bytes
      BY <1>1, ElementOfSeq
    <2> QED BY <1>1, <2>1, SubSeqProperties
  <1>3. CASE i - 1 = consumed
    <2>1. line = <<>>
      BY <1>2, <1>3, EmptySeq
    <2>2. Ends(line) = <<>> /\ LineEnd(i) = consumed
      BY <2>1, <1>1, <1>3 DEF Ends, LineEnd
    <2> QED BY <2>2, <1>1
  <1>4. CASE i - 1 > consumed
    <2>1. line # <<>> /\ Last(line) = buffer[i - 1]
      <3> HIDE DEF line
      <3>1. Len(line) > 0 /\ Len(line) \in 1 .. Len(line) /\ consumed + Len(line) = i - 1
        BY <1>1, <1>2, <1>4
      <3>2. line[Len(line)] = buffer[i - 1]
        BY <3>1, <1>2
      <3>3. line # <<>>
        BY <3>1, EmptySeq
      <3> QED BY <3>2, <3>3 DEF Last
    <2>2. CASE buffer[i - 1] # "cr"
      BY <2>1, <2>2, <1>1, <1>4 DEF Ends, LineEnd
    <2>3. CASE buffer[i - 1] = "cr"
      <3>1. LineEnd(i) = i - 2 /\ Ends(line) = Front(line)
        BY <2>1, <2>3, <1>4 DEF Ends, LineEnd
      <3>2. Front(line) = SubSeq(line, 1, Len(line) - 1)
        BY DEF Front
      <3>3. /\ Front(line) \in Seq(Bytes) /\ Len(Front(line)) = i - 2 - consumed
            /\ \A k \in 1 .. i - 2 - consumed : Front(line)[k] = buffer[consumed + k]
        <4>1. \A k \in 1 .. Len(line) - 1 : line[k] \in Bytes
          BY <1>2, ElementOfSeq
        <4> HIDE DEF line
        <4> QED BY <1>1, <1>2, <1>4, <3>2, <4>1, SubSeqProperties
      <3>4. CASE i - 2 = consumed
        <4>1. Front(line) = <<>>
          <5> HIDE DEF line
          <5>1. Len(Front(line)) = 0
            BY <3>3, <3>4, <1>1
          <5> QED BY <5>1, <3>3, EmptySeq
        <4> QED BY <4>1, <3>1, <3>4, <1>1
      <3>5. CASE i - 2 > consumed
        <4>1. /\ cut \in Seq(Bytes) /\ Len(cut) = i - 2 - consumed
              /\ \A k \in 1 .. i - 2 - consumed : cut[k] = buffer[consumed + k]
          <5>1. \A k \in consumed + 1 .. i - 2 : buffer[k] \in Bytes
            BY <1>1, ElementOfSeq
          <5> QED BY <1>1, <3>1, <3>5, <5>1, SubSeqProperties
        <4>2. Front(line) = cut
          BY <3>3, <4>1, SeqEqual
        <4>3. cut # <<>>
          BY <4>1, <3>5, <1>1
        <4> QED BY <4>2, <4>3, <3>1, <3>5
      <3> QED BY <3>4, <3>5, <1>1, <1>4
    <2> QED BY <2>2, <2>3
  <1> QED BY <1>1, <1>3, <1>4

\* How many of the bytes received are cut into lines.
Cut == Len(received) - Pending

\* The buffer holds the last bytes received, and a reader of the stream who has
\* got as far as the scan has read the lines that were handled and is between
\* two lines.
StreamInv ==
  /\ Len(buffer) <= Len(received)
  /\ \A k \in 1 .. Len(buffer) : buffer[k] = received[Len(received) - Len(buffer) + k]
  /\ at = "recv" => consumed = 0
  /\ Reader(received)[Cut] = [line |-> <<>>, lines |-> frames]

\* Recv: the bytes that come do not change what was read.
LEMMA RecvKeepsStream ==
  ASSUME TypeOK, StreamInv, NEW chunk \in Chunks, Recv(chunk)
  PROVE  StreamInv'
  <1>1. /\ chunk \in Seq(Bytes) /\ Len(chunk) \in Nat
        /\ received \in Seq(Bytes) /\ Len(received) \in Nat
        /\ buffer \in Seq(Bytes) /\ Len(buffer) \in Nat /\ consumed = 0
        /\ Len(buffer) <= Len(received)
    BY ChunkLength, LenProperties DEF TypeOK, StreamInv, Recv
  <1>2. /\ received' = received \o chunk /\ buffer' = buffer \o chunk
        /\ consumed' = 0 /\ frames' = frames /\ at' = "scan"
    BY DEF Recv
  <1>3. /\ Len(received') = Len(received) + Len(chunk)
        /\ \A k \in 1 .. Len(received) : received'[k] = received[k]
        /\ \A k \in 1 .. Len(chunk) : received'[Len(received) + k] = chunk[k]
    BY <1>1, <1>2, ConcatProperties
  <1>4. /\ Len(buffer') = Len(buffer) + Len(chunk)
        /\ \A k \in 1 .. Len(buffer) : buffer'[k] = buffer[k]
        /\ \A k \in 1 .. Len(chunk) : buffer'[Len(buffer) + k] = chunk[k]
    BY <1>1, <1>2, ConcatProperties
  <1>5. ASSUME NEW k \in 1 .. Len(buffer')
        PROVE  buffer'[k] = received'[Len(received') - Len(buffer') + k]
    <2>0. Len(received') - Len(buffer') = Len(received) - Len(buffer)
      BY <1>1, <1>3, <1>4
    <2>1. CASE k <= Len(buffer)
      <3>1. Len(received) - Len(buffer) + k \in 1 .. Len(received)
        BY <2>1, <1>1
      <3>2. buffer[k] = received[Len(received) - Len(buffer) + k]
        BY <2>1, <1>1 DEF StreamInv
      <3> QED BY <2>0, <3>1, <3>2, <2>1, <1>1, <1>3, <1>4
    <2>2. CASE k > Len(buffer)
      <3> DEFINE j == k - Len(buffer)
      <3>1. /\ j \in 1 .. Len(chunk) /\ k = Len(buffer) + j
            /\ Len(received) - Len(buffer) + k = Len(received) + j
        BY <2>2, <1>1, <1>4
      <3> HIDE DEF j
      <3>2. buffer'[k] = chunk[j]
        BY <3>1, <1>4
      <3>3. received'[Len(received) + j] = chunk[j]
        BY <3>1, <1>3
      <3> QED BY <2>0, <3>1, <3>2, <3>3
    <2> QED BY <2>1, <2>2, <1>1, <1>4
  <1>6. Cut' = Cut /\ Cut \in 0 .. Len(received)
    BY <1>1, <1>2, <1>3, <1>4 DEF Cut, Pending
  <1>7. Reader(received')[Cut] = Reader(received)[Cut]
    <2> DEFINE n == Cut  longer == received'
    <2>1. /\ n \in Nat /\ n <= Len(received) /\ n <= Len(longer) /\ Len(longer) \in Nat
          /\ \A k \in 1 .. n : longer[k] = received[k]
      BY <1>1, <1>3, <1>6
    <2> HIDE DEF n, longer
    <2>2. Reader(longer)[n] = Reader(received)[n]
      BY <2>1, <1>1, SamePrefix
    <2> QED BY <2>2 DEF n, longer
  <1>8. Reader(received)[Cut] = [line |-> <<>>, lines |-> frames]
    BY DEF StreamInv
  <1>9. Len(buffer') <= Len(received')
    BY <1>1, <1>3, <1>4
  <1>10. (Reader(received)[Cut])' = Reader(received')[Cut]
    BY <1>6
  <1> QED BY <1>2, <1>5, <1>7, <1>8, <1>9, <1>10 DEF StreamInv

\* TakeFrame: the reader collects the bytes up to the first newline and ends
\* the line there.
LEMMA TakeFrameKeepsStream ==
  ASSUME TypeOK, StreamInv, TakeFrame
  PROVE  StreamInv'
  <1> DEFINE shift == Len(received) - Len(buffer)
  <1>1. PICK i \in Newlines :
          /\ \A k \in Newlines : i <= k
          /\ frames' = IF LineEnd(i) > consumed
                       THEN Append(frames, SubSeq(buffer, consumed + 1, LineEnd(i)))
                       ELSE frames
          /\ consumed' = i
    BY DEF TakeFrame, SkipNewline
  <1>2. /\ received \in Seq(Bytes) /\ Len(received) \in Nat
        /\ buffer \in Seq(Bytes) /\ Len(buffer) \in Nat
        /\ consumed \in 0 .. Len(buffer) /\ Len(buffer) <= Len(received)
        /\ i \in consumed + 1 .. Len(buffer) /\ buffer[i] = "nl"
        /\ \A k \in 1 .. Len(buffer) : buffer[k] = received[shift + k]
    BY LenProperties DEF TypeOK, StreamInv, Newlines
  <1>3. /\ received' = received /\ buffer' = buffer /\ at' = "scan"
    BY DEF TakeFrame
  <1> DEFINE n == shift + consumed
             m == shift + i - 1
             line == SubSeq(buffer, consumed + 1, i - 1)
  <1>4. /\ shift \in Nat /\ n \in Nat /\ m \in Nat /\ n <= m /\ m + 1 <= Len(received)
        /\ Cut = n /\ Cut' = m + 1
    BY <1>1, <1>2, <1>3 DEF Cut, Pending
  <1>5. Reader(received)[n] = [line |-> <<>>, lines |-> frames]
    BY <1>4 DEF StreamInv
  <1>6. ASSUME NEW k \in n + 1 .. m PROVE received[k] # "nl"
    <2>1. k - shift \in consumed + 1 .. i - 1 /\ shift + (k - shift) = k
      BY <1>2, <1>4
    <2>2. received[k] = buffer[k - shift]
      BY <2>1, <1>2
    <2>3. k - shift \notin Newlines
      BY <2>1, <1>1, <1>2 DEF Newlines
    <2> QED BY <2>1, <2>2, <2>3, <1>2 DEF Newlines
  <1>7. SubSeq(received, n + 1, m) = line
    <2>1. /\ line \in Seq(Bytes) /\ Len(line) = i - 1 - consumed
          /\ \A k \in 1 .. i - 1 - consumed : line[k] = buffer[consumed + k]
      <3>1. \A k \in consumed + 1 .. i - 1 : buffer[k] \in Bytes
        BY <1>2, ElementOfSeq
      <3> QED BY <1>2, <3>1, SubSeqProperties
    <2> DEFINE read == SubSeq(received, n + 1, m)
    <2>2. /\ read \in Seq(Bytes) /\ Len(read) = i - 1 - consumed
          /\ \A k \in 1 .. i - 1 - consumed : read[k] = received[n + k]
      <3>1. \A k \in n + 1 .. m : received[k] \in Bytes
        BY <1>2, <1>4, ElementOfSeq
      <3> QED BY <1>2, <1>4, <3>1, SubSeqProperties
    <2> HIDE DEF line, read
    <2>3. \A k \in 1 .. i - 1 - consumed : read[k] = line[k]
      <3> SUFFICES ASSUME NEW k \in 1 .. i - 1 - consumed PROVE read[k] = line[k]
        OBVIOUS
      <3>1. consumed + k \in 1 .. Len(buffer) /\ shift + (consumed + k) = n + k
        BY <1>2, <1>4
      <3>2. buffer[consumed + k] = received[n + k]
        BY <3>1, <1>2
      <3> QED BY <3>2, <2>1, <2>2
    <2>4. read = line
      BY <2>1, <2>2, <2>3, SeqEqual
    <2> QED BY <2>4 DEF read
  <1>8. Reader(received)[m] = [line |-> line, lines |-> frames]
    <2> HIDE DEF n, m, line
    <2>1. /\ n \in Nat /\ m \in Nat /\ n <= m /\ m <= Len(received)
          /\ received \in Seq(Bytes)
          /\ NoNewline(received, n, m) /\ Between(received, n, frames)
      BY <1>2, <1>4, <1>5, <1>6 DEF NoNewline, Between
    <2>2. Reader(received)[m] = [line |-> SubSeq(received, n + 1, m), lines |-> frames]
      <3> HIDE DEF shift
      <3> QED BY ONLY <2>1, ReaderCollects
    <2> QED BY <2>2, <1>7
  <1>9. Reader(received)[m + 1] = Take([line |-> line, lines |-> frames], "nl")
    <2>1. m + 1 = shift + i /\ m + 1 \in 1 .. Len(received) /\ (m + 1) - 1 = m
      BY <1>2, <1>4
    <2>2. received[m + 1] = "nl"
      BY <2>1, <1>2
    <2> HIDE DEF m, line
    <2>3. Reader(received)[m + 1] = Take(Reader(received)[m], received[m + 1])
      BY <2>1, <1>2, ReaderStep
    <2> QED BY <2>2, <2>3, <1>8
  <1>10. Reader(received)[m + 1] =
           [line |-> <<>>, lines |-> IF Ends(line) = <<>> THEN frames
                                     ELSE Append(frames, Ends(line))]
    <2> HIDE DEF m, line
    <2> QED BY <1>9, TakeByte
  <1>11. frames' = IF Ends(line) = <<>> THEN frames ELSE Append(frames, Ends(line))
    BY <1>1, EndsIsCut
  <1>12. Reader(received)[m + 1] = [line |-> <<>>, lines |-> frames']
    BY <1>10, <1>11
  <1>13. (Reader(received)[Cut])' = [line |-> <<>>, lines |-> frames']
    BY <1>3, <1>4, <1>12
  <1> QED BY <1>2, <1>3, <1>13 DEF StreamInv

\* KeepRest: what is kept of the buffer is what is not yet cut.
LEMMA KeepRestKeepsStream ==
  ASSUME TypeOK, StreamInv, KeepRest
  PROVE  StreamInv'
  <1>1. /\ received \in Seq(Bytes) /\ Len(received) \in Nat
        /\ buffer \in Seq(Bytes) /\ Len(buffer) \in Nat
        /\ consumed \in 0 .. Len(buffer) /\ Len(buffer) <= Len(received)
        /\ \A k \in 1 .. Len(buffer) : buffer[k] = received[Len(received) - Len(buffer) + k]
    BY LenProperties DEF TypeOK, StreamInv
  <1>2. /\ received' = received /\ frames' = frames /\ consumed' = 0 /\ at' = "recv"
        /\ buffer' = SubSeq(buffer, consumed + 1, Len(buffer))
    BY DEF KeepRest, ShiftBuffer
  <1>3. /\ Len(buffer') = Len(buffer) - consumed
        /\ \A k \in 1 .. Len(buffer) - consumed : buffer'[k] = buffer[consumed + k]
    <2>1. \A k \in consumed + 1 .. Len(buffer) : buffer[k] \in Bytes
      BY <1>1, ElementOfSeq
    <2> QED BY <1>1, <1>2, <2>1, SubSeqProperties
  <1>4. \A k \in 1 .. Len(buffer') : buffer'[k] = received'[Len(received') - Len(buffer') + k]
    <2> SUFFICES ASSUME NEW k \in 1 .. Len(buffer')
                 PROVE  buffer'[k] = received'[Len(received') - Len(buffer') + k]
      OBVIOUS
    <2>0. k \in 1 .. Len(buffer) - consumed /\ buffer'[k] = buffer[consumed + k]
      BY <1>1, <1>3
    <2>1. consumed + k \in 1 .. Len(buffer)
      BY <2>0, <1>1
    <2>2. Len(received) - Len(buffer) + (consumed + k) = Len(received') - Len(buffer') + k
      <3>1. /\ Len(received') = Len(received) /\ Len(buffer') = Len(buffer) - consumed
            /\ k \in Int /\ consumed \in Int
        BY <1>1, <1>2, <1>3
      <3> QED BY <3>1, <1>1
    <2>3. buffer[consumed + k] = received[Len(received) - Len(buffer) + (consumed + k)]
      BY <2>1, <1>1
    <2> QED BY <2>0, <2>2, <2>3, <1>2
  <1>5. Cut' = Cut
    BY <1>1, <1>2, <1>3 DEF Cut, Pending
  <1>6. Len(buffer') <= Len(received')
    BY <1>1, <1>2, <1>3
  <1>7. (Reader(received)[Cut])' = [line |-> <<>>, lines |-> frames']
    BY <1>2, <1>5 DEF StreamInv
  <1> QED BY <1>2, <1>4, <1>6, <1>7 DEF StreamInv

\* StreamInv is inductive.
LEMMA StreamInvariant == Spec => []StreamInv
  <1>1. Init => StreamInv
    <2> SUFFICES ASSUME Init PROVE StreamInv
      OBVIOUS
    <2>1. Len(received) = 0 /\ Len(buffer) = 0 /\ Cut = 0
      BY EmptySeq DEF Init, Cut, Pending
    <2>2. Reader(received)[0] = [line |-> <<>>, lines |-> <<>>]
      BY <2>1, ReaderStep DEF Nothing
    <2> QED BY <2>1, <2>2 DEF Init, StreamInv
  <1>2. TypeOK /\ StreamInv /\ [Next]_vars => StreamInv'
    <2> SUFFICES ASSUME TypeOK, StreamInv, [Next]_vars PROVE StreamInv'
      OBVIOUS
    <2>1. ASSUME NEW chunk \in Chunks, Recv(chunk) PROVE StreamInv'
      BY <2>1, RecvKeepsStream
    <2>2. CASE TakeFrame
      BY <2>2, TakeFrameKeepsStream
    <2>3. CASE KeepRest
      BY <2>3, KeepRestKeepsStream
    <2>4. CASE Leave \/ Abort
      BY <2>4 DEF Leave, Abort, StreamInv, Cut, Pending
    <2>5. CASE UNCHANGED vars
      BY <2>5 DEF vars, StreamInv, Cut, Pending
    <2> QED BY <2>1, <2>2, <2>3, <2>4, <2>5 DEF Next
  <1> QED BY <1>1, <1>2, TypeCorrect, PTL DEF Spec

\* What was handled is what a reader makes of the bytes cut so far.
LEMMA StreamInvMeansLines ==
  ASSUME TypeOK, StreamInv
  PROVE  FramesAreLines
  <1> DEFINE past == SubSeq(received, 1, Cut)
  <1>1. /\ received \in Seq(Bytes) /\ Len(received) \in Nat
        /\ Len(buffer) \in Nat /\ consumed \in 0 .. Len(buffer)
        /\ Len(buffer) <= Len(received)
    BY LenProperties DEF TypeOK, StreamInv
  <1>2. Cut \in 0 .. Len(received)
    BY <1>1 DEF Cut, Pending
  <1>3. Len(past) = Cut /\ \A k \in 1 .. Cut : past[k] = received[k]
    <2>1. \A k \in 1 .. Cut : received[k] \in Bytes
      BY <1>1, <1>2, ElementOfSeq
    <2> QED BY <1>1, <1>2, <2>1, SubSeqProperties
  <1>4. Reader(past)[Cut] = Reader(received)[Cut]
    <2> DEFINE n == Cut
    <2>1. /\ n \in Nat /\ n <= Len(received) /\ n <= Len(past) /\ Len(past) \in Nat
          /\ \A k \in 1 .. n : past[k] = received[k]
      BY <1>1, <1>2, <1>3
    <2> HIDE DEF past, n
    <2>2. Reader(past)[n] = Reader(received)[n]
      BY <2>1, <1>1, SamePrefix
    <2> QED BY <2>2 DEF n
  <1>5. LinesOf(past) = frames
    <2> HIDE DEF past
    <2>1. Reader(past)[Cut].lines = frames
      BY <1>4 DEF StreamInv
    <2> QED BY <2>1, <1>3 DEF LinesOf
  <1> QED BY <1>5 DEF FramesAreLines, Cut

\* A connection is aborted with FrameMaxBytes bytes after the last newline.
LEMMA AbortKeepsLongLine ==
  ASSUME TypeOK, StreamInv, Abort
  PROVE  AbortedByLongLine'
  <1>1. /\ Len(received) \in Nat /\ Len(buffer) \in Nat /\ consumed \in 0 .. Len(buffer)
        /\ Len(buffer) <= Len(received) /\ FrameMaxBytes \in Nat
        /\ \A k \in 1 .. Len(buffer) : buffer[k] = received[Len(received) - Len(buffer) + k]
    BY LenProperties, SizesAssumption DEF TypeOK, StreamInv
  <1>2. Len(buffer) - consumed >= FrameMaxBytes /\ received' = received
    BY DEF Abort, TooLarge
  <1>3. \A k \in consumed + 1 .. Len(buffer) : buffer[k] # "nl"
    BY DEF Abort, Newlines
  <1>4. ASSUME NEW i \in Len(received) - FrameMaxBytes + 1 .. Len(received)
        PROVE  received[i] # "nl"
    <2> DEFINE k == i - (Len(received) - Len(buffer))
    <2>1. /\ k \in consumed + 1 .. Len(buffer) /\ k \in 1 .. Len(buffer)
          /\ Len(received) - Len(buffer) + k = i
      BY <1>1, <1>2
    <2> HIDE DEF k
    <2> QED BY <2>1, <1>1, <1>3
  <1> QED BY <1>1, <1>2, <1>4 DEF AbortedByLongLine

\* The frames that reach the dispatcher are exactly the lines of the bytes the
\* client sent, however TCP cuts them, and only a line that is too long ends a
\* connection.
THEOREM FramesCorrect == Spec => []FramesExact
  <1>1. Init => AbortedByLongLine
    BY DEF Init, AbortedByLongLine
  <1>2. TypeOK /\ StreamInv /\ AbortedByLongLine /\ [Next]_vars => AbortedByLongLine'
    <2> SUFFICES ASSUME TypeOK, StreamInv, AbortedByLongLine, [Next]_vars
                 PROVE  AbortedByLongLine'
      OBVIOUS
    <2>1. CASE Abort
      BY <2>1, AbortKeepsLongLine
    <2>2. ASSUME at' # "tooLarge" PROVE AbortedByLongLine'
      BY <2>2 DEF AbortedByLongLine
    <2>3. ASSUME NEW chunk \in Chunks, Recv(chunk) PROVE at' # "tooLarge"
      BY <2>3 DEF Recv
    <2>4. CASE Leave \/ TakeFrame \/ KeepRest
      BY <2>4, <2>2 DEF Leave, TakeFrame, KeepRest
    <2>5. CASE UNCHANGED vars
      BY <2>5 DEF vars, AbortedByLongLine
    <2> QED BY <2>1, <2>2, <2>3, <2>4, <2>5 DEF Next
  <1>3. TypeOK /\ StreamInv => FramesAreLines
    BY StreamInvMeansLines
  <1> QED BY <1>1, <1>2, <1>3, TypeCorrect, StreamInvariant, PTL DEF Spec, FramesExact
=============================================================================
