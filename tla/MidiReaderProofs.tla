-------------------------- MODULE MidiReaderProofs --------------------------
(***************************************************************************)
(* Proofs about MidiReader, for every size of the buffer, the signal and   *)
(* the cap, all lengths of messages and every number of them: the SysEx    *)
(* buffer stays within its cap, a message that was sent apart is handed on *)
(* whole, and nothing is handed on that the device did not send as one     *)
(* message.                                                                *)
(***************************************************************************)
EXTENDS MidiReader, SequenceTheorems, WellFoundedInduction, TLAPS

Byte == [of : Nat, at : Nat, mark : {"data", "F0", "F7"}]

\* What TypeOK needs of the bytes under way.
InFlight == wire \in Seq(Byte) /\ pipe \in Seq(Byte) /\ sysexBuf \in Seq(Byte)

IInv == TypeOK /\ InFlight

-----------------------------------------------------------------------------
\* The smaller of two numbers (Count, and the size of a packet).
LEMMA MinOfTwo ==
  ASSUME NEW a \in Nat, NEW b \in Nat
  PROVE  Min({a, b}) = IF a <= b THEN a ELSE b
  <1> DEFINE m == IF a <= b THEN a ELSE b
  <1>1. m \in {a, b} /\ \A y \in {a, b} : m <= y
    OBVIOUS
  <1>2. \A x \in {a, b} : (\A y \in {a, b} : x <= y) => x = m
    OBVIOUS
  <1> QED
    BY <1>1, <1>2 DEF Min

\* A message has the bytes of its length.
LEMMA BytesAreBytes ==
  ASSUME NEW n \in Nat, NEW m \in Message
  PROVE  BytesOf(n, m) \in Seq(Byte)
  <1>1. m.length \in Nat
    BY DEF Message
  <1>2. \A i \in 1 .. m.length : [of |-> n, at |-> i, mark |-> Mark(m, i)] \in Byte
    BY DEF Byte, Mark
  <1> QED
    BY <1>1, <1>2 DEF BytesOf

\* A read returns something, and no more than there is.
LEMMA ChunkFacts ==
  ASSUME IInv, Take
  PROVE  /\ Count \in 1 .. Len(pipe) /\ Chunk \in Seq(Byte) /\ Len(Chunk) = Count
         /\ pipe' \in Seq(Byte)
  <1>1. Len(pipe) \in Nat \ {0} /\ ReadMax \in Nat /\ ReadMax >= 3
    BY MidiReaderAssumption DEF IInv, InFlight, Take
  <1>2. Count = IF ReadMax <= Len(pipe) THEN ReadMax ELSE Len(pipe)
    BY <1>1, MinOfTwo DEF Count
  <1>3. Count \in 1 .. Len(pipe)
    BY <1>1, <1>2
  <1>4. pipe \in Seq(Byte) /\ pipe' = SubSeq(pipe, Count + 1, Len(pipe))
    BY DEF IInv, InFlight, Take
  <1> HIDE DEF Count
  <1> QED
    BY <1>1, <1>3, <1>4 DEF Chunk

-----------------------------------------------------------------------------
\* Nothing is sent, and the buffer is empty.
LEMMA InvInit == Init => IInv
  <1> SUFFICES ASSUME Init PROVE IInv
    OBVIOUS
  <1>1. \A S : <<>> \in Seq(S)
    OBVIOUS
  <1>2. sent \in Seq(Message) /\ wire \in Seq(Byte) /\ pipe \in Seq(Byte) /\ sysexBuf \in Seq(Byte)
    BY <1>1 DEF Init
  <1>3. Len(sysexBuf) = 0
    BY DEF Init
  <1>4. Len(sysexBuf) <= SysexCap /\ inSysex = FALSE /\ sysexBuf = <<>>
    BY <1>3, MidiReaderAssumption DEF Init
  <1> QED
    BY <1>2, <1>4 DEF IInv, TypeOK, InFlight

\* The device has one message more.
LEMMA SendStep ==
  ASSUME IInv, NEW kind \in Kind, NEW length \in Nat, Send(kind, length)
  PROVE  IInv'
  <1> DEFINE m == [kind |-> kind, length |-> length, spaced |-> Drained /\ ~Open]
  <1>1. m \in Message
    BY DEF Message
  <1>2. sent \in Seq(Message) /\ Len(sent) \in Nat
    BY DEF IInv, TypeOK
  <1>3. Unspaced \in Seq(Message)
    <2>1. CASE Drained \/ sent = <<>>
      BY <1>2, <2>1 DEF Unspaced
    <2>2. CASE ~(Drained \/ sent = <<>>)
      <3>1. Len(sent) \in DOMAIN sent /\ sent[Len(sent)] \in Message
        BY <1>2, <2>2
      <3>2. [sent[Len(sent)] EXCEPT !.spaced = FALSE] \in Message
        BY <3>1 DEF Message
      <3>3. Unspaced = [sent EXCEPT ![Len(sent)] = [sent[Len(sent)] EXCEPT !.spaced = FALSE]]
        BY <2>2 DEF Unspaced
      <3> QED
        BY <1>2, <3>1, <3>2, <3>3
    <2> QED
      BY <2>1, <2>2
  <1>4. /\ sent' = Append(Unspaced, m) /\ wire' = BytesOf(Len(sent) + 1, m)
        /\ UNCHANGED <<pipe, inSysex, sysexBuf>>
    BY DEF Send, reader
  <1> HIDE DEF m
  <1>5. sent' \in Seq(Message) /\ wire' \in Seq(Byte)
    BY <1>1, <1>2, <1>3, <1>4, BytesAreBytes
  <1> QED
    BY <1>4, <1>5 DEF IInv, TypeOK, InFlight

\* A packet moves from the device to the driver.
LEMMA PacketStep == ASSUME IInv, Packet PROVE IInv'
  <1> DEFINE n == Min({3, Len(wire)})
  <1>1. wire \in Seq(Byte) /\ pipe \in Seq(Byte) /\ Len(wire) \in Nat \ {0}
    BY DEF IInv, InFlight, Packet
  <1>2. n \in 1 .. Len(wire)
    BY <1>1, MinOfTwo
  <1>3. /\ pipe' = pipe \o SubSeq(wire, 1, n)
        /\ wire' = SubSeq(wire, n + 1, Len(wire))
        /\ UNCHANGED <<sent, inSysex, sysexBuf>>
    BY DEF Packet, reader
  <1> HIDE DEF n
  <1>4. pipe' \in Seq(Byte) /\ wire' \in Seq(Byte)
    BY <1>1, <1>2, <1>3
  <1> QED
    BY <1>3, <1>4 DEF IInv, TypeOK, InFlight

\* The one step that makes the buffer longer: no byte of the read was at the cap.
LEMMA MoreStep == ASSUME IInv, ReadMore PROVE IInv'
  <1>1. /\ Chunk \in Seq(Byte) /\ Len(Chunk) \in Nat \ {0} /\ pipe' \in Seq(Byte)
        /\ UNCHANGED <<sent, wire>>
    BY ChunkFacts DEF ReadMore, Take, IInv, InFlight
  <1>2. SoFar \in Seq(Byte) /\ Len(SoFar) \in Nat
    BY DEF SoFar, IInv, InFlight
  <1>3. TooLong = {} /\ inSysex' = TRUE /\ sysexBuf' = SoFar \o Chunk
    BY DEF ReadMore, Stops
  <1>4. Len(Chunk) \notin TooLong /\ Len(Chunk) \in DOMAIN Chunk
    <2> HIDE DEF Chunk
    <2> QED
      BY <1>1, <1>3
  <1>5. Len(SoFar) + Len(Chunk) <= SysexCap
    <2>1. ~(Len(SoFar) + Len(Chunk) - 1 >= SysexCap)
      BY <1>4 DEF TooLong
    <2> QED
      BY <1>1, <1>2, <2>1, MidiReaderAssumption
  <1> HIDE DEF Chunk, SoFar
  <1>6. sysexBuf' \in Seq(Byte) /\ Len(sysexBuf') <= SysexCap
    BY <1>1, <1>2, <1>3, <1>5
  <1>7. sent' \in Seq(Message) /\ wire' \in Seq(Byte)
    BY <1>1 DEF IInv, TypeOK, InFlight
  <1> QED
    BY <1>1, <1>3, <1>6, <1>7 DEF IInv, TypeOK, InFlight

\* The steps that empty the buffer, or leave it alone.
LEMMA ReadStep == ASSUME IInv, ReadEnd \/ Abandon \/ ReadSignal PROVE IInv'
  <1>1. Take /\ ((UNCHANGED reader) \/ (inSysex' = FALSE /\ sysexBuf' = <<>>))
    BY DEF ReadEnd, Abandon, ReadSignal
  <1>2. pipe' \in Seq(Byte) /\ sent' \in Seq(Message) /\ wire' \in Seq(Byte)
    BY <1>1, ChunkFacts DEF Take, IInv, TypeOK, InFlight
  <1>3. CASE UNCHANGED reader
    BY <1>2, <1>3 DEF reader, IInv, TypeOK, InFlight
  <1>4. CASE inSysex' = FALSE /\ sysexBuf' = <<>>
    <2>1. Len(sysexBuf') = 0 /\ sysexBuf' \in Seq(Byte)
      BY <1>4
    <2>2. Len(sysexBuf') <= SysexCap
      BY <2>1, MidiReaderAssumption
    <2> QED
      BY <1>2, <1>4, <2>1, <2>2 DEF IInv, TypeOK, InFlight
  <1> QED
    BY <1>1, <1>3, <1>4

\* Every step keeps the bytes typed and the buffer within its cap.
LEMMA InvStep == IInv /\ [Next]_vars => IInv'
  <1> SUFFICES ASSUME IInv, [Next]_vars PROVE IInv'
    OBVIOUS
  <1>1. ASSUME NEW l \in ShortLength, Send("short", l) PROVE IInv'
    BY <1>1, SendStep, MidiReaderAssumption DEF Kind
  <1>2. ASSUME NEW l \in SysexLength, Send("sysex", l) \/ Send("cut", l - 1) PROVE IInv'
    <2>1. l \in Nat /\ l - 1 \in Nat
      BY MidiReaderAssumption
    <2> QED
      BY <1>2, <2>1, SendStep DEF Kind
  <1>3. CASE UNCHANGED vars
    BY <1>3 DEF vars, device, reader, IInv, TypeOK, InFlight
  <1> QED
    BY <1>1, <1>2, <1>3, PacketStep, MoreStep, ReadStep DEF Next

\* The buffer of a SysEx message never holds more than sysexCap_ bytes, and none
\* outside of a message, whatever the device sends and however it is read.
THEOREM Bounded == Spec => []TypeOK
  <1>1. Spec => []IInv
    BY InvInit, InvStep, PTL DEF Spec
  <1> QED
    BY <1>1, PTL DEF IInv


-----------------------------------------------------------------------------
(* The bytes that were not handed on yet, in the order of the wire.        *)
Stream == sysexBuf \o pipe \o wire

ByteOf(ms, n, k) == [of |-> n, at |-> k, mark |-> Mark(ms[n], k)]

Lengths ==
  \A n \in DOMAIN sent :
    /\ sent[n].length >= 1
    /\ sent[n].kind = "short" => sent[n].length <= 3
    /\ sent[n].kind = "sysex" => sent[n].length >= 2

\* A byte of the messages ms is in its place: the rest of its message follows it,
\* and every later message.
InPlace(ms, s, i) ==
  LET n == s[i].of
      k == s[i].at
  IN  /\ n \in 1 .. Len(ms) /\ k \in 1 .. ms[n].length
      /\ \A j \in 0 .. ms[n].length - k : i + j <= Len(s) /\ s[i + j] = ByteOf(ms, n, k + j)
      /\ \A m \in n + 1 .. Len(ms) : \E j \in i + 1 .. Len(s) : s[j] = ByteOf(ms, m, 1)

Ordered(ms, s) == \A i \in 1 .. Len(s) : InPlace(ms, s, i)

\* The buffer holds the beginning of a SysEx message, without its end.
Buffer ==
  /\ inSysex => sysexBuf # <<>> /\ sysexBuf[1].mark = "F0"
  /\ \A i \in 1 .. Len(sysexBuf) : sysexBuf[i].mark # "F7"

Tracked(n) == sent[n].spaced /\ sent[n].kind # "cut" /\ Fits(sent[n])

\* A message that was sent apart was handed on and is gone from the stream, or it
\* is all the stream.
Past(n)  == Handed(n) /\ \A i \in 1 .. Len(Stream) : Stream[i].of # n
Alone(n) ==
  /\ n = Len(sent) /\ Stream = Bytes(n)
  /\ sent[n].kind = "short" => ~inSysex /\ (wire = <<>> \/ pipe = <<>>)

Underway == \A n \in DOMAIN sent : Tracked(n) => Past(n) \/ Alone(n)

HandedOn ==
  /\ handed \in Seq(Seq(Byte))
  /\ \A i \in DOMAIN handed : Len(handed[i]) >= 1 /\ handed[i][1].of \in DOMAIN sent

ByteInv == Lengths /\ Ordered(sent, Stream) /\ Buffer /\ Underway /\ HandedOn /\ OnlyMessages

-----------------------------------------------------------------------------
\* A set of numbers has a smallest (the first byte at which a read stops).
LEMMA MinIsLeast ==
  ASSUME NEW S \in SUBSET Nat, S # {}
  PROVE  Min(S) \in S /\ \A y \in S : Min(S) <= y
  <1> DEFINE R == OpToRel(<, Nat)
  <1>1. IsWellFoundedOn(R, Nat)
    BY NatLessThanWellFounded
  <1>2. \A x, y \in Nat : <<y, x>> \in R <=> y < x
    BY DEF OpToRel
  <1> HIDE DEF R
  <1>3. PICK x \in S : \A y \in S : ~(<<y, x>> \in R)
    BY <1>1, WFMin
  <1>4. \A y \in S : x <= y
    <2> TAKE y \in S
    <2>1. x \in Nat /\ y \in Nat /\ ~(y < x)
      BY <1>2, <1>3
    <2> QED
      BY <2>1
  <1> QED
    BY <1>4 DEF Min

\* The bytes of a message, one by one.
LEMMA BytesFacts ==
  ASSUME IInv, NEW n \in DOMAIN sent
  PROVE  /\ sent[n] \in Message /\ n \in Nat /\ n \in 1 .. Len(sent)
         /\ Bytes(n) \in Seq(Byte) /\ Len(Bytes(n)) = sent[n].length
         /\ \A k \in 1 .. sent[n].length : Bytes(n)[k] = ByteOf(sent, n, k)
  <1>1. sent[n] \in Message /\ n \in 1 .. Len(sent) /\ Len(sent) \in Nat
    BY DEF IInv, TypeOK
  <1>2. n \in Nat /\ sent[n].length \in Nat
    BY <1>1 DEF Message
  <1>3. Bytes(n) \in Seq(Byte)
    BY <1>1, <1>2, BytesAreBytes DEF Bytes
  <1>4. DOMAIN Bytes(n) = 1 .. sent[n].length
    BY DEF Bytes, BytesOf
  <1>5. Len(Bytes(n)) = sent[n].length
    BY <1>2, <1>3, <1>4
  <1> QED
    BY <1>1, <1>2, <1>3, <1>5 DEF Bytes, BytesOf, ByteOf

\* Where the bytes of the stream are.
LEMMA StreamFacts ==
  ASSUME IInv
  PROVE  /\ Stream \in Seq(Byte) /\ Len(sysexBuf) \in Nat /\ Len(pipe) \in Nat /\ Len(wire) \in Nat
         /\ Len(Stream) = Len(sysexBuf) + Len(pipe) + Len(wire)
         /\ \A i \in 1 .. Len(sysexBuf) : Stream[i] = sysexBuf[i]
         /\ \A i \in 1 .. Len(pipe) : Stream[Len(sysexBuf) + i] = pipe[i]
         /\ \A i \in 1 .. Len(wire) : Stream[Len(sysexBuf) + Len(pipe) + i] = wire[i]
  <1>1. sysexBuf \in Seq(Byte) /\ pipe \in Seq(Byte) /\ wire \in Seq(Byte)
    BY DEF IInv, InFlight
  <1>2. /\ sysexBuf \o pipe \in Seq(Byte) /\ Len(sysexBuf \o pipe) = Len(sysexBuf) + Len(pipe)
        /\ \A i \in 1 .. Len(sysexBuf) + Len(pipe) : (sysexBuf \o pipe)[i] =
             IF i <= Len(sysexBuf) THEN sysexBuf[i] ELSE pipe[i - Len(sysexBuf)]
    BY <1>1, ConcatProperties
  <1> DEFINE t == sysexBuf \o pipe
  <1>3. /\ Stream \in Seq(Byte) /\ Len(Stream) = Len(t) + Len(wire)
        /\ \A i \in 1 .. Len(t) + Len(wire) : Stream[i] =
             IF i <= Len(t) THEN t[i] ELSE wire[i - Len(t)]
    BY <1>1, <1>2, ConcatProperties DEF Stream
  <1>4. Len(sysexBuf) \in Nat /\ Len(pipe) \in Nat /\ Len(wire) \in Nat
    BY <1>1
  <1> HIDE DEF t
  <1>5. /\ Len(t) = Len(sysexBuf) + Len(pipe)
        /\ \A i \in 1 .. Len(t) : t[i] =
             IF i <= Len(sysexBuf) THEN sysexBuf[i] ELSE pipe[i - Len(sysexBuf)]
    BY <1>2 DEF t
  <1>6. \A i \in 1 .. Len(sysexBuf) : Stream[i] = sysexBuf[i]
    BY <1>3, <1>4, <1>5
  <1>7. \A i \in 1 .. Len(pipe) : Stream[Len(sysexBuf) + i] = pipe[i]
    <2> TAKE i \in 1 .. Len(pipe)
    <2>1. Stream[Len(sysexBuf) + i] = t[Len(sysexBuf) + i]
      BY <1>3, <1>4, <1>5
    <2>2. t[Len(sysexBuf) + i] = pipe[Len(sysexBuf) + i - Len(sysexBuf)]
      BY <1>4, <1>5
    <2>3. Len(sysexBuf) + i - Len(sysexBuf) = i
      BY <1>4
    <2> QED
      BY <2>1, <2>2, <2>3
  <1>8. \A i \in 1 .. Len(wire) : Stream[Len(sysexBuf) + Len(pipe) + i] = wire[i]
    <2> TAKE i \in 1 .. Len(wire)
    <2>1. Stream[Len(t) + i] = wire[Len(t) + i - Len(t)]
      BY <1>3, <1>4, <1>5
    <2>2. Len(t) + i - Len(t) = i
      BY <1>4, <1>5
    <2> QED
      BY <1>5, <2>1, <2>2
  <1> QED
    BY <1>3, <1>4, <1>5, <1>6, <1>7, <1>8

\* What is left of a stream when bytes are taken off its front.
LEMMA SuffixOrdered ==
  ASSUME NEW ms, NEW s \in Seq(Byte), NEW t \in Seq(Byte), NEW c \in 0 .. Len(s),
         Len(t) = Len(s) - c, \A i \in 1 .. Len(t) : t[i] = s[i + c],
         ms \in Seq(Message), Ordered(ms, s)
  PROVE  Ordered(ms, t)
  <1> SUFFICES ASSUME NEW i \in 1 .. Len(t) PROVE InPlace(ms, t, i)
    BY DEF Ordered
  <1> DEFINE n == s[i + c].of
             k == s[i + c].at
  <1>1. Len(s) \in Nat /\ Len(t) \in Nat /\ i + c \in 1 .. Len(s) /\ t[i] = s[i + c]
    OBVIOUS
  <1>2. InPlace(ms, s, i + c)
    BY <1>1 DEF Ordered
  <1>3. /\ n \in 1 .. Len(ms) /\ k \in 1 .. ms[n].length
        /\ \A j \in 0 .. ms[n].length - k :
             i + c + j <= Len(s) /\ s[i + c + j] = ByteOf(ms, n, k + j)
        /\ \A m \in n + 1 .. Len(ms) : \E j \in i + c + 1 .. Len(s) : s[j] = ByteOf(ms, m, 1)
    BY <1>2 DEF InPlace
  <1> HIDE DEF n, k
  <1>4. ms[n].length \in Nat
    <2>1. ms[n] \in Message
      BY <1>3
    <2> QED
      BY <2>1 DEF Message
  <1>5. ASSUME NEW j \in 0 .. ms[n].length - k
        PROVE  i + j <= Len(t) /\ t[i + j] = ByteOf(ms, n, k + j)
    <2>1. i + c + j <= Len(s) /\ s[i + c + j] = ByteOf(ms, n, k + j)
      BY <1>3
    <2>2. i + j \in 1 .. Len(t) /\ i + c + j = i + j + c
      BY <1>1, <1>3, <1>4, <2>1
    <2> QED
      BY <1>1, <2>1, <2>2
  <1>6. ASSUME NEW m \in n + 1 .. Len(ms)
        PROVE  \E j \in i + 1 .. Len(t) : t[j] = ByteOf(ms, m, 1)
    <2>1. PICK j \in i + c + 1 .. Len(s) : s[j] = ByteOf(ms, m, 1)
      BY <1>3
    <2>2. j - c \in i + 1 .. Len(t) /\ j - c + c = j /\ j - c \in 1 .. Len(t)
      BY <1>1
    <2>3. t[j - c] = s[j]
      BY <2>2
    <2> QED
      BY <2>1, <2>2, <2>3
  <1>7. t[i].of = n /\ t[i].at = k
    BY <1>1 DEF n, k
  <1> QED
    BY <1>3, <1>5, <1>6, <1>7 DEF InPlace

\* A message whose first byte is in the stream is there from this byte on.
LEMMA WholeFrom ==
  ASSUME IInv, Ordered(sent, Stream), NEW i \in 1 .. Len(Stream), Stream[i].at = 1
  PROVE  LET n == Stream[i].of
         IN  /\ n \in DOMAIN sent /\ n \in 1 .. Len(sent) /\ sent[n].length \in Nat
             /\ i + sent[n].length - 1 <= Len(Stream)
             /\ \A k \in 1 .. sent[n].length : Stream[i + k - 1] = ByteOf(sent, n, k)
  <1> DEFINE n == Stream[i].of
  <1>1. InPlace(sent, Stream, i)
    BY DEF Ordered
  <1>2. /\ n \in 1 .. Len(sent) /\ 1 \in 1 .. sent[n].length
        /\ \A j \in 0 .. sent[n].length - 1 :
             i + j <= Len(Stream) /\ Stream[i + j] = ByteOf(sent, n, 1 + j)
    BY <1>1 DEF InPlace
  <1>3. n \in DOMAIN sent /\ sent[n] \in Message
    BY <1>2 DEF IInv, TypeOK
  <1>4. sent[n].length \in Nat
    BY <1>3 DEF Message
  <1>5. i \in Nat /\ Len(Stream) \in Nat
    BY StreamFacts
  <1> HIDE DEF n
  <1>6. sent[n].length - 1 \in 0 .. sent[n].length - 1
    BY <1>2, <1>4
  <1>7. i + (sent[n].length - 1) <= Len(Stream)
    BY <1>2, <1>6
  <1>8. ASSUME NEW k \in 1 .. sent[n].length
        PROVE  Stream[i + k - 1] = ByteOf(sent, n, k)
    <2>1. k - 1 \in 0 .. sent[n].length - 1 /\ i + (k - 1) = i + k - 1 /\ 1 + (k - 1) = k
      BY <1>4, <1>5
    <2> QED
      BY <1>2, <2>1
  <1>9. i + sent[n].length - 1 <= Len(Stream)
    BY <1>4, <1>5, <1>7
  <1> QED
    BY <1>2, <1>3, <1>4, <1>8, <1>9 DEF n

\* A SysEx message in the stream has its end there.
LEMMA EndInStream ==
  ASSUME IInv, Lengths, Ordered(sent, Stream), NEW i \in 1 .. Len(Stream), Stream[i].at = 1,
         sent[Stream[i].of].kind = "sysex"
  PROVE  LET l == sent[Stream[i].of].length
         IN  l \in Nat /\ l >= 2 /\ i + l - 1 \in 1 .. Len(Stream) /\ Stream[i + l - 1].mark = "F7"
  <1> DEFINE n == Stream[i].of
             l == sent[n].length
  <1>1. /\ n \in DOMAIN sent /\ l \in Nat /\ i + l - 1 <= Len(Stream)
        /\ \A k \in 1 .. l : Stream[i + k - 1] = ByteOf(sent, n, k)
    BY WholeFrom
  <1>2. l >= 2
    BY <1>1 DEF Lengths
  <1>3. Len(Stream) \in Nat
    BY StreamFacts
  <1>4. Stream[i + l - 1] = ByteOf(sent, n, l)
    BY <1>1, <1>2
  <1>5. ByteOf(sent, n, l).mark = "F7"
    BY <1>1, <1>2 DEF ByteOf, Mark
  <1> QED
    BY <1>1, <1>2, <1>3, <1>4, <1>5

\* A byte that begins a SysEx message is its first, whether or not the end was cut.
LEMMA BeginsSysex ==
  ASSUME IInv, Ordered(sent, Stream), NEW i \in 1 .. Len(Stream), Stream[i].mark = "F0"
  PROVE  /\ Stream[i].of \in DOMAIN sent /\ Stream[i].at = 1
         /\ sent[Stream[i].of].kind \in {"sysex", "cut"}
  <1> DEFINE n == Stream[i].of
             k == Stream[i].at
  <1>1. InPlace(sent, Stream, i)
    BY DEF Ordered
  <1>2. /\ n \in 1 .. Len(sent) /\ k \in 1 .. sent[n].length
        /\ \A j \in 0 .. sent[n].length - k :
             i + j <= Len(Stream) /\ Stream[i + j] = ByteOf(sent, n, k + j)
    BY <1>1 DEF InPlace
  <1>3. n \in DOMAIN sent /\ sent[n] \in Message
    BY <1>2 DEF IInv, TypeOK
  <1> HIDE DEF n, k
  <1>4. sent[n].length \in Nat /\ sent[n].kind \in Kind
    BY <1>3 DEF Message
  <1>5. 0 \in 0 .. sent[n].length - k /\ k + 0 = k /\ i + 0 = i
    BY <1>2, <1>4, StreamFacts
  <1>6. Stream[i] = ByteOf(sent, n, k)
    BY <1>2, <1>5
  <1>7. k = 1 /\ sent[n].kind # "short"
    BY <1>6 DEF ByteOf, Mark
  <1> QED
    BY <1>3, <1>4, <1>7 DEF n, k, Kind

\* When everything was read and no SysEx message lacks its end, nothing is buffered.
LEMMA NothingOpen ==
  ASSUME IInv, Lengths, Ordered(sent, Stream), Buffer, Drained, ~Open
  PROVE  sysexBuf = <<>> /\ ~inSysex
  <1> SUFFICES ASSUME inSysex PROVE FALSE
    BY DEF IInv, TypeOK
  <1>1. sysexBuf # <<>> /\ sysexBuf[1].mark = "F0"
    BY DEF Buffer
  <1>2. Len(pipe) = 0 /\ Len(wire) = 0 /\ Len(sysexBuf) \in Nat \ {0}
    BY <1>1 DEF Drained, IInv, InFlight
  <1>3. Len(Stream) = Len(sysexBuf) /\ Len(Stream) \in Nat
    BY <1>2, StreamFacts
  <1>4. \A i \in 1 .. Len(Stream) : Stream[i] = sysexBuf[i] /\ Stream[i].mark # "F7"
    BY <1>3, StreamFacts DEF Buffer
  <1>5. 1 \in 1 .. Len(Stream) /\ Stream[1].mark = "F0"
    BY <1>1, <1>2, <1>3, <1>4
  <1> DEFINE n == Stream[1].of
  <1>6. n \in DOMAIN sent /\ Stream[1].at = 1 /\ sent[n].kind \in {"sysex", "cut"}
    BY <1>5, BeginsSysex
  <1>7. sent[n].kind # "sysex"
    BY <1>4, <1>5, <1>6, EndInStream
  <1>8. PICK m \in n + 1 .. Len(sent) : sent[m].kind = "sysex"
    BY <1>6, <1>7 DEF Open
  <1>9. PICK j \in 2 .. Len(Stream) : Stream[j] = ByteOf(sent, m, 1)
    <2>1. InPlace(sent, Stream, 1)
      BY <1>5 DEF Ordered
    <2>2. \E j \in 1 + 1 .. Len(Stream) : Stream[j] = ByteOf(sent, m, 1)
      BY <2>1 DEF InPlace
    <2> QED
      BY <2>2
  <1>10. j \in 1 .. Len(Stream) /\ Stream[j].of = m /\ Stream[j].at = 1
    BY <1>3, <1>9 DEF ByteOf
  <1> QED
    BY <1>4, <1>8, <1>10, EndInStream

-----------------------------------------------------------------------------
\* Nothing is under way, nothing was handed on.
LEMMA ByteInit == Init => ByteInv
  <1> SUFFICES ASSUME Init PROVE ByteInv
    OBVIOUS
  <1>1. IInv
    BY InvInit
  <1>2. Len(sysexBuf) = 0 /\ Len(pipe) = 0 /\ Len(wire) = 0 /\ Len(Stream) = 0
    BY <1>1, StreamFacts DEF Init
  <1>3. Ordered(sent, Stream)
    BY <1>2 DEF Ordered
  <1>4. DOMAIN sent = {} /\ DOMAIN handed = {} /\ handed \in Seq(Seq(Byte))
    BY DEF Init
  <1>5. Buffer
    BY <1>2 DEF Buffer, Init
  <1> QED
    BY <1>3, <1>4, <1>5 DEF ByteInv, Lengths, Underway, HandedOn, OnlyMessages

\* What a new message leaves of the messages before it: kind and length; the last
\* one is no longer spaced when it was not read by then.
LEMMA SentKept ==
  ASSUME IInv, NEW kind, NEW length, Send(kind, length)
  PROVE  LET m == [kind |-> kind, length |-> length, spaced |-> Drained /\ ~Open]
         IN  /\ Len(sent) \in Nat /\ sent' = Append(Unspaced, m) /\ DOMAIN sent' = 1 .. Len(sent) + 1
             /\ sent'[Len(sent) + 1] = m
             /\ \A n \in 1 .. Len(sent) :
                  /\ sent'[n].kind = sent[n].kind /\ sent'[n].length = sent[n].length
                  /\ sent'[n].spaced => sent[n].spaced
                  /\ n = Len(sent) /\ ~Drained => ~sent'[n].spaced
  <1> DEFINE m == [kind |-> kind, length |-> length, spaced |-> Drained /\ ~Open]
  <1>1. sent \in Seq(Message) /\ Len(sent) \in Nat /\ sent' = Append(Unspaced, m)
    BY DEF IInv, TypeOK, Send
  <1> HIDE DEF m
  <1>2. /\ Unspaced \in Seq(Message) /\ Len(Unspaced) = Len(sent)
        /\ \A n \in 1 .. Len(sent) :
             /\ Unspaced[n].kind = sent[n].kind /\ Unspaced[n].length = sent[n].length
             /\ Unspaced[n].spaced => sent[n].spaced
             /\ n = Len(sent) /\ ~Drained => ~Unspaced[n].spaced
    <2>1. CASE Drained \/ sent = <<>>
      BY <1>1, <2>1 DEF Unspaced
    <2>2. CASE ~(Drained \/ sent = <<>>)
      <3> DEFINE last == [sent[Len(sent)] EXCEPT !.spaced = FALSE]
      <3>1. Len(sent) \in 1 .. Len(sent) /\ sent[Len(sent)] \in Message
        BY <1>1, <2>2
      <3>2. /\ last \in Message /\ last.kind = sent[Len(sent)].kind
            /\ last.length = sent[Len(sent)].length /\ last.spaced = FALSE
        BY <3>1 DEF Message
      <3>3. Unspaced = [sent EXCEPT ![Len(sent)] = last]
        BY <2>2 DEF Unspaced
      <3> HIDE DEF last
      <3>4. /\ Unspaced \in Seq(Message) /\ Len(Unspaced) = Len(sent)
            /\ \A n \in 1 .. Len(sent) : Unspaced[n] = IF n = Len(sent) THEN last ELSE sent[n]
        BY <1>1, <3>1, <3>2, <3>3, ExceptSeq
      <3> QED
        BY <3>2, <3>4
    <2> QED
      BY <2>1, <2>2
  <1>3. /\ DOMAIN sent' = 1 .. Len(sent) + 1 /\ sent'[Len(sent) + 1] = m
        /\ \A n \in 1 .. Len(sent) : sent'[n] = Unspaced[n]
    <2> DEFINE S == Message \cup {m}
    <2>1. Unspaced \in Seq(S) /\ m \in S
      BY <1>2, SeqMonotonic
    <2> HIDE DEF S
    <2>2. /\ Append(Unspaced, m) \in Seq(S) /\ Len(Append(Unspaced, m)) = Len(Unspaced) + 1
          /\ \A n \in 1 .. Len(Unspaced) : Append(Unspaced, m)[n] = Unspaced[n]
          /\ Append(Unspaced, m)[Len(Unspaced) + 1] = m
      BY <2>1, AppendProperties
    <2> QED
      BY <1>1, <1>2, <2>2
  <1>4. \A n \in 1 .. Len(sent) :
          /\ sent'[n].kind = sent[n].kind /\ sent'[n].length = sent[n].length
          /\ sent'[n].spaced => sent[n].spaced
          /\ n = Len(sent) /\ ~Drained => ~sent'[n].spaced
    BY <1>2, <1>3
  <1> QED
    BY <1>1, <1>3, <1>4 DEF m

\* The bytes of the new message go behind those that were there.
LEMMA StreamSend ==
  ASSUME IInv, NEW kind \in Kind, NEW length \in Nat, Send(kind, length)
  PROVE  /\ Len(Stream) \in Nat /\ Stream' \in Seq(Byte) /\ Len(Stream') = Len(Stream) + length
         /\ \A i \in 1 .. Len(Stream) : Stream'[i] = Stream[i]
         /\ \A k \in 1 .. length : Stream'[Len(Stream) + k] = ByteOf(sent', Len(sent) + 1, k)
         /\ wire' \in Seq(Byte) /\ Len(wire') = length
         /\ wire' = BytesOf(Len(sent) + 1, sent'[Len(sent) + 1])
  <1> DEFINE n == Len(sent) + 1
             t == sysexBuf \o pipe
  <1>1. IInv'
    BY SendStep
  <1>2. Len(sent) \in Nat /\ sent'[n].length = length /\ wire' = BytesOf(n, sent'[n])
    BY SentKept DEF Send
  <1>3. /\ wire' \in Seq(Byte) /\ Len(wire') = length
        /\ \A k \in 1 .. length : wire'[k] = ByteOf(sent', n, k)
    <2>1. DOMAIN wire' = 1 .. length /\ \A k \in 1 .. length : wire'[k] = ByteOf(sent', n, k)
      BY <1>2 DEF BytesOf, ByteOf
    <2>2. wire' \in Seq(Byte)
      BY <1>1 DEF IInv, InFlight
    <2> QED
      BY <2>1, <2>2
  <1>4. wire = <<>> /\ UNCHANGED <<sysexBuf, pipe>>
    BY DEF Send, reader
  <1>5. t \in Seq(Byte)
    BY ConcatProperties DEF IInv, InFlight
  <1>6. Stream = t /\ Stream' = t \o wire'
    BY <1>4, <1>5, ConcatEmptySeq DEF Stream
  <1> HIDE DEF t, n
  <1>7. /\ Len(Stream') = Len(t) + Len(wire') /\ Len(t) \in Nat /\ Stream' \in Seq(Byte)
        /\ \A i \in 1 .. Len(t) + Len(wire') : Stream'[i] =
             IF i <= Len(t) THEN t[i] ELSE wire'[i - Len(t)]
    <2>1. wire' \in Seq(Byte)
      BY <1>3
    <2>2. /\ t \o wire' \in Seq(Byte) /\ Len(t \o wire') = Len(t) + Len(wire')
          /\ \A i \in 1 .. Len(t) + Len(wire') : (t \o wire')[i] =
               IF i <= Len(t) THEN t[i] ELSE wire'[i - Len(t)]
      BY <1>5, <2>1, ConcatProperties
    <2>3. Len(t) \in Nat
      BY <1>5
    <2> QED
      BY <1>6, <2>2, <2>3
  <1>8. \A k \in 1 .. length : Stream'[Len(t) + k] = wire'[k]
    <2> TAKE k \in 1 .. length
    <2>1. Stream'[Len(t) + k] = wire'[Len(t) + k - Len(t)]
      BY <1>3, <1>7
    <2>2. Len(t) + k - Len(t) = k
      BY <1>7
    <2> QED
      BY <2>1, <2>2
  <1> QED
    BY <1>2, <1>3, <1>6, <1>7, <1>8 DEF n

\* A message that was sent keeps its bytes.
LEMMA BytesKept ==
  ASSUME IInv, NEW kind, NEW length, Send(kind, length)
  PROVE  \A n \in 1 .. Len(sent) :
           Bytes(n)' = Bytes(n) /\ \A k : ByteOf(sent', n, k) = ByteOf(sent, n, k)
  <1> SUFFICES ASSUME NEW n \in 1 .. Len(sent)
               PROVE  Bytes(n)' = Bytes(n) /\ \A k : ByteOf(sent', n, k) = ByteOf(sent, n, k)
    OBVIOUS
  <1>1. sent'[n].kind = sent[n].kind /\ sent'[n].length = sent[n].length
    BY SentKept
  <1>2. \A k : Mark(sent'[n], k) = Mark(sent[n], k)
    BY <1>1 DEF Mark
  <1>3. BytesOf(n, sent'[n]) = BytesOf(n, sent[n])
    BY <1>1, <1>2 DEF BytesOf
  <1> QED
    BY <1>2, <1>3 DEF Bytes, ByteOf

\* The new message is the last, and all of it is in the stream.
LEMMA OrderedSend ==
  ASSUME IInv, ByteInv, NEW kind \in Kind, NEW length \in Nat, length >= 1, Send(kind, length)
  PROVE  Ordered(sent', Stream')
  <1> SUFFICES ASSUME NEW i \in 1 .. Len(Stream') PROVE InPlace(sent', Stream', i)
    BY DEF Ordered
  <1> DEFINE l == Len(sent)
             s == Len(Stream)
  <1>1. /\ s \in Nat /\ Len(Stream') = s + length
        /\ \A j \in 1 .. s : Stream'[j] = Stream[j]
        /\ \A k \in 1 .. length : Stream'[s + k] = ByteOf(sent', l + 1, k)
    BY StreamSend
  <1>2. /\ l \in Nat /\ DOMAIN sent' = 1 .. l + 1 /\ sent'[l + 1].length = length
        /\ \A n \in 1 .. l : sent'[n].length = sent[n].length
    <2>1. /\ l \in Nat /\ DOMAIN sent' = 1 .. l + 1
          /\ sent'[l + 1] = [kind |-> kind, length |-> length, spaced |-> Drained /\ ~Open]
          /\ \A n \in 1 .. l : sent'[n].length = sent[n].length
      BY SentKept
    <2> HIDE DEF l
    <2> QED
      BY <2>1
  <1>3. Len(sent') = l + 1
    <2>1. sent' \in Seq(Message)
      BY SendStep DEF IInv, TypeOK
    <2> QED
      BY <1>2, <2>1
  <1>4. \A n \in 1 .. l : \A k : ByteOf(sent', n, k) = ByteOf(sent, n, k)
    BY BytesKept
  <1> HIDE DEF l, s
  <1>5. CASE i \in 1 .. s
    <2> DEFINE n == Stream[i].of
               k == Stream[i].at
    <2>1. InPlace(sent, Stream, i)
      BY <1>5 DEF ByteInv, Ordered, s
    <2>2. /\ n \in 1 .. l /\ k \in 1 .. sent[n].length
          /\ \A j \in 0 .. sent[n].length - k : i + j <= s /\ Stream[i + j] = ByteOf(sent, n, k + j)
          /\ \A m \in n + 1 .. l : \E j \in i + 1 .. s : Stream[j] = ByteOf(sent, m, 1)
      BY <2>1 DEF InPlace, l, s
    <2>3. Stream'[i].of = n /\ Stream'[i].at = k
      BY <1>1, <1>5
    <2> HIDE DEF n, k
    <2>4. sent[n].length \in Nat
      <3>1. sent[n] \in Message
        BY <2>2 DEF IInv, TypeOK, l
      <3> QED
        BY <3>1 DEF Message
    <2>5. ASSUME NEW j \in 0 .. sent'[n].length - k
          PROVE  i + j <= Len(Stream') /\ Stream'[i + j] = ByteOf(sent', n, k + j)
      <3>1. j \in 0 .. sent[n].length - k
        BY <1>2, <2>2
      <3>2. i + j <= s /\ Stream[i + j] = ByteOf(sent, n, k + j)
        BY <2>2, <3>1
      <3>3. i + j \in 1 .. s /\ i + j <= s + length
        BY <1>1, <1>5, <2>4, <2>2, <3>1, <3>2
      <3> QED
        BY <1>1, <1>4, <2>2, <3>2, <3>3
    <2>6. ASSUME NEW m \in n + 1 .. Len(sent')
          PROVE  \E j \in i + 1 .. Len(Stream') : Stream'[j] = ByteOf(sent', m, 1)
      <3>1. CASE m = l + 1
        <4>1. s + 1 \in i + 1 .. Len(Stream') /\ 1 \in 1 .. length
          BY <1>1, <1>5
        <4>2. Stream'[s + 1] = ByteOf(sent', m, 1)
          BY <1>1, <3>1, <4>1
        <4> QED
          BY <4>1, <4>2
      <3>2. CASE m # l + 1
        <4>1. m \in n + 1 .. l /\ m \in 1 .. l
          BY <1>2, <1>3, <2>2, <3>2
        <4>2. PICK j \in i + 1 .. s : Stream[j] = ByteOf(sent, m, 1)
          BY <2>2, <4>1
        <4>3. j \in 1 .. s /\ j \in i + 1 .. Len(Stream')
          BY <1>1, <1>5, <4>2
        <4> QED
          BY <1>1, <1>4, <4>1, <4>2, <4>3
      <3> QED
        BY <3>1, <3>2
    <2>7. n \in 1 .. Len(sent') /\ k \in 1 .. sent'[n].length
      BY <1>2, <1>3, <2>2
    <2> QED
      BY <2>3, <2>5, <2>6, <2>7 DEF InPlace
  <1>6. CASE i \notin 1 .. s
    <2> DEFINE k == i - s
    <2>1. k \in 1 .. length /\ i = s + k
      BY <1>1, <1>6
    <2> HIDE DEF k
    <2>2. Stream'[i].of = l + 1 /\ Stream'[i].at = k
      <3>1. Stream'[i] = ByteOf(sent', l + 1, k)
        BY <1>1, <2>1
      <3> QED
        BY <3>1 DEF ByteOf
    <2>3. ASSUME NEW j \in 0 .. length - k
          PROVE  i + j <= Len(Stream') /\ Stream'[i + j] = ByteOf(sent', l + 1, k + j)
      <3>1. k + j \in 1 .. length /\ i + j = s + (k + j)
        BY <1>1, <2>1
      <3> QED
        BY <1>1, <3>1
    <2>4. l + 1 \in 1 .. Len(sent') /\ k \in 1 .. sent'[l + 1].length /\ l + 1 + 1 .. Len(sent') = {}
      BY <1>2, <1>3, <2>1
    <2> QED
      BY <1>2, <2>2, <2>3, <2>4 DEF InPlace
  <1> QED
    BY <1>5, <1>6

\* Of a message that was sent apart nothing is left when all was read.
LEMMA DrainedIsPast ==
  ASSUME IInv, ByteInv, Drained, NEW n \in DOMAIN sent, Tracked(n), Alone(n)
  PROVE  FALSE
  <1>1. /\ Len(Stream) = Len(sysexBuf) /\ Len(sysexBuf) \in Nat
        /\ \A i \in 1 .. Len(sysexBuf) : Stream[i] = sysexBuf[i]
    <2>1. Len(pipe) = 0 /\ Len(wire) = 0
      BY DEF Drained
    <2> QED
      BY <2>1, StreamFacts
  <1>2. /\ Len(Stream) = sent[n].length /\ sent[n].kind \in Kind
        /\ \A k \in 1 .. sent[n].length : Stream[k] = ByteOf(sent, n, k)
        /\ sent[n].length \in Nat
    BY BytesFacts DEF Alone, Message
  <1>3. sent[n].length >= 1 /\ (sent[n].kind = "sysex" => sent[n].length >= 2)
    BY DEF ByteInv, Lengths
  <1>4. sent[n].kind = "sysex"
    <2>1. sent[n].kind # "short"
      <3>1. Len(sysexBuf) # 0
        BY <1>1, <1>2, <1>3
      <3>2. sysexBuf # <<>>
        BY <3>1
      <3> QED
        BY <3>2 DEF Alone, IInv, TypeOK
    <2> QED
      BY <1>2, <2>1 DEF Tracked, Kind
  <1> DEFINE e == sent[n].length
  <1>5. e \in 1 .. Len(sysexBuf) /\ e # 1
    BY <1>1, <1>2, <1>3, <1>4
  <1>6. sysexBuf[e] = ByteOf(sent, n, e)
    BY <1>1, <1>2, <1>5
  <1>7. sysexBuf[e].mark = "F7"
    BY <1>4, <1>5, <1>6 DEF ByteOf, Mark
  <1> QED
    BY <1>5, <1>7 DEF ByteInv, Buffer

\* A message sent apart is all there is; the one before it was handed on.
LEMMA UnderwaySend ==
  ASSUME IInv, ByteInv, NEW kind \in Kind, NEW length \in Nat, length >= 1, Send(kind, length)
  PROVE  Underway'
  <1> DEFINE l == Len(sent)
             s == Len(Stream)
  <1>1. /\ s \in Nat /\ Len(Stream') = s + length /\ Stream' \in Seq(Byte)
        /\ \A j \in 1 .. s : Stream'[j] = Stream[j]
        /\ \A k \in 1 .. length : Stream'[s + k] = ByteOf(sent', l + 1, k)
        /\ wire' \in Seq(Byte) /\ wire' = BytesOf(l + 1, sent'[l + 1])
    BY StreamSend
  <1>2. /\ l \in Nat /\ DOMAIN sent' = 1 .. l + 1
        /\ sent'[l + 1] = [kind |-> kind, length |-> length, spaced |-> Drained /\ ~Open]
        /\ \A n \in 1 .. l :
             /\ sent'[n].kind = sent[n].kind /\ sent'[n].length = sent[n].length
             /\ sent'[n].spaced => sent[n].spaced
             /\ n = l /\ ~Drained => ~sent'[n].spaced
    BY SentKept
  <1>3. Len(sent') = l + 1
    <2>1. sent' \in Seq(Message)
      BY SendStep DEF IInv, TypeOK
    <2> QED
      BY <1>2, <2>1
  <1>4. \A n \in 1 .. l : Bytes(n)' = Bytes(n)
    BY BytesKept
  <1>5. wire = <<>> /\ UNCHANGED <<pipe, inSysex, sysexBuf, handed>>
    BY DEF Send, reader
  <1>6. DOMAIN sent = 1 .. l
    BY DEF IInv, TypeOK
  <1> SUFFICES ASSUME NEW n \in DOMAIN sent', Tracked(n)'
               PROVE  Past(n)' \/ Alone(n)'
    BY DEF Underway
  <1> HIDE DEF l, s
  <1>7. CASE n = l + 1
    <2>1. Drained /\ ~Open
      <3>1. sent'[l + 1].spaced = (Drained /\ ~Open)
        BY <1>2
      <3>2. sent'[l + 1].spaced
        BY <1>7 DEF Tracked
      <3> QED
        BY <3>1, <3>2
    <2>2. sysexBuf = <<>> /\ ~inSysex /\ pipe = <<>>
      BY <2>1, NothingOpen DEF ByteInv, Drained
    <2>3. Stream' = wire'
      <3>1. Stream' = <<>> \o <<>> \o wire'
        BY <1>5, <2>2 DEF Stream
      <3>2. <<>> \in Seq(Byte) /\ <<>> \o <<>> = <<>>
        OBVIOUS
      <3> QED
        BY <1>1, <3>1, <3>2, ConcatEmptySeq
    <2>4. wire' = Bytes(n)'
      BY <1>1, <1>7 DEF Bytes
    <2> QED
      BY <1>3, <1>5, <1>7, <2>2, <2>3, <2>4 DEF Alone
  <1>8. CASE n # l + 1
    <2>1. n \in 1 .. l /\ n \in DOMAIN sent
      BY <1>2, <1>6, <1>8
    <2>2. Tracked(n)
      BY <1>2, <2>1 DEF Tracked, Fits
    <2>3. CASE Past(n)
      <3>1. Handed(n)'
        BY <1>4, <1>5, <2>1, <2>3 DEF Past, Handed
      <3>2. ASSUME NEW i \in 1 .. Len(Stream') PROVE Stream'[i].of # n
        <4>1. CASE i \in 1 .. s
          BY <1>1, <2>3, <4>1 DEF Past, s
        <4>2. CASE i \notin 1 .. s
          <5>1. i - s \in 1 .. length /\ s + (i - s) = i
            BY <1>1, <4>2
          <5>2. Stream'[i] = ByteOf(sent', l + 1, i - s)
            BY <1>1, <5>1
          <5> QED
            BY <1>8, <5>2 DEF ByteOf
        <4> QED
          BY <4>1, <4>2
      <3> QED
        BY <3>1, <3>2 DEF Past
    <2>4. CASE Alone(n)
      <3>1. Drained
        BY <1>2, <2>1, <2>4 DEF Alone, Tracked, l
      <3> QED
        BY <2>1, <2>2, <2>4, <3>1, DrainedIsPast
    <2> QED
      BY <2>1, <2>2, <2>3, <2>4 DEF ByteInv, Underway
  <1> QED
    BY <1>7, <1>8

\* The device has one message more.
LEMMA SendBytes ==
  ASSUME IInv, ByteInv, NEW kind \in Kind, NEW length \in Nat, length >= 1,
         kind = "short" => length <= 3, kind = "sysex" => length >= 2, Send(kind, length)
  PROVE  ByteInv'
  <1> DEFINE l == Len(sent)
  <1>1. /\ l \in Nat /\ DOMAIN sent' = 1 .. l + 1
        /\ sent'[l + 1] = [kind |-> kind, length |-> length, spaced |-> Drained /\ ~Open]
        /\ \A n \in 1 .. l :
             /\ sent'[n].kind = sent[n].kind /\ sent'[n].length = sent[n].length
             /\ sent'[n].spaced => sent[n].spaced
    BY SentKept
  <1>2. DOMAIN sent = 1 .. l
    BY DEF IInv, TypeOK
  <1>3. UNCHANGED <<inSysex, sysexBuf, handed>>
    BY DEF Send, reader
  <1>4. \A n \in 1 .. l : Bytes(n)' = Bytes(n)
    BY BytesKept
  <1> HIDE DEF l
  <1>5. Lengths'
    BY <1>1, <1>2 DEF Lengths, ByteInv
  <1>6. Buffer'
    BY <1>3 DEF Buffer, ByteInv
  <1>7. HandedOn'
    BY <1>1, <1>2, <1>3 DEF HandedOn, ByteInv
  <1>8. OnlyMessages'
    <2> SUFFICES ASSUME NEW i \in DOMAIN handed
                 PROVE  LET h == handed[i]
                            m == sent'[h[1].of]
                        IN  \/ h = Bytes(h[1].of)' \/ m.kind = "cut"
                            \/ h[1].mark # "F0" /\ (~m.spaced \/ ~Fits(m))
      BY <1>3 DEF OnlyMessages, Whole
    <2> DEFINE h == handed[i]
               n == h[1].of
    <2>1. n \in 1 .. l
      BY <1>2 DEF ByteInv, HandedOn
    <2>2. \/ h = Bytes(n) \/ sent[n].kind = "cut"
          \/ h[1].mark # "F0" /\ (~sent[n].spaced \/ ~Fits(sent[n]))
      BY DEF ByteInv, OnlyMessages, Whole
    <2>3. Bytes(n)' = Bytes(n)
      BY <1>3, <1>4, <2>1
    <2>4. Fits(sent'[n]) => Fits(sent[n])
      BY <1>1, <2>1 DEF Fits
    <2> QED
      BY <1>1, <1>3, <2>1, <2>2, <2>3, <2>4
  <1> QED
    BY <1>5, <1>6, <1>7, <1>8, OrderedSend, UnderwaySend DEF ByteInv

-----------------------------------------------------------------------------
\* Three pieces of the stream.
LEMMA Joined ==
  ASSUME NEW s \in Seq(Byte), NEW t \in Seq(Byte), NEW u \in Seq(Byte)
  PROVE  (s \o t) \o u = s \o (t \o u)
  <1> DEFINE a == (s \o t) \o u
             b == s \o (t \o u)
  <1>1. /\ s \o t \in Seq(Byte) /\ Len(s \o t) = Len(s) + Len(t)
        /\ \A i \in 1 .. Len(s) + Len(t) :
             (s \o t)[i] = IF i <= Len(s) THEN s[i] ELSE t[i - Len(s)]
    BY ConcatProperties
  <1>2. /\ t \o u \in Seq(Byte) /\ Len(t \o u) = Len(t) + Len(u)
        /\ \A i \in 1 .. Len(t) + Len(u) :
             (t \o u)[i] = IF i <= Len(t) THEN t[i] ELSE u[i - Len(t)]
    BY ConcatProperties
  <1>3. /\ a \in Seq(Byte) /\ Len(a) = Len(s) + Len(t) + Len(u)
        /\ \A i \in 1 .. Len(s) + Len(t) + Len(u) :
             a[i] = IF i <= Len(s) + Len(t) THEN (s \o t)[i] ELSE u[i - (Len(s) + Len(t))]
    BY <1>1, ConcatProperties
  <1>4. /\ b \in Seq(Byte) /\ Len(b) = Len(s) + (Len(t) + Len(u))
        /\ \A i \in 1 .. Len(s) + (Len(t) + Len(u)) :
             b[i] = IF i <= Len(s) THEN s[i] ELSE (t \o u)[i - Len(s)]
    BY <1>2, ConcatProperties
  <1>5. Len(s) \in Nat /\ Len(t) \in Nat /\ Len(u) \in Nat
    OBVIOUS
  <1> HIDE DEF a, b
  <1>6. ASSUME NEW i \in 1 .. Len(a) PROVE a[i] = b[i]
    <2>1. i \in 1 .. Len(s) + Len(t) + Len(u) /\ i \in 1 .. Len(s) + (Len(t) + Len(u))
      BY <1>3, <1>5
    <2>2. CASE i <= Len(s)
      <3>1. i <= Len(s) + Len(t) /\ i \in 1 .. Len(s) + Len(t)
        BY <1>5, <2>1, <2>2
      <3> QED
        BY <1>1, <1>3, <1>4, <2>1, <2>2, <3>1
    <2>3. CASE ~(i <= Len(s)) /\ i <= Len(s) + Len(t)
      <3>1. /\ i - Len(s) \in 1 .. Len(t) + Len(u) /\ i - Len(s) <= Len(t)
            /\ i \in 1 .. Len(s) + Len(t)
        BY <1>5, <2>1, <2>3
      <3>2. a[i] = t[i - Len(s)]
        BY <1>1, <1>3, <2>1, <2>3, <3>1
      <3>3. b[i] = t[i - Len(s)]
        BY <1>2, <1>4, <2>1, <2>3, <3>1
      <3> QED
        BY <3>2, <3>3
    <2>4. CASE ~(i <= Len(s) + Len(t))
      <3>1. /\ i - Len(s) \in 1 .. Len(t) + Len(u) /\ ~(i - Len(s) <= Len(t)) /\ ~(i <= Len(s))
            /\ i - (Len(s) + Len(t)) = i - Len(s) - Len(t)
        BY <1>5, <2>1, <2>4
      <3>2. a[i] = u[i - (Len(s) + Len(t))]
        BY <1>3, <2>1, <2>4
      <3>3. b[i] = u[i - Len(s) - Len(t)]
        BY <1>2, <1>4, <2>1, <3>1
      <3> QED
        BY <3>1, <3>2, <3>3
    <2> QED
      BY <2>2, <2>3, <2>4
  <1>7. Len(a) = Len(b)
    BY <1>3, <1>4, <1>5
  <1> QED
    BY <1>3, <1>4, <1>6, <1>7, SeqEqual DEF a, b

\* A packet moves bytes from the wire to the driver; the stream stays as it is.
LEMMA PacketBytes == ASSUME IInv, ByteInv, Packet PROVE ByteInv'
  <1> DEFINE n == Min({3, Len(wire)})
             a == SubSeq(wire, 1, n)
             b == SubSeq(wire, n + 1, Len(wire))
  <1>1. /\ wire \in Seq(Byte) /\ pipe \in Seq(Byte) /\ sysexBuf \in Seq(Byte)
        /\ Len(wire) \in Nat \ {0}
    BY DEF IInv, InFlight, Packet
  <1>2. n = IF 3 <= Len(wire) THEN 3 ELSE Len(wire)
    BY <1>1, MinOfTwo
  <1>3. pipe' = pipe \o a /\ wire' = b /\ UNCHANGED <<sent, inSysex, sysexBuf, handed>>
    BY DEF Packet, reader
  <1> HIDE DEF n
  <1>4. n \in 1 .. Len(wire) /\ n \in 0 .. Len(wire) /\ 1 \in 1 .. Len(wire) + 1
    BY <1>1, <1>2
  <1>5. a \in Seq(Byte) /\ b \in Seq(Byte)
    BY <1>1, <1>4
  <1>6. a \o b = wire
    <2>1. SubSeq(wire, 1, n) \o SubSeq(wire, n + 1, Len(wire)) = SubSeq(wire, 1, Len(wire))
      <3>1. 1 \in 1 .. Len(wire) + 1 /\ n \in 1 - 1 .. Len(wire) /\ Len(wire) \in n .. Len(wire)
        BY <1>1, <1>4
      <3> QED
        BY <1>1, <3>1, ConcatAdjacentSubSeq
    <2>2. SubSeq(wire, 1, Len(wire)) = wire
      BY <1>1, SubSeqFull
    <2> QED
      BY <2>1, <2>2
  <1> HIDE DEF a, b
  <1>7. Stream' = Stream
    <2>1. Stream' = sysexBuf \o (pipe \o a) \o b
      BY <1>3 DEF Stream
    <2>2. sysexBuf \o (pipe \o a) = (sysexBuf \o pipe) \o a
      BY <1>1, <1>5, Joined
    <2>3. sysexBuf \o pipe \in Seq(Byte)
      BY <1>1, ConcatProperties
    <2>4. ((sysexBuf \o pipe) \o a) \o b = (sysexBuf \o pipe) \o (a \o b)
      BY <1>5, <2>3, Joined
    <2> QED
      BY <1>6, <2>1, <2>2, <2>4 DEF Stream
  <1>8. ASSUME NEW m \in DOMAIN sent, Alone(m) PROVE Alone(m)'
    <2>1. Bytes(m)' = Bytes(m)
      BY <1>3 DEF Bytes
    <2>2. sent[m].kind = "short" => ~inSysex /\ (wire' = <<>> \/ pipe' = <<>>)
      <3> SUFFICES ASSUME sent[m].kind = "short" PROVE ~inSysex /\ wire' = <<>>
        OBVIOUS
      <3>1. ~inSysex /\ pipe = <<>> /\ sysexBuf = <<>>
        BY <1>1, <1>8 DEF Alone, IInv, TypeOK
      <3>2. Len(pipe) = 0 /\ Len(sysexBuf) = 0
        BY <3>1
      <3>3. Len(Stream) = Len(wire)
        BY <1>1, <3>2, StreamFacts
      <3>4. Len(Stream) = sent[m].length
        BY <1>8, BytesFacts DEF Alone
      <3>5. Len(wire) <= 3
        BY <3>3, <3>4 DEF ByteInv, Lengths
      <3>6. n = Len(wire)
        <4>1. CASE 3 <= Len(wire)
          <5>1. Len(wire) \in Nat
            BY <1>1
          <5>2. \A x \in Nat : x <= 3 /\ 3 <= x => x = 3
            OBVIOUS
          <5>3. Len(wire) = 3
            BY <3>5, <4>1, <5>1, <5>2, Zenon
          <5> QED
            BY <1>2, <4>1, <5>3
        <4>2. CASE ~(3 <= Len(wire))
          BY <1>2, <4>2
        <4> QED
          BY <4>1, <4>2
      <3>7. b = <<>>
        BY <1>1, <3>6, SubSeqEmpty DEF b
      <3> QED
        BY <1>3, <3>1, <3>7
    <2> QED
      BY <1>3, <1>7, <1>8, <2>1, <2>2 DEF Alone
  <1>9. ASSUME NEW m PROVE Past(m)' = Past(m) /\ Tracked(m)' = Tracked(m)
    BY <1>3, <1>7 DEF Past, Handed, Bytes, Tracked
  <1>10. Underway'
    BY <1>3, <1>8, <1>9 DEF ByteInv, Underway
  <1>11. Lengths' /\ Buffer' /\ HandedOn' /\ OnlyMessages'
    BY <1>3 DEF ByteInv, Lengths, Buffer, HandedOn, OnlyMessages, Whole, Bytes
  <1> QED
    BY <1>3, <1>7, <1>10, <1>11 DEF ByteInv

-----------------------------------------------------------------------------
\* What a read returns is the stream behind the buffer; it is added to what there
\* is of the message.
LEMMA ChunkInStream ==
  ASSUME IInv, Take
  PROVE  /\ SoFar = sysexBuf /\ Count \in 1 .. Len(pipe) /\ Len(Chunk) = Count
         /\ Chunk \in Seq(Byte) /\ Len(sysexBuf) \in Nat /\ Len(pipe) \in Nat
         /\ Len(Stream) \in Nat /\ Len(sysexBuf) + Count <= Len(Stream)
         /\ DOMAIN Chunk = 1 .. Count
         /\ \A i \in 1 .. Count : Chunk[i] = Stream[Len(sysexBuf) + i]
  <1>1. /\ Count \in 1 .. Len(pipe) /\ Chunk \in Seq(Byte) /\ Len(Chunk) = Count
    BY ChunkFacts
  <1>2. SoFar = sysexBuf
    BY DEF SoFar, Starts, IInv, TypeOK
  <1>3. \A i \in 1 .. Count : Chunk[i] = pipe[i]
    <2> HIDE DEF Count
    <2>1. pipe \in Seq(Byte)
      BY DEF IInv, InFlight
    <2> QED
      BY <1>1, <2>1 DEF Chunk
  <1> HIDE DEF Count, Chunk
  <1>4. /\ Len(sysexBuf) \in Nat /\ Len(pipe) \in Nat /\ Len(wire) \in Nat
        /\ Len(Stream) = Len(sysexBuf) + Len(pipe) + Len(wire)
        /\ \A i \in 1 .. Len(pipe) : Stream[Len(sysexBuf) + i] = pipe[i]
    BY StreamFacts
  <1>5. \A i \in 1 .. Count : Chunk[i] = Stream[Len(sysexBuf) + i]
    <2> TAKE i \in 1 .. Count
    <2>1. i \in 1 .. Len(pipe)
      BY <1>1, <1>4
    <2> QED
      BY <1>3, <1>4, <2>1
  <1>6. DOMAIN Chunk = 1 .. Count
    BY <1>1
  <1>7. Len(Stream) \in Nat /\ Len(sysexBuf) + Count <= Len(Stream)
    BY <1>1, <1>4
  <1> QED
    BY <1>1, <1>2, <1>4, <1>5, <1>6, <1>7

\* A read that continues a message keeps the stream; else what it took is gone.
LEMMA StreamRead ==
  ASSUME IInv, Take, IInv'
  PROVE  /\ sysexBuf' = SoFar \o Chunk => Stream' = Stream
         /\ sysexBuf' = <<>> =>
              /\ Stream' \in Seq(Byte) /\ Len(Stream') = Len(Stream) - (Len(sysexBuf) + Count)
              /\ \A i \in 1 .. Len(Stream') : Stream'[i] = Stream[i + (Len(sysexBuf) + Count)]
  <1> DEFINE rest == SubSeq(pipe, Count + 1, Len(pipe))
  <1>1. /\ wire \in Seq(Byte) /\ pipe \in Seq(Byte) /\ sysexBuf \in Seq(Byte)
        /\ pipe' = rest /\ wire' = wire
    BY DEF IInv, InFlight, Take
  <1>2. /\ SoFar = sysexBuf /\ Count \in 1 .. Len(pipe) /\ Len(Chunk) = Count
        /\ Chunk \in Seq(Byte) /\ Len(sysexBuf) \in Nat /\ Len(pipe) \in Nat
    BY ChunkInStream
  <1>3. Chunk \o rest = pipe
    <2>1. Chunk = SubSeq(pipe, 1, Count)
      BY DEF Chunk
    <2> HIDE DEF Count, Chunk
    <2>2. SubSeq(pipe, 1, Count) \o SubSeq(pipe, Count + 1, Len(pipe)) = SubSeq(pipe, 1, Len(pipe))
      <3>1. /\ 1 \in 1 .. Len(pipe) + 1 /\ Count \in 1 - 1 .. Len(pipe)
            /\ Len(pipe) \in Count .. Len(pipe)
        BY <1>2
      <3> QED
        BY <1>1, <3>1, ConcatAdjacentSubSeq
    <2>3. SubSeq(pipe, 1, Len(pipe)) = pipe
      BY <1>1, SubSeqFull
    <2> QED
      BY <2>1, <2>2, <2>3
  <1>4. rest \in Seq(Byte) /\ Len(rest) = Len(pipe) - Count
    <2> HIDE DEF Count
    <2> QED
      BY <1>1, <1>2
  <1> HIDE DEF rest, Chunk, Count
  <1>5. ASSUME sysexBuf' = SoFar \o Chunk PROVE Stream' = Stream
    <2>1. Stream' = ((sysexBuf \o Chunk) \o rest) \o wire
      BY <1>1, <1>2, <1>5 DEF Stream
    <2>2. (sysexBuf \o Chunk) \o rest = sysexBuf \o (Chunk \o rest)
      BY <1>1, <1>2, <1>4, Joined
    <2> QED
      BY <1>3, <2>1, <2>2 DEF Stream
  <1>6. ASSUME sysexBuf' = <<>>
        PROVE  /\ Stream' \in Seq(Byte) /\ Len(Stream') = Len(Stream) - (Len(sysexBuf) + Count)
               /\ \A i \in 1 .. Len(Stream') : Stream'[i] = Stream[i + (Len(sysexBuf) + Count)]
    <2>1. Stream' = rest \o wire
      <3>1. Stream' = <<>> \o rest \o wire
        BY <1>1, <1>6 DEF Stream
      <3> QED
        BY <1>4, <3>1, ConcatEmptySeq
    <2>2. /\ rest \o wire \in Seq(Byte) /\ Len(rest \o wire) = Len(rest) + Len(wire)
          /\ \A i \in 1 .. Len(rest) + Len(wire) : (rest \o wire)[i] =
               IF i <= Len(rest) THEN rest[i] ELSE wire[i - Len(rest)]
      BY <1>1, <1>4, ConcatProperties
    <2>3. /\ Len(Stream) = Len(sysexBuf) + Len(pipe) + Len(wire) /\ Len(wire) \in Nat
          /\ \A i \in 1 .. Len(pipe) : Stream[Len(sysexBuf) + i] = pipe[i]
          /\ \A i \in 1 .. Len(wire) : Stream[Len(sysexBuf) + Len(pipe) + i] = wire[i]
      BY StreamFacts
    <2>4. \A i \in 1 .. Len(rest) : rest[i] = pipe[i + Count]
      <3> TAKE i \in 1 .. Len(rest)
      <3>1. Count + 1 + i - 1 = i + Count /\ i \in 1 .. Len(pipe) - (Count + 1) + 1
        BY <1>2, <1>4
      <3>2. \A j \in Count + 1 .. Len(pipe) : pipe[j] \in Byte
        BY <1>1, <1>2
      <3>3. \A j \in 1 .. Len(pipe) - (Count + 1) + 1 : rest[j] = pipe[Count + 1 + j - 1]
        BY <1>2, <3>2, SubSeqProperties DEF rest
      <3> QED
        BY <3>1, <3>3
    <2>5. ASSUME NEW i \in 1 .. Len(rest) + Len(wire)
          PROVE  (rest \o wire)[i] = Stream[i + (Len(sysexBuf) + Count)]
      <3>1. CASE i <= Len(rest)
        <4>1. (rest \o wire)[i] = pipe[i + Count]
          BY <1>4, <2>2, <2>3, <2>4, <3>1, <1>2
        <4>2. i + Count \in 1 .. Len(pipe) /\ Len(sysexBuf) + (i + Count) = i + (Len(sysexBuf) + Count)
          BY <1>2, <1>4, <2>3, <3>1
        <4> QED
          BY <2>3, <4>1, <4>2
      <3>2. CASE ~(i <= Len(rest))
        <4>1. (rest \o wire)[i] = wire[i - Len(rest)]
          BY <2>2, <3>2
        <4>2. /\ i - Len(rest) \in 1 .. Len(wire)
              /\ Len(sysexBuf) + Len(pipe) + (i - Len(rest)) = i + (Len(sysexBuf) + Count)
          BY <1>2, <1>4, <2>3, <3>2
        <4> QED
          BY <2>3, <4>1, <4>2
      <3> QED
        BY <3>1, <3>2
    <2>6. Len(rest) + Len(wire) = Len(Stream) - (Len(sysexBuf) + Count)
      BY <1>2, <1>4, <2>3
    <2> QED
      BY <2>1, <2>2, <2>5, <2>6
  <1> QED
    BY <1>5, <1>6

\* What is handed on is one message whole, or excused.
Excused(h) ==
  LET m == sent[h[1].of]
  IN  Whole(h) \/ m.kind = "cut" \/ (h[1].mark # "F0" /\ (~m.spaced \/ ~Fits(m)))

\* What Append makes of what was handed on.
LEMMA AppendHanded ==
  ASSUME NEW s \in Seq(Seq(Byte)), NEW h \in Seq(Byte)
  PROVE  /\ Append(s, h) \in Seq(Seq(Byte))
         /\ \A i \in DOMAIN s : i \in DOMAIN Append(s, h) /\ Append(s, h)[i] = s[i]
         /\ \E i \in DOMAIN Append(s, h) : Append(s, h)[i] = h
         /\ \A i \in DOMAIN Append(s, h) :
              Append(s, h)[i] = h \/ (i \in DOMAIN s /\ Append(s, h)[i] = s[i])
  <1> DEFINE t == Append(s, h)
  <1>1. /\ t \in Seq(Seq(Byte)) /\ Len(t) = Len(s) + 1 /\ t[Len(s) + 1] = h
        /\ \A i \in 1 .. Len(s) : t[i] = s[i]
    BY AppendProperties
  <1>2. DOMAIN s = 1 .. Len(s) /\ Len(s) \in Nat
    OBVIOUS
  <1>3. DOMAIN t = 1 .. Len(s) + 1
    <2> HIDE DEF t
    <2> QED
      BY <1>1
  <1> HIDE DEF t
  <1>4. \A i \in 1 .. Len(s) + 1 : i = Len(s) + 1 \/ i \in 1 .. Len(s)
    BY <1>2
  <1>5. Len(s) + 1 \in 1 .. Len(s) + 1 /\ \A i \in 1 .. Len(s) : i \in 1 .. Len(s) + 1
    BY <1>2
  <1>6. \A i \in DOMAIN t : t[i] = h \/ (i \in DOMAIN s /\ t[i] = s[i])
    BY <1>1, <1>2, <1>3, <1>4
  <1> QED
    BY <1>1, <1>2, <1>3, <1>5, <1>6 DEF t

\* A read that takes bytes off the stream: what was all the stream must have been
\* handed on, whole.
LEMMA TakenBytes ==
  ASSUME IInv, ByteInv, Take, IInv', sysexBuf' = <<>>, inSysex' = FALSE,
         \/ UNCHANGED handed
         \/ \E h \in Seq(Byte) :
              /\ handed' = Append(handed, h)
              /\ Len(h) >= 1 /\ h[1].of \in DOMAIN sent /\ Excused(h),
         \A n \in DOMAIN sent : Tracked(n) /\ Alone(n) => Handed(n)' /\ Len(Stream') = 0
  PROVE  ByteInv'
  <1> DEFINE c == Len(sysexBuf) + Count
  <1>1. /\ Stream' \in Seq(Byte) /\ Len(Stream') = Len(Stream) - c
        /\ \A i \in 1 .. Len(Stream') : Stream'[i] = Stream[i + c]
    BY StreamRead
  <1>2. c \in 0 .. Len(Stream) /\ Stream \in Seq(Byte) /\ Len(Stream) \in Nat
    BY ChunkInStream, StreamFacts
  <1>3. UNCHANGED sent /\ sent \in Seq(Message)
    BY DEF Take, IInv, TypeOK
  <1> HIDE DEF c
  <1>4. Ordered(sent', Stream')
    <2>1. Ordered(sent, Stream')
      BY <1>1, <1>2, <1>3, SuffixOrdered DEF ByteInv
    <2> QED
      BY <1>3, <2>1
  <1>5. \A n : Bytes(n)' = Bytes(n)
    BY <1>3 DEF Bytes
  <1>6. \A i \in DOMAIN handed : i \in DOMAIN handed' /\ handed'[i] = handed[i]
    <2>1. handed \in Seq(Seq(Byte))
      BY DEF ByteInv, HandedOn
    <2>2. CASE UNCHANGED handed
      BY <2>2
    <2>3. ASSUME NEW h \in Seq(Byte), handed' = Append(handed, h)
          PROVE  \A i \in DOMAIN handed : i \in DOMAIN handed' /\ handed'[i] = handed[i]
      BY <2>1, <2>3, AppendHanded
    <2> QED
      BY <2>2, <2>3
  <1>7. \A n : Handed(n) => Handed(n)'
    BY <1>5, <1>6 DEF Handed
  <1>8. Underway'
    <2> SUFFICES ASSUME NEW n \in DOMAIN sent, Tracked(n) PROVE Past(n)'
      BY <1>3 DEF Underway, Tracked
    <2>1. CASE Past(n)
      <3>1. ASSUME NEW i \in 1 .. Len(Stream') PROVE Stream'[i].of # n
        <4>1. i + c \in 1 .. Len(Stream)
          BY <1>1, <1>2
        <4> QED
          BY <1>1, <2>1, <4>1 DEF Past
      <3> QED
        BY <1>7, <2>1, <3>1 DEF Past
    <2>2. CASE Alone(n)
      BY <2>2 DEF Past
    <2> QED
      BY <2>1, <2>2 DEF ByteInv, Underway
  <1>9. HandedOn' /\ OnlyMessages'
    <2>1. CASE UNCHANGED handed
      <3>1. HandedOn'
        BY <1>3, <2>1 DEF ByteInv, HandedOn
      <3>2. OnlyMessages'
        BY <1>3, <1>5, <2>1 DEF ByteInv, OnlyMessages, Whole
      <3> QED
        BY <3>1, <3>2
    <2>2. ASSUME NEW h \in Seq(Byte), handed' = Append(handed, h),
                 Len(h) >= 1, h[1].of \in DOMAIN sent, Excused(h)
          PROVE  HandedOn' /\ OnlyMessages'
      <3>1. /\ handed \in Seq(Seq(Byte))
            /\ \A i \in DOMAIN handed : Len(handed[i]) >= 1 /\ handed[i][1].of \in DOMAIN sent
        BY DEF ByteInv, HandedOn
      <3>2. handed' \in Seq(Seq(Byte))
        BY <2>2, <3>1, AppendHanded
      <3>3. \A i \in DOMAIN handed' :
              \/ handed'[i] = h
              \/ i \in DOMAIN handed /\ handed'[i] = handed[i]
        BY <2>2, <3>1, AppendHanded
      <3>4. HandedOn'
        BY <1>3, <2>2, <3>1, <3>2, <3>3 DEF HandedOn
      <3>5. \A i \in DOMAIN handed : Excused(handed[i])
        BY DEF ByteInv, OnlyMessages, Excused
      <3>6. \A i \in DOMAIN handed' : Excused(handed'[i])
        BY <2>2, <3>3, <3>5
      <3>7. OnlyMessages'
        BY <1>3, <1>5, <3>6 DEF OnlyMessages, Excused, Whole
      <3> QED
        BY <3>4, <3>7
    <2> QED
      BY <2>1, <2>2
  <1>10. Buffer'
    <2>1. Len(sysexBuf') = 0
      OBVIOUS
    <2> QED
      BY <2>1 DEF Buffer
  <1>11. Lengths'
    BY <1>3 DEF ByteInv, Lengths
  <1> QED
    BY <1>4, <1>8, <1>9, <1>10, <1>11 DEF ByteInv

\* A message goes on: its end was not in what was read.
LEMMA MoreBytes == ASSUME IInv, ByteInv, ReadMore PROVE ByteInv'
  <1>1. IInv' /\ Take /\ UNCHANGED <<sent, handed>> /\ inSysex' = TRUE /\ sysexBuf' = SoFar \o Chunk
    BY MoreStep DEF ReadMore, Take
  <1>2. Stream' = Stream
    BY <1>1, StreamRead
  <1>3. /\ SoFar = sysexBuf /\ Count \in 1 .. Len(pipe) /\ Len(Chunk) = Count
        /\ Chunk \in Seq(Byte) /\ Len(sysexBuf) \in Nat
        /\ DOMAIN Chunk = 1 .. Count
    BY <1>1, ChunkInStream
  <1>4. sysexBuf \in Seq(Byte) /\ Count \in Nat /\ Count >= 1
    <2>1. Len(pipe) \in Nat
      BY <1>1, ChunkInStream
    <2> QED
      BY <1>3, <2>1 DEF IInv, InFlight
  <1>5. \A i \in 1 .. Count : Chunk[i].mark # "F7"
    BY <1>3 DEF ReadMore, Stops, Ends
  <1>6. sysexBuf # <<>> \/ (sysexBuf = <<>> /\ Chunk[1].mark = "F0")
    BY DEF ReadMore, Starts, ByteInv, Buffer, IInv, TypeOK
  <1>7. sysexBuf # <<>> => sysexBuf[1].mark = "F0"
    BY DEF ByteInv, Buffer, IInv, TypeOK
  <1>8. inSysex \/ Stream[1].mark = "F0"
    <2>1. Starts => sysexBuf = <<>> /\ Chunk[1].mark = "F0"
      BY DEF Starts, IInv, TypeOK
    <2>2. Starts => Stream[1] = Chunk[1]
      <3> SUFFICES ASSUME Starts PROVE Stream[1] = Chunk[1]
        OBVIOUS
      <3>1. Len(sysexBuf) = 0
        BY <2>1
      <3>2. Chunk[1] = Stream[Len(sysexBuf) + 1]
        BY <1>1, <1>4, ChunkInStream
      <3> QED
        BY <3>1, <3>2
    <2> QED
      BY <2>1, <2>2 DEF ReadMore
  <1> HIDE DEF Chunk, Count, SoFar
  <1>9. /\ Len(sysexBuf') = Len(sysexBuf) + Count
        /\ \A i \in 1 .. Len(sysexBuf) + Count : sysexBuf'[i] =
             IF i <= Len(sysexBuf) THEN sysexBuf[i] ELSE Chunk[i - Len(sysexBuf)]
    BY <1>1, <1>3, <1>4, ConcatProperties
  <1>10. Buffer'
    <2>1. \A i \in 1 .. Len(sysexBuf) : sysexBuf[i].mark # "F7"
      BY DEF ByteInv, Buffer
    <2>2. \A i \in 1 .. Len(sysexBuf') : sysexBuf'[i].mark # "F7"
      <3> TAKE i \in 1 .. Len(sysexBuf')
      <3>1. CASE i <= Len(sysexBuf)
        BY <1>3, <1>4, <1>9, <2>1, <3>1
      <3>2. CASE ~(i <= Len(sysexBuf))
        <4>1. i - Len(sysexBuf) \in 1 .. Count
          BY <1>3, <1>4, <1>9, <3>2
        <4> QED
          BY <1>5, <1>9, <3>2, <4>1
      <3> QED
        BY <3>1, <3>2
    <2>3. sysexBuf' # <<>>
      <3>1. Len(sysexBuf') # 0
        BY <1>3, <1>4, <1>9
      <3> QED
        BY <3>1
    <2>4. sysexBuf'[1].mark = "F0"
      <3>1. CASE sysexBuf = <<>>
        <4>1. Len(sysexBuf) = 0
          BY <3>1
        <4>2. sysexBuf'[1] = Chunk[1]
          BY <1>4, <1>9, <4>1
        <4> QED
          BY <1>6, <3>1, <4>2
      <3>2. CASE sysexBuf # <<>>
        <4>1. Len(sysexBuf) >= 1
          BY <1>4, <3>2
        <4>2. sysexBuf'[1] = sysexBuf[1]
          BY <1>3, <1>4, <1>9, <4>1
        <4> QED
          BY <1>7, <3>2, <4>2
      <3> QED
        BY <3>1, <3>2
    <2> QED
      BY <2>2, <2>3, <2>4 DEF Buffer
  <1>11. Underway'
    <2> SUFFICES ASSUME NEW n \in DOMAIN sent, Tracked(n) PROVE Past(n)' \/ Alone(n)'
      BY <1>1 DEF Underway, Tracked
    <2>1. Bytes(n)' = Bytes(n)
      BY <1>1 DEF Bytes
    <2>2. CASE Past(n)
      BY <1>1, <1>2, <2>1, <2>2 DEF Past, Handed
    <2>3. CASE Alone(n)
      <3>1. sent[n].kind # "short"
        <4> SUFFICES ASSUME sent[n].kind = "short" PROVE FALSE
          OBVIOUS
        <4>1. Stream[1].mark = "F0" /\ Stream = Bytes(n)
          BY <1>8, <2>3 DEF Alone
        <4>2. Bytes(n)[1] = ByteOf(sent, n, 1)
          <5>1. sent[n].length >= 1
            BY DEF ByteInv, Lengths
          <5>2. sent[n].length \in Nat
            BY BytesFacts DEF Message
          <5>3. 1 \in 1 .. sent[n].length
            BY <5>1, <5>2
          <5> QED
            BY <5>3, BytesFacts
        <4> QED
          BY <4>1, <4>2 DEF ByteOf, Mark
      <3> QED
        BY <1>1, <1>2, <2>1, <2>3, <3>1 DEF Alone
    <2> QED
      BY <2>2, <2>3 DEF ByteInv, Underway
  <1>12. Lengths' /\ HandedOn' /\ OnlyMessages' /\ Ordered(sent', Stream')
    BY <1>1, <1>2 DEF ByteInv, Lengths, HandedOn, OnlyMessages, Whole, Bytes
  <1> QED
    BY <1>10, <1>11, <1>12 DEF ByteInv

\* What the steps that empty the buffer have to show of a message that is all the
\* stream: its first byte is the first of the buffer, or of the read.
LEMMA FirstByte ==
  ASSUME IInv, ByteInv, Take, NEW n \in DOMAIN sent, Tracked(n), Alone(n)
  PROVE  /\ Len(Stream) = sent[n].length /\ sent[n].length \in Nat /\ sent[n].length >= 1
         /\ \A k \in 1 .. sent[n].length : Stream[k] = ByteOf(sent, n, k)
         /\ inSysex \/ Starts => sent[n].kind = "sysex"
         /\ ~(inSysex \/ Starts) => sent[n].kind = "short"
  <1>1. /\ Len(Stream) = sent[n].length /\ sent[n].length \in Nat /\ sent[n].length >= 1
        /\ \A k \in 1 .. sent[n].length : Stream[k] = ByteOf(sent, n, k)
        /\ sent[n].kind \in Kind
    BY BytesFacts DEF Alone, Message, ByteInv, Lengths
  <1>2. sent[n].kind \in {"short", "sysex"}
    BY <1>1 DEF Tracked, Kind
  <1>3. ~inSysex => sysexBuf = <<>> /\ Stream[1] = Chunk[1]
    <2> SUFFICES ASSUME ~inSysex PROVE sysexBuf = <<>> /\ Stream[1] = Chunk[1]
      OBVIOUS
    <2>1. sysexBuf = <<>>
      BY DEF IInv, TypeOK
    <2>2. Len(sysexBuf) = 0 /\ 1 \in 1 .. Count
      <3>1. Count \in 1 .. Len(pipe) /\ Len(pipe) \in Nat
        BY ChunkInStream
      <3> HIDE DEF Count
      <3> QED
        BY <2>1, <3>1
    <2>3. Chunk[1] = Stream[Len(sysexBuf) + 1]
      BY <2>2, ChunkInStream
    <2> QED
      BY <2>1, <2>2, <2>3
  <1>4. Stream[1].mark = Mark(sent[n], 1)
    <2>1. 1 \in 1 .. sent[n].length
      BY <1>1
    <2>2. Stream[1] = ByteOf(sent, n, 1)
      BY <1>1, <2>1
    <2> QED
      BY <2>2 DEF ByteOf
  <1>5. sent[n].kind = "short" => ~inSysex
    BY DEF Alone
  <1>6. sent[n].kind = "short" => Stream[1].mark = "data"
    BY <1>4 DEF Mark
  <1>7. sent[n].kind = "sysex" => Stream[1].mark = "F0"
    BY <1>4 DEF Mark
  <1> QED
    BY <1>1, <1>2, <1>3, <1>5, <1>6, <1>7 DEF Starts

\* A message beyond the cap is given up: it was none that fits.
LEMMA AbandonBytes == ASSUME IInv, ByteInv, Abandon PROVE ByteInv'
  <1>1. IInv' /\ Take /\ UNCHANGED handed /\ inSysex' = FALSE /\ sysexBuf' = <<>>
    BY ReadStep DEF Abandon
  <1>2. ASSUME NEW n \in DOMAIN sent, Tracked(n), Alone(n) PROVE FALSE
    <2>1. /\ Len(Stream) = sent[n].length /\ sent[n].kind = "sysex"
      BY <1>1, <1>2, FirstByte DEF Abandon
    <2>2. Len(Stream) <= SysexCap
      BY <1>2, <2>1 DEF Tracked, Fits
    <2>3. PICK i \in DOMAIN Chunk : Len(SoFar) + i - 1 >= SysexCap
      BY DEF Abandon, TooLong
    <2>4. /\ SoFar = sysexBuf /\ i \in 1 .. Count /\ Len(sysexBuf) + Count <= Len(Stream)
          /\ Len(sysexBuf) \in Nat /\ Len(Stream) \in Nat /\ Count \in 1 .. Len(pipe)
      BY <1>1, <2>3, ChunkInStream
    <2> HIDE DEF Count, SoFar
    <2>5. SysexCap \in Nat
      BY MidiReaderAssumption
    <2> QED
      BY <2>2, <2>3, <2>4, <2>5
  <1> QED
    BY <1>1, <1>2, TakenBytes

\* The first end of a SysEx message in the stream is its own.
LEMMA EndIsOwn ==
  ASSUME IInv, ByteInv, NEW e \in 1 .. Len(Stream),
         Stream[1].mark = "F0", Stream[e].mark = "F7",
         \A k \in 1 .. e - 1 : Stream[k].mark # "F7",
         NEW h \in Seq(Byte), Len(h) = e, \A k \in 1 .. e : h[k] = Stream[k]
  PROVE  Excused(h) /\ h[1].of \in DOMAIN sent
  <1> DEFINE n == Stream[1].of
             l == sent[n].length
  <1>1. 1 \in 1 .. Len(Stream) /\ e \in Nat /\ e >= 1 /\ Len(Stream) \in Nat
    BY StreamFacts
  <1>2. n \in DOMAIN sent /\ Stream[1].at = 1 /\ sent[n].kind \in {"sysex", "cut"}
    BY <1>1, BeginsSysex DEF ByteInv
  <1>3. h[1] = Stream[1] /\ h[1].of = n
    BY <1>1
  <1>4. CASE sent[n].kind = "sysex"
    <2>1. l \in Nat /\ l >= 2 /\ l \in 1 .. Len(Stream) /\ Stream[l].mark = "F7"
      <3>1. /\ l \in Nat /\ l >= 2 /\ 1 + l - 1 \in 1 .. Len(Stream)
            /\ Stream[1 + l - 1].mark = "F7"
        BY <1>1, <1>2, <1>4, EndInStream DEF ByteInv
      <3> HIDE DEF l, n
      <3>2. 1 + l - 1 = l
        BY <3>1
      <3> QED
        BY <3>1, <3>2
    <2>2. \A k \in 1 .. l : Stream[k] = ByteOf(sent, n, k)
      <3>1. \A k \in 1 .. l : Stream[1 + k - 1] = ByteOf(sent, n, k)
        BY <1>1, <1>2, WholeFrom DEF ByteInv
      <3>2. \A k \in 1 .. l : 1 + k - 1 = k
        BY <2>1
      <3> QED
        BY <3>1, <3>2
    <2> HIDE DEF l, n
    <2>3. e = l
      <3>1. CASE e < l
        <4>1. e \in 1 .. l /\ e # l
          BY <1>1, <2>1, <3>1
        <4>2. Stream[e] = ByteOf(sent, n, e)
          BY <2>2, <4>1
        <4>3. Stream[e].mark # "F7"
          BY <4>1, <4>2 DEF ByteOf, Mark, l
        <4> QED
          BY <4>3
      <3>2. CASE e > l
        <4>1. l \in 1 .. e - 1
          BY <1>1, <2>1, <3>2
        <4> QED
          BY <2>1, <4>1
      <3> QED
        BY <1>1, <2>1, <3>1, <3>2
    <2>4. h = Bytes(n)
      <3>1. /\ Bytes(n) \in Seq(Byte) /\ Len(Bytes(n)) = l
            /\ \A k \in 1 .. l : Bytes(n)[k] = ByteOf(sent, n, k)
        BY <1>2, BytesFacts DEF l
      <3>2. \A k \in 1 .. Len(h) : h[k] = Bytes(n)[k]
        BY <2>2, <2>3, <3>1
      <3> QED
        BY <2>3, <3>1, <3>2, SeqEqual
    <2> QED
      BY <1>2, <1>3, <2>4 DEF Excused, Whole
  <1>5. CASE sent[n].kind = "cut"
    BY <1>2, <1>3, <1>5 DEF Excused
  <1> QED
    BY <1>2, <1>4, <1>5

\* The end of a SysEx message was read: what was gathered up to it is handed on.
LEMMA EndBytes == ASSUME IInv, ByteInv, ReadEnd PROVE ByteInv'
  <1> DEFINE i == Min(Stops)
             h == SoFar \o SubSeq(Chunk, 1, i)
             e == Len(sysexBuf) + i
  <1>1. /\ IInv' /\ Take /\ inSysex' = FALSE /\ sysexBuf' = <<>> /\ handed' = Append(handed, h)
        /\ UNCHANGED sent
    BY ReadStep DEF ReadEnd, Take
  <1>2. /\ SoFar = sysexBuf /\ Count \in 1 .. Len(pipe) /\ Len(Chunk) = Count
        /\ Chunk \in Seq(Byte) /\ Len(sysexBuf) \in Nat /\ Len(pipe) \in Nat
        /\ Len(Stream) \in Nat /\ Len(sysexBuf) + Count <= Len(Stream)
        /\ DOMAIN Chunk = 1 .. Count
        /\ \A k \in 1 .. Count : Chunk[k] = Stream[Len(sysexBuf) + k]
    BY <1>1, ChunkInStream
  <1>3. /\ i \in Ends /\ \A k \in Ends : i <= k
    <2>1. Stops # {} /\ Stops \in SUBSET Nat
      <3>1. DOMAIN Chunk \subseteq Nat
        <4> HIDE DEF Count, Chunk
        <4> QED
          BY <1>2
      <3> QED
        BY <3>1 DEF ReadEnd, Stops, Ends, TooLong
    <2>2. i \in Stops /\ \A k \in Stops : i <= k
      BY <2>1, MinIsLeast
    <2> QED
      BY <2>2 DEF ReadEnd, Stops
  <1>4. i \in 1 .. Count /\ Chunk[i].mark = "F7"
    BY <1>2, <1>3 DEF Ends
  <1>5. \A k \in 1 .. Count : k < i => Chunk[k].mark # "F7"
    <2> SUFFICES ASSUME NEW k \in 1 .. Count, k < i, Chunk[k].mark = "F7" PROVE FALSE
      OBVIOUS
    <2>1. i <= k
      BY <1>2, <1>3 DEF Ends
    <2> HIDE DEF i, Count
    <2>2. i \in Nat /\ k \in Nat
      BY <1>2, <1>4
    <2> QED
      BY <2>1, <2>2
  <1> HIDE DEF i, Count, Chunk, SoFar
  <1>6. e \in 1 .. Len(Stream) /\ Stream[e].mark = "F7" /\ i \in Nat /\ Count \in Nat
    BY <1>2, <1>4
  <1>7. Stream[1].mark = "F0"
    <2>1. CASE inSysex
      <3>1. sysexBuf # <<>> /\ sysexBuf[1].mark = "F0"
        BY <2>1 DEF ByteInv, Buffer
      <3>2. 1 \in 1 .. Len(sysexBuf)
        <4>1. Len(sysexBuf) # 0
          BY <3>1 DEF IInv, InFlight
        <4> QED
          BY <1>2, <4>1
      <3> QED
        BY <3>1, <3>2, StreamFacts
    <2>2. CASE ~inSysex
      <3>1. Chunk[1].mark = "F0" /\ sysexBuf = <<>>
        BY <2>2 DEF ReadEnd, Starts, IInv, TypeOK
      <3>2. Len(sysexBuf) = 0 /\ 1 \in 1 .. Count
        BY <1>2, <3>1
      <3>3. Chunk[1] = Stream[Len(sysexBuf) + 1]
        BY <1>2, <3>2
      <3> QED
        BY <3>1, <3>2, <3>3
    <2> QED
      BY <2>1, <2>2
  <1>8. ASSUME NEW k \in 1 .. e - 1 PROVE Stream[k].mark # "F7"
    <2>1. CASE k <= Len(sysexBuf)
      <3>1. k \in 1 .. Len(sysexBuf)
        BY <1>2, <2>1
      <3> QED
        BY <3>1, StreamFacts DEF ByteInv, Buffer
    <2>2. CASE ~(k <= Len(sysexBuf))
      <3>1. /\ k - Len(sysexBuf) \in 1 .. Count /\ k - Len(sysexBuf) < i
            /\ Len(sysexBuf) + (k - Len(sysexBuf)) = k
        BY <1>2, <1>4, <1>6, <2>2
      <3>2. Stream[k] = Chunk[k - Len(sysexBuf)]
        BY <1>2, <3>1
      <3> QED
        BY <1>5, <3>1, <3>2
    <2> QED
      BY <2>1, <2>2
  <1>9. /\ h \in Seq(Byte) /\ Len(h) = e /\ \A k \in 1 .. e : h[k] = Stream[k]
    <2> DEFINE c == SubSeq(Chunk, 1, i)
    <2>1. c \in Seq(Byte) /\ Len(c) = i /\ \A k \in 1 .. i : c[k] = Chunk[k]
      BY <1>2, <1>4, <1>6
    <2>2. sysexBuf \in Seq(Byte)
      BY DEF IInv, InFlight
    <2> HIDE DEF c
    <2>3. /\ sysexBuf \o c \in Seq(Byte) /\ Len(sysexBuf \o c) = Len(sysexBuf) + Len(c)
          /\ \A k \in 1 .. Len(sysexBuf) + Len(c) : (sysexBuf \o c)[k] =
               IF k <= Len(sysexBuf) THEN sysexBuf[k] ELSE c[k - Len(sysexBuf)]
      BY <2>1, <2>2, ConcatProperties
    <2>4. h = sysexBuf \o c
      BY <1>2 DEF c
    <2> HIDE DEF h
    <2>5. ASSUME NEW k \in 1 .. e PROVE h[k] = Stream[k]
      <3>1. k \in 1 .. Len(sysexBuf) + Len(c)
        BY <2>1
      <3>2. CASE k <= Len(sysexBuf)
        <4>1. k \in 1 .. Len(sysexBuf)
          BY <1>2, <3>2
        <4> QED
          BY <2>3, <2>4, <3>1, <3>2, <4>1, StreamFacts
      <3>3. CASE ~(k <= Len(sysexBuf))
        <4>1. /\ k - Len(sysexBuf) \in 1 .. i /\ k - Len(sysexBuf) \in 1 .. Count
              /\ Len(sysexBuf) + (k - Len(sysexBuf)) = k
          BY <1>2, <1>4, <1>6, <3>3
        <4>2. h[k] = c[k - Len(sysexBuf)]
          BY <2>3, <2>4, <3>1, <3>3
        <4>3. Chunk[k - Len(sysexBuf)] = Stream[Len(sysexBuf) + (k - Len(sysexBuf))]
          BY <1>2, <4>1
        <4> QED
          BY <2>1, <4>1, <4>2, <4>3
      <3> QED
        BY <3>2, <3>3
    <2> QED
      BY <2>1, <2>3, <2>4, <2>5
  <1> HIDE DEF h, e
  <1>10. Excused(h) /\ h[1].of \in DOMAIN sent
    BY <1>6, <1>7, <1>8, <1>9, EndIsOwn
  <1>11. Len(h) >= 1
    BY <1>6, <1>9
  <1>12. ASSUME NEW n \in DOMAIN sent, Tracked(n), Alone(n)
         PROVE  Handed(n)' /\ Len(Stream') = 0
    <2> DEFINE l == sent[n].length
    <2>1. /\ Len(Stream) = l /\ l \in Nat /\ l >= 1
          /\ \A k \in 1 .. l : Stream[k] = ByteOf(sent, n, k)
          /\ sent[n].kind = "sysex"
      BY <1>1, <1>12, FirstByte DEF ReadEnd
    <2> HIDE DEF l
    <2>2. e = l
      <3>1. CASE e < l
        <4>1. e \in 1 .. l
          BY <1>6, <2>1
        <4>2. Stream[e] = ByteOf(sent, n, e)
          BY <2>1, <4>1
        <4>3. Stream[e].mark # "F7"
          BY <2>1, <3>1, <4>2 DEF ByteOf, Mark, l
        <4> QED
          BY <1>6, <4>3
      <3> QED
        BY <1>2, <1>6, <2>1, <3>1
    <2>3. Stream = Bytes(n) /\ Stream \in Seq(Byte)
      BY <1>12, StreamFacts DEF Alone
    <2>4. h = Bytes(n)
      <3>1. Len(h) = Len(Stream) /\ \A k \in 1 .. Len(h) : h[k] = Stream[k]
        BY <1>9, <2>1, <2>2
      <3> QED
        BY <1>9, <2>3, <3>1, SeqEqual
    <2>5. Handed(n)'
      <3>1. Bytes(n)' = Bytes(n)
        BY <1>1 DEF Bytes
      <3>2. handed \in Seq(Seq(Byte))
        BY DEF ByteInv, HandedOn
      <3>3. \E j \in DOMAIN handed' : handed'[j] = h
        BY <1>1, <1>9, <3>2, AppendHanded
      <3> QED
        BY <2>4, <3>1, <3>3 DEF Handed
    <2>6. Len(Stream') = 0
      <3>1. Len(Stream') = Len(Stream) - (Len(sysexBuf) + Count) /\ Len(Stream') \in Nat
        BY <1>1, StreamRead, StreamFacts
      <3>2. i <= Count
        BY <1>4
      <3>3. Len(sysexBuf) + i = Len(Stream)
        BY <2>1, <2>2 DEF e
      <3> QED
        BY <1>2, <1>6, <3>1, <3>2, <3>3
    <2> QED
      BY <2>5, <2>6
  <1> QED
    BY <1>1, <1>9, <1>10, <1>11, <1>12, TakenBytes

\* A signal: up to three bytes of a read outside of a SysEx message.
LEMMA SignalBytes == ASSUME IInv, ByteInv, ReadSignal PROVE ByteInv'
  <1> DEFINE q == Min({3, Count})
             h == SubSeq(Chunk, 1, q)
  <1>1. /\ IInv' /\ Take /\ ~(inSysex \/ Starts) /\ UNCHANGED sent
        /\ inSysex = FALSE /\ sysexBuf = <<>> /\ inSysex' = FALSE /\ sysexBuf' = <<>>
    BY ReadStep DEF ReadSignal, Take, reader, IInv, TypeOK
  <1>2. /\ Count \in 1 .. Len(pipe) /\ Len(Chunk) = Count
        /\ Chunk \in Seq(Byte) /\ Len(pipe) \in Nat
        /\ Len(Stream) \in Nat /\ Len(sysexBuf) + Count <= Len(Stream)
        /\ \A k \in 1 .. Count : Chunk[k] = Stream[Len(sysexBuf) + k]
    BY <1>1, ChunkInStream
  <1>3. Len(sysexBuf) = 0
    BY <1>1
  <1>4. Count = IF ReadMax <= Len(pipe) THEN ReadMax ELSE Len(pipe)
    BY <1>2, MinOfTwo, MidiReaderAssumption DEF Count
  <1>5. Chunk[1].mark # "F0"
    BY <1>1 DEF Starts
  <1>6. handed' = IF Count > SignalSize THEN handed ELSE Append(handed, h)
    BY DEF ReadSignal
  <1> HIDE DEF Count, Chunk
  <1>7. Count \in Nat /\ Count >= 1
    BY <1>2
  <1>8. q = IF 3 <= Count THEN 3 ELSE Count
    BY <1>7, MinOfTwo
  <1> HIDE DEF q
  <1>9. q \in 1 .. Count
    <2>1. CASE 3 <= Count
      BY <1>7, <1>8, <2>1
    <2>2. CASE ~(3 <= Count)
      BY <1>7, <1>8, <2>2
    <2> QED
      BY <2>1, <2>2
  <1>10. h \in Seq(Byte) /\ Len(h) = q /\ \A k \in 1 .. q : h[k] = Chunk[k]
    BY <1>2, <1>7, <1>9
  <1>11. \A k \in 1 .. Count : Chunk[k] = Stream[k]
    <2> TAKE k \in 1 .. Count
    <2>1. Len(sysexBuf) + k = k
      BY <1>3, <1>7
    <2> QED
      BY <1>2, <2>1
  <1>12. Count <= Len(Stream)
    BY <1>2, <1>3, <1>7
  <1> HIDE DEF h
  <1>13. q \in Nat /\ q >= 1 /\ Len(h) >= 1 /\ h[1] = Stream[1] /\ h[1].mark # "F0"
    BY <1>5, <1>7, <1>9, <1>10, <1>11
  <1>14. ASSUME NEW n \in DOMAIN sent, Tracked(n), Alone(n)
         PROVE  h = Bytes(n) /\ Len(Stream') = 0 /\ Handed(n)'
    <2>1. /\ Len(Stream) = sent[n].length /\ sent[n].kind = "short"
      BY <1>1, <1>14, FirstByte
    <2>2. Len(Stream) <= 3
      BY <2>1 DEF ByteInv, Lengths
    <2>3. wire = <<>> /\ Len(wire) = 0
      <3>1. pipe # <<>>
        BY <1>1 DEF Take
      <3> QED
        BY <1>14, <2>1, <3>1 DEF Alone
    <2>4. Len(Stream) = Len(pipe)
      BY <1>2, <1>3, <2>3, StreamFacts
    <2>5. ReadMax \in Nat /\ SignalSize \in Nat /\ ReadMax >= 3 /\ SignalSize >= 3
      BY MidiReaderAssumption
    <2>6. Count = Len(pipe)
      <3>1. CASE ReadMax <= Len(pipe)
        BY <1>2, <1>4, <2>2, <2>4, <2>5, <3>1
      <3>2. CASE ~(ReadMax <= Len(pipe))
        BY <1>4, <3>2
      <3> QED
        BY <3>1, <3>2
    <2>7. Count <= 3 /\ ~(Count > SignalSize)
      BY <1>2, <1>7, <2>2, <2>4, <2>5, <2>6
    <2>8. q = Count
      <3>1. \A x \in Nat : x <= 3 /\ 3 <= x => x = 3
        OBVIOUS
      <3>2. CASE 3 <= Count
        <4>1. Count = 3
          BY <1>7, <2>7, <3>1, <3>2, Zenon
        <4> QED
          BY <1>8, <3>2, <4>1
      <3>3. CASE ~(3 <= Count)
        BY <1>8, <3>3
      <3> QED
        BY <3>2, <3>3
    <2>9. h = Bytes(n)
      <3>1. Stream = Bytes(n) /\ Stream \in Seq(Byte)
        BY <1>14, StreamFacts DEF Alone
      <3>2. Len(h) = Len(Stream) /\ \A k \in 1 .. Len(h) : h[k] = Stream[k]
        BY <1>10, <1>11, <2>4, <2>6, <2>8
      <3> QED
        BY <1>10, <3>1, <3>2, SeqEqual
    <2>10. Handed(n)'
      <3>1. handed' = Append(handed, h)
        BY <1>6, <2>7
      <3>2. Bytes(n)' = Bytes(n)
        BY <1>1 DEF Bytes
      <3>3. handed \in Seq(Seq(Byte))
        BY DEF ByteInv, HandedOn
      <3>4. \E j \in DOMAIN handed' : handed'[j] = h
        BY <1>10, <3>1, <3>3, AppendHanded
      <3> QED
        BY <2>9, <3>2, <3>4 DEF Handed
    <2>11. Len(Stream') = 0
      <3>1. Len(Stream') = Len(Stream) - (Len(sysexBuf) + Count)
        BY <1>1, StreamRead
      <3> QED
        BY <1>2, <1>3, <2>4, <2>6, <3>1
    <2> QED
      BY <2>9, <2>10, <2>11
  <1>15. h[1].of \in DOMAIN sent /\ Excused(h)
    <2> DEFINE n == Stream[1].of
    <2>1. 1 \in 1 .. Len(Stream)
      BY <1>2, <1>7, <1>12
    <2>2. InPlace(sent, Stream, 1)
      BY <2>1 DEF ByteInv, Ordered
    <2>3. n \in DOMAIN sent
      BY <2>2 DEF InPlace, IInv, TypeOK
    <2>4. ASSUME Tracked(n) PROVE h = Bytes(n)
      <3>1. ~Past(n)
        BY <2>1 DEF Past
      <3>2. Alone(n)
        BY <2>3, <2>4, <3>1 DEF ByteInv, Underway
      <3> QED
        BY <1>14, <2>3, <2>4, <3>2
    <2> QED
      BY <1>13, <2>3, <2>4 DEF Excused, Whole, Tracked
  <1>16. \/ UNCHANGED handed
         \/ handed' = Append(handed, h)
    BY <1>6
  <1> QED
    BY <1>1, <1>10, <1>13, <1>14, <1>15, <1>16, TakenBytes

\* Every step keeps the messages in order and whole.
LEMMA ByteStep == IInv /\ ByteInv /\ [Next]_vars => ByteInv'
  <1> SUFFICES ASSUME IInv, ByteInv, [Next]_vars PROVE ByteInv'
    OBVIOUS
  <1>1. ASSUME NEW l \in ShortLength, Send("short", l) PROVE ByteInv'
    <2>1. l \in Nat /\ l >= 1 /\ l <= 3
      BY MidiReaderAssumption
    <2> QED
      BY <1>1, <2>1, SendBytes DEF Kind
  <1>2. ASSUME NEW l \in SysexLength, Send("sysex", l) \/ Send("cut", l - 1) PROVE ByteInv'
    <2>1. l \in Nat /\ l >= 2 /\ l >= 1 /\ l - 1 \in Nat /\ l - 1 >= 1
      <3>1. l \in Nat /\ l # 0 /\ l # 1
        BY MidiReaderAssumption
      <3> QED
        BY <3>1
    <2> QED
      BY <1>2, <2>1, SendBytes DEF Kind
  <1>3. CASE UNCHANGED vars
    <2>1. UNCHANGED <<sent, wire, pipe, inSysex, sysexBuf, handed>>
      BY <1>3 DEF vars, device, reader
    <2>2. UNCHANGED Stream /\ \A n : Bytes(n)' = Bytes(n)
      BY <2>1 DEF Stream, Bytes
    <2>3. Lengths' /\ Ordered(sent', Stream') /\ Buffer' /\ HandedOn' /\ OnlyMessages'
      BY <2>1, <2>2 DEF ByteInv, Lengths, Buffer, HandedOn, OnlyMessages, Whole
    <2>4. Underway'
      BY <2>1, <2>2 DEF ByteInv, Underway, Past, Alone, Handed, Tracked
    <2> QED
      BY <2>3, <2>4 DEF ByteInv
  <1> QED
    BY <1>1, <1>2, <1>3, PacketBytes, MoreBytes, EndBytes, AbandonBytes, SignalBytes DEF Next

\* The messages on their way stay in order, whole and accounted for.
LEMMA ByteSafety == Spec => [](IInv /\ ByteInv)
  <1>1. Init => IInv /\ ByteInv
    BY InvInit, ByteInit
  <1>2. IInv /\ ByteInv /\ [Next]_vars => (IInv /\ ByteInv)'
    BY InvStep, ByteStep
  <1> QED
    BY <1>1, <1>2, PTL DEF Spec

\* What processInput and processSysex are given is one message, whole, whatever the
\* device sends and however it is read; what comes of a SysEx message without its
\* end, of messages that run into each other or of one beyond the cap is excepted.
THEOREM Clean == Spec => []OnlyMessages
  <1>1. IInv /\ ByteInv => OnlyMessages
    BY DEF ByteInv
  <1> QED
    BY <1>1, ByteSafety, PTL

\* A message that was sent apart, of any length up to the cap, is handed on whole,
\* in however many packets and reads it comes and whatever came before it: after a
\* broken message the reader is in step again.
THEOREM Delivered == Spec => []SpacedIsHanded
  <1>1. ASSUME IInv, ByteInv PROVE SpacedIsHanded
    <2> SUFFICES ASSUME Drained, NEW n \in DOMAIN sent, Tracked(n) PROVE Handed(n)
      BY DEF SpacedIsHanded, Tracked
    <2>1. CASE Past(n)
      BY <2>1 DEF Past
    <2>2. CASE Alone(n)
      BY <1>1, <2>2, DrainedIsPast
    <2> QED
      BY <1>1, <2>1, <2>2 DEF ByteInv, Underway
  <1>2. IInv /\ ByteInv => SpacedIsHanded
    BY <1>1
  <1> QED
    BY <1>2, ByteSafety, PTL
=============================================================================
