----------------------------- MODULE MidiReader -----------------------------
(***************************************************************************)
(* The reader thread of a MIDI handler: what it makes of the bytes that a  *)
(* device sends (in_func in LowLevel/MIDI/src/midithread.cpp).             *)
(*                                                                         *)
(* A byte keeps the number of the message it belongs to and its place in   *)
(* it.  A USB device delivers packets of up to three bytes (external), a   *)
(* message of one to three bytes in one packet; a read returns what there  *)
(* is, up to ReadMax bytes.  A signal is the first three bytes of a read;  *)
(* the code fills a shorter one with what its buffer held.                 *)
(***************************************************************************)
EXTENDS Naturals, Sequences, FiniteSetsExt

CONSTANTS
  ReadMax,     \* sizeof(buf)
  SignalSize,  \* sizeof(midiSignal)
  SysexCap,    \* sysexCap_
  ShortLength, \* lengths of the other messages
  SysexLength, \* lengths of SysEx messages
  MaxMessages  \* bound on messages

ASSUME MidiReaderAssumption ==
  /\ ReadMax \in Nat /\ SignalSize \in 3 .. ReadMax /\ SysexCap \in Nat \ {0}
  /\ ShortLength \subseteq 1 .. 3 /\ SysexLength \subseteq Nat \ {0, 1}
  /\ MaxMessages \in Nat

VARIABLES
  sent,     \* history: the messages, [kind, length, spaced]: it was sent
            \* when those before had been read, none of them a SysEx message
            \* that lacks its end still, and was read before the next
  wire,     \* what the device has still to send of the last one
  pipe,     \* bytes the driver holds
  inSysex,  \* inSysex_
  sysexBuf, \* sysexBuf_
  handed    \* history: what processInput and processSysex were given

device == <<sent, wire, pipe>>
reader == <<inSysex, sysexBuf>>
vars   == <<device, reader, handed>>

Kind    == {"short", "sysex", "cut"}    \* cut: without its last byte
Message == [kind : Kind, length : Nat, spaced : BOOLEAN]

Mark(m, i) == IF m.kind = "short" THEN "data"
              ELSE IF i = 1 THEN "F0"
              ELSE IF m.kind = "sysex" /\ i = m.length THEN "F7" ELSE "data"

BytesOf(n, m) == [i \in 1 .. m.length |-> [of |-> n, at |-> i, mark |-> Mark(m, i)]]
Bytes(n) == BytesOf(n, sent[n])

Init ==
  /\ sent = <<>> /\ wire = <<>> /\ pipe = <<>>
  /\ inSysex = FALSE /\ sysexBuf = <<>>
  /\ handed = <<>>

-----------------------------------------------------------------------------
(* The device.                                                             *)

Drained == wire = <<>> /\ pipe = <<>>

Unspaced == IF Drained \/ sent = <<>> THEN sent
            ELSE [sent EXCEPT ![Len(sent)].spaced = FALSE]

(* A SysEx message without its end, and none with its end after it.        *)
Open == \E n \in DOMAIN sent :
          sent[n].kind = "cut" /\ \A m \in n + 1 .. Len(sent) : sent[m].kind # "sysex"

Send(kind, length) ==
  /\ wire = <<>> /\ Len(sent) < MaxMessages
  /\ LET m == [kind |-> kind, length |-> length, spaced |-> Drained /\ ~Open]
     IN  /\ sent' = Append(Unspaced, m)
         /\ wire' = BytesOf(Len(sent) + 1, m)
  /\ UNCHANGED <<pipe, reader, handed>>

Packet ==
  LET n == Min({3, Len(wire)})
  IN  /\ wire # <<>>
      /\ pipe' = pipe \o SubSeq(wire, 1, n)
      /\ wire' = SubSeq(wire, n + 1, Len(wire))
      /\ UNCHANGED <<sent, reader, handed>>

-----------------------------------------------------------------------------
(* The reader.  A read and what is done with it; the bytes after the end   *)
(* of a SysEx message, or after the cap, are dropped.                      *)

Count == Min({ReadMax, Len(pipe)})
Chunk == SubSeq(pipe, 1, Count)

Starts  == ~inSysex /\ Chunk[1].mark = "F0"
SoFar   == IF Starts THEN <<>> ELSE sysexBuf

Ends    == {i \in DOMAIN Chunk : Chunk[i].mark = "F7"}
\* Mutant: the cap is tested one byte late.
TooLongMutant == {i \in DOMAIN Chunk : Len(SoFar) + i - 1 > SysexCap}
TooLong == {i \in DOMAIN Chunk : Len(SoFar) + i - 1 >= SysexCap}
Stops   == Ends \cup TooLong

Take == pipe # <<>> /\ pipe' = SubSeq(pipe, Count + 1, Len(pipe)) /\ UNCHANGED <<sent, wire>>

ReadMore ==
  /\ Take /\ (inSysex \/ Starts)
  /\ Stops = {}
  /\ inSysex' = TRUE /\ sysexBuf' = SoFar \o Chunk
  /\ UNCHANGED handed

\* Mutant: the bytes after the terminator are kept.
ReadEndTailMutant ==
  /\ Take /\ (inSysex \/ Starts)
  /\ Stops # {} /\ Min(Stops) \notin TooLong
  /\ inSysex' = FALSE /\ sysexBuf' = <<>>
  /\ handed' = Append(handed, SoFar \o Chunk)

\* Mutant: inSysex_ is not reset.
ReadEndStuckMutant ==
  /\ Take /\ (inSysex \/ Starts)
  /\ Stops # {} /\ Min(Stops) \notin TooLong
  /\ inSysex' = TRUE /\ sysexBuf' = <<>>
  /\ handed' = Append(handed, SoFar \o SubSeq(Chunk, 1, Min(Stops)))

ReadEnd ==
  /\ Take /\ (inSysex \/ Starts)
  /\ Stops # {} /\ Min(Stops) \notin TooLong
  /\ inSysex' = FALSE /\ sysexBuf' = <<>>
  /\ handed' = Append(handed, SoFar \o SubSeq(Chunk, 1, Min(Stops)))

Abandon ==
  /\ Take /\ (inSysex \/ Starts)
  /\ Stops # {} /\ Min(Stops) \in TooLong
  /\ inSysex' = FALSE /\ sysexBuf' = <<>>
  /\ UNCHANGED handed

ReadSignal ==
  /\ Take /\ ~(inSysex \/ Starts)
  /\ handed' = IF Count > SignalSize THEN handed
                ELSE Append(handed, SubSeq(Chunk, 1, Min({3, Count})))
  /\ UNCHANGED reader

Next ==
  \/ \E l \in ShortLength : Send("short", l)
  \/ \E l \in SysexLength : Send("sysex", l) \/ Send("cut", l - 1)
  \/ Packet
  \/ ReadMore \/ ReadEnd \/ Abandon \/ ReadSignal

Spec == Init /\ [][Next]_vars

-----------------------------------------------------------------------------
(* Properties *)

\* The values each variable ranges over: the buffer stays within its cap, and
\* is empty outside a SysEx message.
TypeOK ==
  /\ sent \in Seq(Message)
  /\ inSysex \in BOOLEAN
  /\ Len(sysexBuf) <= SysexCap
  /\ ~inSysex => sysexBuf = <<>>

Handed(n) == \E h \in DOMAIN handed : handed[h] = Bytes(n)

Whole(h) == h = Bytes(h[1].of)

Fits(m) == m.kind = "short" \/ m.length <= SysexCap

\* A message that the device sent apart from the others reaches processInput or
\* processSysex whole, in however many reads, whatever came before it.
SpacedIsHanded ==
  Drained => \A n \in DOMAIN sent :
    (sent[n].spaced /\ sent[n].kind # "cut" /\ Fits(sent[n])) => Handed(n)

\* What processInput and processSysex are given is one message, whole.  Else it
\* comes from a SysEx message without its end; or it is no SysEx message, and
\* the device sent messages that ran into each other or one beyond the cap.
OnlyMessages ==
  \A i \in DOMAIN handed :
    LET h == handed[i]
        m == sent[h[1].of]
    IN  \/ Whole(h) \/ m.kind = "cut"
        \/ h[1].mark # "F0" /\ (~m.spaced \/ ~Fits(m))
=============================================================================
