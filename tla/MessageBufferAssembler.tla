----------------------- MODULE MessageBufferAssembler -----------------------
(***************************************************************************)
(* The receive-side assembler of buffered directed commands                *)
(* (src/src/rx/reassembly.rs).  Decoded frames are pushed one at a time,   *)
(* in the order the decoder emits them.  A directed frame that announces a *)
(* buffered command opens a buffer for its stream; the data frames decoded *)
(* at the same submode and the same whole hertz are appended to it; a data *)
(* frame flagged LAST closes it, and the payload is reported only if the   *)
(* checksum its command calls for matches.                                 *)
(*                                                                         *)
(* Text is a sequence of abstract characters.  The fragments of a buffer   *)
(* are kept concatenated, as they are only ever read so.  utc stands for   *)
(* the packed receive time: it identifies the slot a frame was heard in.   *)
(***************************************************************************)
EXTENDS Integers, SequencesExt

CONSTANTS
  Submode,          \* receive submodes
  HzUnit,           \* estimated frequencies are in 1/HzUnit of a hertz
  MaxHz,            \* largest whole frequency a key can hold (u32::MAX)
  Call,             \* callsigns and groups
  Placeholder,      \* the call "<....>" of a compound-directed frame
  Aprsis,           \* the group "@APRSIS"
  Command,          \* command tokens, among them NoCommand
  NoCommand,        \* the token of an unassigned wire code
  BufferedCommand,  \* tokens is_buffered_token accepts
  CheckedCommand,   \* tokens with a 16-bit checksum
  AprsMsgCommand,   \* " MSG" and " MSG TO:"
  Char, Space,      \* characters
  Checksum16(_),    \* the checksum text of a text
  ChecksumLen,      \* its length
  NoBuffer          \* no buffer is open for a stream

Text        == Seq(Char)
Address     == Call \cup {Placeholder}
FrameKind   == {"directed", "compound", "data"}
BufferKey   == [submode : Submode, frequency_offset : 0..MaxHz]
BufferState == [from : Address, to : Address, command : Command,
                utc : Nat, text : Text]

(* A decoded frame, as far as the assembler reads it.  text is the message *)
(* of a data frame and the trailing components of a directed one.          *)
Decoded == [submode : Submode, frequency : Int, utc : Nat, last : BOOLEAN,
            kind : FrameKind, from : Address, to : Address,
            command : Command, text : Text]

Result == [from : Address, to : Address, command : Command, payload : Text,
           checksum : {"none", "valid"}, utc : Nat, was_buffered : BOOLEAN]

NoEvent == [type |-> "None"]
Event   == {NoEvent}
             \cup [type : {"BufferedStarted", "BufferedAppended",
                           "DroppedInvalidChecksum"}, key : BufferKey]
             \cup [type : {"Completed"}, key : BufferKey, result : Result]

ASSUME CommandAssumption ==
  /\ NoCommand \in Command \ BufferedCommand
  /\ CheckedCommand \subseteq BufferedCommand
  /\ BufferedCommand \subseteq Command
ASSUME TextAssumption == Space \in Char /\ ChecksumLen \in Nat
ASSUME HzAssumption == HzUnit \in Nat \ {0} /\ MaxHz \in Nat
ASSUME BufferAssumption == NoBuffer \notin BufferState

VARIABLES
  buffers,  \* the open buffer of each stream, or NoBuffer
  event     \* what the last call returned

assemblerVars == <<buffers, event>>
-----------------------------------------------------------------------------
(* A frequency truncated to whole hertz, saturating at both ends.          *)
WholeHz(f) ==
  IF f < 0 THEN 0
  ELSE IF f \div HzUnit > MaxHz THEN MaxHz ELSE f \div HzUnit

(* Mutant of KeyOf: streams are told apart by submode only.                *)
KeyOfSubmode(d) == [submode |-> d.submode, frequency_offset |-> 0]

(* The stream of a frame: its submode and its frequency in whole hertz.    *)
KeyOf(d) == [submode |-> d.submode, frequency_offset |-> WholeHz(d.frequency)]

NotSpace(c) == c # Space

TrimRight(t) == SubSeq(t, 1, SelectLastInSeq(t, NotSpace))

TrimLeft(t) ==
  LET first == SelectInSeq(t, NotSpace)
  IN  IF first = 0 THEN <<>> ELSE SubSeq(t, first, Len(t))

(* Whether the payload of a command ends in a checksum.                    *)
CarriesChecksum(to, command) ==
  command \in CheckedCommand /\ ~ (to = Aprsis /\ command \in AprsMsgCommand)

(* Mutant of FinalizeBufferedPayload: the checksum is cut off, not checked.*)
FinalizeUnchecked(to, command, text) ==
  LET n == Len(TrimLeft(text)) - ChecksumLen - 1
  IN  IF CarriesChecksum(to, command) /\ n >= 0
      THEN [payload |-> SubSeq(TrimLeft(text), 1, n), checksum |-> "valid"]
      ELSE [payload |-> text, checksum |-> "none"]

(* Splits the text of a closed buffer into payload and checksum and checks *)
(* it: the last ChecksumLen characters, set off by a space.                *)
FinalizeBufferedPayload(to, command, text) ==
  IF ~ CarriesChecksum(to, command)
  THEN [payload |-> text, checksum |-> "none"]
  ELSE LET message == TrimLeft(text)
           n       == Len(message) - ChecksumLen - 1
           payload == SubSeq(message, 1, n)
           valid   == /\ n >= 0
                      /\ message[n + 1] = Space
                      /\ SubSeq(message, n + 2, Len(message)) = Checksum16(payload)
       IN  [payload  |-> IF n < 0 THEN message ELSE payload,
            checksum |-> IF valid THEN "valid" ELSE "invalid"]

(* Mutant of FinishState: a result is reported whatever its checksum.      *)
FinishStateUnfiltered(k, b) ==
  LET done == FinalizeBufferedPayload(b.to, b.command, TrimRight(b.text))
  IN  [type |-> "Completed", key |-> k,
       result |-> [from |-> b.from, to |-> b.to, command |-> b.command,
                   payload |-> done.payload, checksum |-> done.checksum,
                   utc |-> b.utc, was_buffered |-> TRUE]]

(* What closing buffer b of stream k reports.                              *)
FinishState(k, b) ==
  LET done == FinalizeBufferedPayload(b.to, b.command, TrimRight(b.text))
  IN  IF done.checksum = "invalid"
      THEN [type |-> "DroppedInvalidChecksum", key |-> k]
      ELSE [type |-> "Completed", key |-> k,
            result |-> [from |-> b.from, to |-> b.to, command |-> b.command,
                        payload |-> done.payload, checksum |-> done.checksum,
                        utc |-> b.utc, was_buffered |-> TRUE]]

(* Mutant of OpensBuffer: an empty command, too, waits for data.           *)
OpensBufferAlways(d) == d.command \in BufferedCommand

(* A directed frame opens a buffer unless the message ends with it; one    *)
(* that hides a compound call waits for more even then.                    *)
OpensBuffer(d) ==
  /\ d.command \in BufferedCommand
  /\ ~ d.last \/ Placeholder \in {d.from, d.to}
-----------------------------------------------------------------------------
TypeOK ==
  /\ buffers \in [BufferKey -> BufferState \cup {NoBuffer}]
  /\ event \in Event

Init ==
  /\ buffers = [k \in BufferKey |-> NoBuffer]
  /\ event = NoEvent

(* handle_directed, first outcome: whatever the stream had collected is    *)
(* replaced by a new, empty buffer.                                        *)
StartBuffer(d) ==
  /\ d.kind = "directed"
  /\ OpensBuffer(d)
  /\ buffers' = [buffers EXCEPT ![KeyOf(d)] =
       [from |-> d.from, to |-> d.to, command |-> d.command,
        utc |-> d.utc, text |-> <<>>]]
  /\ event' = [type |-> "BufferedStarted", key |-> KeyOf(d)]

(* handle_directed, second outcome: the frame is the whole message.  A     *)
(* buffer already open for the stream stays open.                          *)
CompleteDirected(d) ==
  /\ d.kind = "directed"
  /\ ~ OpensBuffer(d)
  /\ event' = [type |-> "Completed", key |-> KeyOf(d),
               result |-> [from |-> d.from, to |-> d.to, command |-> d.command,
                           payload |-> d.text, checksum |-> "none",
                           utc |-> d.utc, was_buffered |-> FALSE]]
  /\ UNCHANGED buffers

(* Compound frames, and data of streams that wait for none, are ignored.   *)
IgnoreFrame(d) ==
  /\ \/ d.kind = "compound"
     \/ d.kind = "data" /\ buffers[KeyOf(d)] = NoBuffer
  /\ event' = NoEvent
  /\ UNCHANGED buffers

AppendFragment(d) ==
  /\ d.kind = "data"
  /\ ~ d.last
  /\ buffers[KeyOf(d)] # NoBuffer
  /\ buffers' = [buffers EXCEPT ![KeyOf(d)].text = @ \o d.text]
  /\ event' = [type |-> "BufferedAppended", key |-> KeyOf(d)]

(* Mutant of FinishBuffer: the buffer is not removed when it completes.    *)
FinishKeepingBuffer(d) ==
  LET b == buffers[KeyOf(d)] IN
  /\ d.kind = "data" /\ d.last /\ b # NoBuffer
  /\ event' = FinishState(KeyOf(d), [b EXCEPT !.text = @ \o d.text])
  /\ UNCHANGED buffers

FinishBuffer(d) ==
  LET k == KeyOf(d)
      b == buffers[k]
  IN  /\ d.kind = "data"
      /\ d.last
      /\ b # NoBuffer
      /\ buffers' = [buffers EXCEPT ![k] = NoBuffer]
      /\ event' = FinishState(k, [b EXCEPT !.text = @ \o d.text])

PushDecoded(d) ==
  \/ StartBuffer(d)
  \/ CompleteDirected(d)
  \/ IgnoreFrame(d)
  \/ AppendFragment(d)
  \/ FinishBuffer(d)

(* The caller discards everything partially assembled.                     *)
Clear ==
  /\ buffers' = [k \in BufferKey |-> NoBuffer]
  /\ event' = NoEvent
=============================================================================
