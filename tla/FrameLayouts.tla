---------------------------- MODULE FrameLayouts ----------------------------
(***************************************************************************)
(* The frames of src/src/varicode/mod.rs: what the front of a line is      *)
(* packed into, and what a receiver reads in a frame                       *)
(* (src/src/internal/decoded_text.rs).  A frame is twelve characters of    *)
(* the 64 that are sent, by their number.  A packer tells the position it  *)
(* has used the line up to; position 1 means that the line has no such     *)
(* frame.                                                                  *)
(***************************************************************************)
EXTENDS CommandParser, Jsc

NoFrame == << >>

(* Mutant: the last characters are left out.                               *)
Pack64(bits) == [i \in 1..11 |-> BitsValue(SubSeq(bits, 6 * i - 5, 6 * i))]

Pack72(bits) == [i \in 1..12 |-> BitsValue(SubSeq(bits, 6 * i - 5, 6 * i))]

Unpack72(frame) == [b \in 1..FrameBits |-> Bits(frame[(b + 5) \div 6], 6)[((b - 1) % 6) + 1]]

Field(bits, from, width) == BitsValue(SubSeq(bits, from, from + width - 1))

FrameTypes == << "Heartbeat", "Compound", "CompoundDirected", "Directed" >>

TypeCode(type) == (CHOOSE i \in DOMAIN FrameTypes : FrameTypes[i] = type) - 1

Cqs == << "CQ CQ CQ", "CQ DX", "CQ QRP", "CQ CONTEST", "CQ FIELD", "CQ FD", "CQ CQ", "CQ" >>
-----------------------------------------------------------------------------
(***************************************************************************)
(* Scanning a line.                                                        *)
(***************************************************************************)
SkipSpace(s, p) == IF Char(s, p) \in White THEN p + 1 ELSE p

(* The end of the call at p, or p if there is none.                        *)
CallEnd(s, p) ==
  LET first == IF Char(s, p) = "@" THEN p + 1 ELSE p
      end   == RunEnd(s, first, Alnum \cup {"/"})
  IN  IF end > first THEN end ELSE p

CmdAt(s, p, start, prefix) ==
  IF prefix.kind # NoKind
  THEN [kind |-> prefix.kind, cmd |-> Sub(s, p, start - 1) \o prefix.text,
        end |-> start + Len(prefix.text)]
  ELSE IF Char(s, p) = " " THEN [kind |-> "FreeText", cmd |-> " ", end |-> p + 1]
  ELSE [kind |-> NoKind, cmd |-> "", end |-> p]

ParseCmd(s, p) == CmdAt(s, p, SkipSpace(s, p), CommandPrefix(Rest(s, SkipSpace(s, p))))

(* A sign and two digits; the second is left if it leads out of range.     *)
SnrEnd(s, p) ==
  LET start  == SkipSpace(s, p)
      digits == IF Char(s, start) \in {"+", "-"} THEN start + 1 ELSE start
      run    == RunEnd(s, digits, Digit)
      end    == IF run > digits + 2 THEN digits + 2 ELSE run
  IN  IF end = digits THEN p
      ELSE IF Number(Sub(s, start, end - 1)) \notin -31..31 THEN end - 1
      ELSE end

NumberEnd(s, command) == IF HasSnr(command.kind) THEN SnrEnd(s, command.end) ELSE command.end

GridAt(s, p) == IF IsGrid(Sub(s, p, p + 3)) THEN Sub(s, p, p + 3) ELSE ""

(* A heartbeat or a general call, with or without a recipient and a grid.  *)
StandsAt(s, p, word) ==
  StartsAt(s, p, word) /\ Char(s, p + Len(word)) \notin Alnum \cup {"_"}

HeartbeatTypes == {Cqs[i] : i \in DOMAIN Cqs} \cup {"HEARTBEAT", "HB"}

NoHeartbeat == [type |-> "", grid |-> "", end |-> 1]

HeartbeatGridAt(s, p) ==
  IF p = SkipSpace(s, p) \/ Char(s, SkipSpace(s, p) + 4) \in Alnum \cup {"_"} THEN ""
  ELSE GridAt(s, SkipSpace(s, p))

TypedHeartbeat(s, type, end, grid) ==
  IF type = "HEARTBEAT" /\ StartsWith(TrimStart(Rest(s, end)), "SNR") THEN NoHeartbeat
  ELSE [type |-> type, grid |-> grid, end |-> IF grid = "" THEN end ELSE SkipSpace(s, end) + 4]

HeartbeatAt(s, p) ==
  LET types == {t \in HeartbeatTypes : StandsAt(s, p, t)}
      type  == CHOOSE t \in types : \A u \in types : Len(t) >= Len(u)
  IN  IF types = {} THEN NoHeartbeat
      ELSE TypedHeartbeat(s, type, p + Len(type), HeartbeatGridAt(s, p + Len(type)))

HeartbeatParts(s) ==
  LET begin  == RunEnd(s, 1, White)
      prefix == IF StartsAt(s, begin, "@ALLCALL") THEN "@ALLCALL"
                ELSE IF StartsAt(s, begin, "@HB") THEN "@HB" ELSE ""
      behind == begin + Len(prefix)
  IN  IF prefix = "" THEN HeartbeatAt(s, begin)
      ELSE IF Char(s, behind) \notin White THEN NoHeartbeat
      ELSE HeartbeatAt(s, RunEnd(s, behind, White))
-----------------------------------------------------------------------------
(***************************************************************************)
(* Packing.  The layouts are [3][50][16][3] with the call of the sender,   *)
(* and [3][28][28][5][1][1][6] with both calls and a command.              *)
(***************************************************************************)
PackCompoundFrame(call, type, extra, bits3) ==
  LET packed == PackAlphaNumeric50(call)
  IN  IF packed = << 0, 0 >> THEN NoFrame
      ELSE Pack72(Bits(TypeCode(type), 3) \o Bits(packed[1], 25) \o Bits(packed[2], 25)
                    \o Bits(extra, 16) \o Bits(bits3, 3))

(* A report takes the place of a command's code, with its own two.         *)
PackCmd(kind, num) ==
  IF HasSnr(kind) THEN 128 + (IF kind = "HeartbeatSnr" THEN 64 ELSE 0) + (num % 64)
  ELSE PackedCode(kind) % 128

Packed(frame, end) == [frame |-> frame, end |-> end]

HeartbeatFrame(parts, mycall) ==
  LET isAlt == StartsWith(parts.type, "CQ")
  IN  PackCompoundFrame(mycall, "Heartbeat",
        (IF parts.grid = "" THEN NMaxGrid ELSE PackGrid(parts.grid)) + (IF isAlt THEN 2^15 ELSE 0),
        IF isAlt THEN (CHOOSE i \in DOMAIN Cqs : Cqs[i] = parts.type) - 1 ELSE 0)

PackHeartbeatParts(parts, mycall) ==
  IF parts = NoHeartbeat \/ mycall = "" \/ PackAlphaNumeric50(mycall) = << 0, 0 >>
  THEN Packed(NoFrame, 1)
  ELSE Packed(HeartbeatFrame(parts, mycall), parts.end)

PackHeartbeatMessage(s, mycall) == PackHeartbeatParts(HeartbeatParts(s), mycall)

(* A call with a command and a report, or with a grid or nothing.          *)
WithCommand(s, call, grid, command, numEnd) ==
  Packed(IF command.cmd # ""
         THEN PackCompoundFrame(call, "CompoundDirected",
                NUserGrid + PackCmd(command.kind, PackNum(Trim(Sub(s, command.end, numEnd - 1)))), 0)
         ELSE PackCompoundFrame(call, "Compound",
                IF grid = "" THEN NMaxGrid ELSE PackGrid(grid), 0),
         numEnd)

WithNumber(s, call, grid, command) == WithCommand(s, call, grid, command, NumberEnd(s, command))

WithGrid(s, call, callEnd, grid) ==
  WithNumber(s, call, grid,
             ParseCmd(s, IF grid = "" THEN callEnd ELSE SkipSpace(s, callEnd) + 4))

PackCompoundMessage(s) ==
  LET begin   == RunEnd(s, 1, White) + 1
      callEnd == CallEnd(s, begin)
  IN  IF Char(s, begin - 1) # Tick \/ callEnd = begin THEN Packed(NoFrame, 1)
      ELSE WithGrid(s, Sub(s, begin, callEnd - 1), callEnd, GridAt(s, SkipSpace(s, callEnd)))

NotDirected == [frame |-> NoFrame, end |-> 1, to |-> "", toCompound |-> FALSE, cmd |-> "", num |-> ""]

IsSentApart(call) == call \notin BaseCallSet /\ IsCompoundCall(call)

PortableBit(call) == << IF call.portable THEN 1 ELSE 0 >>

DirectedFrame(from, to, kind, num) ==
  Pack72(Bits(TypeCode("Directed"), 3) \o Bits(from.packed, 28) \o Bits(to.packed, 28)
           \o Bits(PackedCode(kind) % 32, 5) \o PortableBit(from) \o PortableBit(to)
           \o Bits(PackNum(Trim(num)), 6))

(* The command's token: with its space if it is only known with it.        *)
Token(cmd) == IF FromWire(Trim(cmd)) # NoKind THEN Trim(cmd) ELSE cmd

KindOf(cmd) == IF FromWire(cmd) # NoKind THEN FromWire(cmd) ELSE FromWire(Trim(cmd))

DirectedWith(to, from, packedTo, cmd, num, end) ==
  LET named == [NotDirected EXCEPT !.to = to, !.toCompound = IsSentApart(to)]
  IN  IF KindOf(cmd) = NoKind \/ from.packed = Unpackable \/ packedTo.packed = Unpackable
      THEN named
      ELSE [named EXCEPT !.frame = DirectedFrame(from, packedTo, KindOf(cmd), num),
                         !.end = end, !.cmd = Token(cmd), !.num = num]

(* A call that has no place in the frame is sent as Hidden here, and in a  *)
(* frame of its own.                                                       *)
DirectedTo(s, to, mycall, command, numEnd) ==
  IF command.kind = NoKind THEN NotDirected
  ELSE DirectedWith(to, PackCallsign(IF IsCompoundCall(mycall) THEN Hidden ELSE mycall),
                    PackCallsign(IF IsSentApart(to) THEN Hidden ELSE to),
                    command.cmd, Sub(s, command.end, numEnd - 1), numEnd)

DirectedCommand(s, to, mycall, command) ==
  DirectedTo(s, to, mycall, command, NumberEnd(s, command))

PackDirectedMessage(s, mycall) ==
  LET toEnd == CallEnd(s, 1)
      to    == Sub(s, 1, toEnd - 1)
  IN  IF toEnd = 1 \/ to = mycall \/ ~ IsValidCall(to) THEN NotDirected
      ELSE DirectedCommand(s, to, mycall, ParseCmd(s, toEnd))

(* A data frame of version 2.2 is marked by its flag, an older one by its  *)
(* first bit; the second tells which of the two codes was the better.      *)
DataFrame(packed) == Packed(Pack72(packed.bits), packed.consumed + 1)

PackFastDataMessage(s) == DataFrame(CompressFrame(s, << >>))

LongerOf(huff, dense) == IF huff.consumed > dense.consumed THEN huff ELSE dense

PackDataMessage(s) ==
  DataFrame(LongerOf(PackHuffMessage(s, << 1, 0 >>), CompressFrame(s, << 1, 1 >>)))
-----------------------------------------------------------------------------
(***************************************************************************)
(* Reading a frame back.                                                   *)
(***************************************************************************)
NoNumber == 100  \* beyond every report

Unknown == [type |-> "Unknown", compound |-> "", directed |-> << >>, number |-> NoNumber,
            isAlt |-> FALSE, extra |-> "", message |-> ""]

WithoutPadding(bits) ==
  LET zeros == {i \in DOMAIN bits : bits[i] = 0}
  IN  IF zeros = {} THEN << >>
      ELSE SubSeq(bits, 1, (CHOOSE i \in zeros : \A j \in DOMAIN bits : j > i => bits[j] = 1) - 1)

UnpackFastDataMessage(bits) == Decompress(WithoutPadding(bits))

UnpackDataMessage(bits) ==
  LET body == WithoutPadding(SubSeq(bits, 2, FrameBits))
  IN  IF bits[1] = 0 \/ Len(body) < 2 THEN ""
      ELSE IF body[1] = 1 THEN Decompress(Tail(body)) ELSE HuffDecode(Tail(body))

(* The command and the report of a compound-directed frame.                *)
UnpackCmd(value) ==
  IF value >= 128 THEN [code |-> PackedCode(IF (value \div 64) % 2 = 1 THEN "HeartbeatSnr" ELSE "Snr"),
                        num |-> value % 64]
  ELSE [code |-> value, num |-> 0]

TokenOf(code) == IF FromWireCode(code) = NoKind THEN "" ELSE WireToken(FromWireCode(code))

UnpackCompoundFrame(bits) ==
  [type |-> Field(bits, 1, 3),
   call |-> UnpackAlphaNumeric50(<< Field(bits, 4, 25), Field(bits, 29, 25) >>),
   extra |-> Field(bits, 54, 16), bits3 |-> Field(bits, 70, 3)]

UnpackHeartbeatMessage(bits) ==
  LET parts == UnpackCompoundFrame(bits)
      isAlt == parts.extra >= 2^15
  IN  [Unknown EXCEPT !.type = "Heartbeat", !.compound = parts.call, !.isAlt = isAlt,
                      !.extra = UnpackGrid(parts.extra % 2^15),
                      !.message = IF isAlt THEN Cqs[parts.bits3 + 1] ELSE "HEARTBEAT"]

UnpackCompoundMessage(bits) ==
  LET parts  == UnpackCompoundFrame(bits)
      report == UnpackCmd(parts.extra - NUserGrid)
      grid   == parts.extra <= NBaseGrid
      says   == parts.extra \in NUserGrid..(NMaxGrid - 1)
      extra  == IF grid THEN " " \o UnpackGrid(parts.extra)
                ELSE IF says THEN TokenOf(report.code) ELSE ""
      number == IF ~ grid /\ says /\ HasSnr(FromWireCode(report.code))
                THEN report.num - 31 ELSE NoNumber
  IN  IF parts.type = TypeCode("Compound")
      THEN [Unknown EXCEPT !.type = "Compound", !.compound = parts.call, !.extra = extra,
                           !.number = number]
      ELSE [Unknown EXCEPT !.type = "CompoundDirected", !.compound = parts.call, !.extra = extra,
                           !.number = number, !.directed = << Hidden, parts.call, extra >>]

UnpackDirectedMessage(bits) ==
  LET report == Field(bits, 67, 6)
  IN  [Unknown EXCEPT !.type = "Directed",
         !.directed = << UnpackCallsign(Field(bits, 4, 28), bits[65] = 1),
                         UnpackCallsign(Field(bits, 32, 28), bits[66] = 1),
                         TokenOf(Field(bits, 60, 5)) >>,
         !.number = IF report = 0 THEN NoNumber ELSE report - 31]

DecodedFrame(frame, isData) ==
  LET bits == Unpack72(frame)
      text == IF isData THEN UnpackFastDataMessage(bits) ELSE UnpackDataMessage(bits)
      code == Field(bits, 1, 3)
  IN  IF text # "" THEN [Unknown EXCEPT !.type = "Data", !.message = text]
      ELSE IF isData \/ code \notin 0..3 THEN Unknown
      ELSE IF FrameTypes[code + 1] = "Heartbeat" THEN UnpackHeartbeatMessage(bits)
      ELSE IF FrameTypes[code + 1] = "Directed" THEN UnpackDirectedMessage(bits)
      ELSE UnpackCompoundMessage(bits)
=============================================================================
