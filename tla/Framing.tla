------------------------------ MODULE Framing ------------------------------
(***************************************************************************)
(* build_message_frames of src/src/varicode/mod.rs: a line of text becomes *)
(* the frames that are sent for it.  Each turn of its loop takes a frame   *)
(* from the front of the line.                                             *)
(***************************************************************************)
EXTENDS FrameLayouts

CONSTANTS Jobs,      \* the calls of build_frames that are looked at
          Crc16(_)   \* CRC-16/KERMIT of a text, from the crc crate

JobFields == {"mycall", "mygrid", "selected", "text", "identify", "forceData", "legacy"}

ASSUME JobsAssumption == \A j \in Jobs : DOMAIN j = JobFields

VARIABLES job,       \* what was asked for
          line,      \* the text that has no frame yet
          dataOnly,  \* from here on there are data frames only
          frames,    \* [frame, data] in the order in which they are sent
          phase      \* "prepare", "framing" or "done"

vars == << job, line, dataOnly, frames, phase >>

Init ==
  /\ job \in Jobs
  /\ line = job.text
  /\ dataOnly = job.forceData
  /\ frames = << >>
  /\ phase = "prepare"
-----------------------------------------------------------------------------
(***************************************************************************)
(* A checksum is written with three characters of 41.                      *)
(***************************************************************************)
Alphabet41 == Digits \o Letters \o "+-./?"

Pack16Bits(n) ==
  Char(Alphabet41, n \div 1681 + 1) \o Char(Alphabet41, ((n \div 41) % 41) + 1)
    \o Char(Alphabet41, (n % 41) + 1)

Checksum16(s) == Pack16Bits(Crc16(s))
-----------------------------------------------------------------------------
(***************************************************************************)
(* What the line is made to begin and end with.  Only a call longer than   *)
(* three characters at its front keeps the selected call away.             *)
(***************************************************************************)
WithoutMyCall(s, mycall) ==
  IF StartsWith(s, mycall) /\ Char(s, Len(mycall) + 1) \in {":", " "}
  THEN TrimStart(Rest(s, Len(mycall) + 2)) ELSE s

StartsWithCall(s) ==
  LET end == CallEnd(s, 1) IN end > 4 /\ IsValidCall(Sub(s, 1, end - 1))

Addressed(s, selected) ==
  IF \/ selected = "" \/ StartsWith(s, selected) \/ Char(s, 1) = Tick
     \/ \E start \in {"@ALLCALL", "CQ", "HB"} : StartsWith(s, start)
     \/ StartsWithCall(s)
  THEN s ELSE selected \o (IF Char(s, 1) = " " THEN "" ELSE " ") \o s

Prepare ==
  /\ phase = "prepare"
  /\ LET own     == WithoutMyCall(line, job.mycall)
         trimmed == IF TrimEnd(own) = "" THEN own ELSE TrimEnd(own)
     IN  line' = IF job.forceData THEN trimmed ELSE Addressed(trimmed, job.selected)
  /\ phase' = "framing"
  /\ UNCHANGED << job, dataOnly, frames >>
-----------------------------------------------------------------------------
(***************************************************************************)
(* The header that the front of the line makes.  A quick look at it tells  *)
(* whether a packer is worth a try.                                        *)
(***************************************************************************)
CouldBeHeartbeat(s) ==
  \E start \in {"CQ", "HB", "HEARTBEAT", "@ALLCALL", "@HB"} : StartsWith(TrimStart(s), start)

CouldBeCompound(s) == Char(TrimStart(s), 1) = Tick

(* Mutant: only calls with a letter beside a digit are worth a try.        *)
CouldBeBaseDirected(s) == HasLetterDigitPair(Sub(s, 1, RunEnd(s, 1, Alnum) - 1))

(* A slash, an @, or a letter beside a digit, before anything else.        *)
CouldBeDirected(s) ==
  LET run == Sub(s, 1, RunEnd(s, 1, Alnum) - 1)
  IN  HasLetterDigitPair(run) \/ Char(s, Len(run) + 1) \in {"/", "@"}

NotTaken == [frame |-> NoFrame, end |-> 1]

HeartbeatOf(s) == IF CouldBeHeartbeat(s) THEN PackHeartbeatMessage(s, job.mycall) ELSE NotTaken

CompoundOf(s) == IF CouldBeCompound(s) THEN PackCompoundMessage(s) ELSE NotTaken

DirectedOf(s) == IF CouldBeDirected(s) THEN PackDirectedMessage(s, job.mycall) ELSE NotDirected

Sent(frame, isData) == << [frame |-> frame, data |-> isData] >>

Turn == phase = "framing" /\ line # ""

Heartbeat ==
  /\ Turn /\ ~ dataOnly
  /\ \E packed \in {HeartbeatOf(line)} :
       /\ packed.end > 1
       /\ frames' = frames \o Sent(packed.frame, FALSE)
       /\ line' = Rest(line, packed.end)
  /\ UNCHANGED << job, dataOnly, phase >>

Compound ==
  /\ Turn /\ ~ dataOnly
  /\ HeartbeatOf(line).end = 1
  /\ \E packed \in {CompoundOf(line)} :
       /\ packed.end > 1
       /\ frames' = frames \o Sent(packed.frame, FALSE)
       /\ line' = Rest(line, packed.end)
  /\ UNCHANGED << job, dataOnly, phase >>

(* Who sends a message, and to whom, where a call is too long for one      *)
(* frame: two compound frames in its place.                                *)
DeMessage == TrimEnd(Tick \o job.mycall \o " " \o job.mygrid)

(* Mutant: the recipient comes before the sender.                          *)
CompoundFramesSwapped(directed) ==
  Sent(PackCompoundMessage(Tick \o directed.to \o directed.cmd \o directed.num).frame, FALSE)
    \o Sent(PackCompoundMessage(DeMessage).frame, FALSE)

CompoundFrames(directed) ==
  LET de == PackCompoundMessage(DeMessage)
      to == PackCompoundMessage(Tick \o directed.to \o directed.cmd \o directed.num)
      sent(packed) == IF packed.frame = NoFrame THEN << >> ELSE Sent(packed.frame, FALSE)
  IN  sent(de) \o sent(to)

(* Mutant: the checksum is that of the text with the space before it.      *)
CheckedUntrimmed(rest, directed) ==
  IF ~ IsBufferedToken(directed.cmd) \/ rest = "" THEN rest
  ELSE IF ChecksumBits(FromWire(directed.cmd)) = 16
  THEN TrimStart(rest) \o " " \o Checksum16(rest)
  ELSE TrimStart(rest)

(* The text of a command that needs it is followed by its checksum.        *)
Checked(rest, directed) ==
  LET body == TrimStart(rest)
  IN  IF ~ IsBufferedToken(directed.cmd) \/ rest = "" THEN rest
      ELSE IF directed.to = "@APRSIS" /\ directed.cmd \in {" MSG", " MSG TO:"} THEN body
      ELSE IF ChecksumBits(FromWire(directed.cmd)) = 16 THEN body \o " " \o Checksum16(body)
      ELSE body

Directed ==
  /\ Turn /\ ~ dataOnly
  /\ HeartbeatOf(line).end = 1 /\ CompoundOf(line).end = 1
  /\ \E directed \in {DirectedOf(line)} :
       /\ directed.end > 1
       /\ frames' = frames \o (IF IsCompoundCall(job.mycall) \/ directed.toCompound
                               THEN CompoundFrames(directed)
                               ELSE Sent(directed.frame, FALSE))
       /\ line' = Checked(Rest(line, directed.end), directed)
  /\ dataOnly' = TRUE
  /\ UNCHANGED << job, phase >>
-----------------------------------------------------------------------------
(***************************************************************************)
(* Data frames, and the end.                                               *)
(***************************************************************************)
NoHeader ==
  dataOnly \/ (HeartbeatOf(line).end = 1 /\ CompoundOf(line).end = 1 /\ DirectedOf(line).end = 1)

Identified ==
  IF /\ ~ dataOnly /\ job.identify /\ ~ job.forceData
     /\ frames = << >> /\ job.selected = "" /\ DirectedOf(line).to = ""
     /\ ~ (job.mycall = "" \/ Contains(line, job.mycall))
  THEN job.mycall \o ": " \o line ELSE line

DataOf(s) == IF job.legacy THEN PackDataMessage(s) ELSE PackFastDataMessage(s)

(* Mutant: a frame that takes nothing of the line is sent all the same.    *)
DataRegardless ==
  /\ Turn /\ NoHeader
  /\ \E text \in {Identified} : \E packed \in {DataOf(text)} :
       /\ frames' = frames \o Sent(packed.frame, ~ job.legacy)
       /\ line' = Rest(text, packed.end)
  /\ dataOnly' = TRUE
  /\ UNCHANGED << job, phase >>

Data ==
  /\ Turn /\ NoHeader
  /\ \E text \in {Identified} : \E packed \in {DataOf(text)} :
       /\ packed.end > 1
       /\ frames' = frames \o Sent(packed.frame, ~ job.legacy)
       /\ line' = Rest(text, packed.end)
  /\ dataOnly' = TRUE
  /\ UNCHANGED << job, phase >>

(* Nothing at the front of the line can be packed: the rest is not sent.   *)
Stop ==
  /\ Turn /\ NoHeader
  /\ DataOf(Identified).end = 1
  /\ phase' = "done"
  /\ UNCHANGED << job, line, dataOnly, frames >>

Finish ==
  /\ phase = "framing" /\ line = ""
  /\ phase' = "done"
  /\ UNCHANGED << job, line, dataOnly, frames >>

Done == phase = "done" /\ UNCHANGED vars

Next == Prepare \/ Heartbeat \/ Compound \/ Directed \/ Data \/ Stop \/ Finish \/ Done

Spec == Init /\ [][Next]_vars

(* The flags that go out with frame i of a framed line.                    *)
FIRST == 1
LAST  == 2
DATA  == 4

FlagsOf(i) ==
  (IF frames[i].data THEN DATA ELSE 0)
    + (IF i = 1 THEN FIRST ELSE 0) + (IF i = Len(frames) THEN LAST ELSE 0)
-----------------------------------------------------------------------------
(***************************************************************************)
(* Properties.                                                             *)
(***************************************************************************)
TypeOK ==
  /\ \A i \in DOMAIN frames : frames[i].frame \in [1..12 -> 0..63] /\ frames[i].data \in BOOLEAN
  /\ dataOnly \in BOOLEAN
  /\ phase \in {"prepare", "framing", "done"}

(* What a receiver reads in frame i, and the text of all data frames.      *)
SaidBy(frame) == DecodedFrame(frame.frame, frame.data)

Said(i) == SaidBy(frames[i])

TextSent ==
  LET text[i \in 0..Len(frames)] ==
        IF i = 0 THEN "" ELSE text[i - 1] \o Said(i).message
  IN  IF phase # "done" THEN "" ELSE text[Len(frames)]

(* A data frame holds the front of the line, to the letter, and the line   *)
(* goes on behind it: nothing is lost or said twice at a frame's end.      *)
IsText(said) == said.type \in {"Data", "Unknown"}

DataReadsBack ==
  [][frames' # frames =>
       LET said == SaidBy(frames'[Len(frames')])
       IN  dataOnly \/ IsText(said) =>
             /\ said.type = "Data"
             /\ said.message \o line' \in {line, job.mycall \o ": " \o line}]_vars

(* A text that cannot be sent on stops there: what is heard of a line of   *)
(* free text is its front, with the station's call before it or not (test  *)
(* build_message_frames_stops_on_unsupported_input, mod.rs).               *)
StopsOnUnsupportedInput ==
  \/ StartsWith(job.text, TextSent)
  \/ StartsWith(job.mycall \o ": " \o job.text, TextSent)

(* The recipient, the command and the report a receiver finds in a header  *)
(* are those that stand at the front of the line, and the sender is the    *)
(* station, whether one frame says so or two.  A report is sent without    *)
(* loss from -30 to 31 dB.                                                 *)
HeaderReads(said, from) ==
  LET to     == said.directed[2]
      kind   == FromWire(said.directed[3])
      behind == Rest(line, Len(to) + 1)
      report == Trim(Rest(behind, Len(said.directed[3]) + 1))
  IN  /\ from = job.mycall
      /\ to = Sub(line, 1, RunEnd(line, 1, HopChar) - 1)
      /\ \E k \in 1..Len(behind) : FromToken(Sub(behind, 1, k)) = kind
      /\ HasSnr(kind) /\ IsNumber(report) =>
           (Number(report) \in -30..31 => said.number = Number(report))

HeadersReadBack ==
  [][dataOnly' /\ ~ dataOnly =>
       LET said == SaidBy(frames'[Len(frames')])
       IN  IsText(said) \/
           HeaderReads(said, IF said.type = "Directed" THEN said.directed[1]
                             ELSE SaidBy(frames'[Len(frames') - 1]).compound)]_vars

(* A frame that hides the sender comes right behind one that names it.     *)
SenderIsNamed ==
  phase = "done" /\ ~ Contains(job.text, Tick) =>
    \A i \in DOMAIN frames : Said(i).type = "CompoundDirected" =>
      i > 1 /\ Said(i - 1).type = "Compound" /\ Said(i - 1).compound = job.mycall

(* A receiver that joins the data of a command's message, as the           *)
(* reassembler does, finds the checksum right where the command carries    *)
(* one, and is left with the end of the text that was asked for.           *)
Verified(to, token, text) ==
  LET n == Len(text) - 4
  IN  IF ChecksumBits(FromWire(token)) = 0 \/ ~ IsBufferedToken(token)
         \/ (to = "@APRSIS" /\ token \in {" MSG", " MSG TO:"})
      THEN [valid |-> TRUE, payload |-> text]
      ELSE [valid |-> n >= 0 /\ Char(text, n + 1) = " "
                      /\ Checksum16(Sub(text, 1, n)) = Rest(text, n + 2),
            payload |-> Sub(text, 1, n)]

Headers == {i \in DOMAIN frames : Said(i).type \in {"Directed", "CompoundDirected"}}

MessageVerifies ==
  phase = "done" =>
    \A i \in Headers :
      LET said    == Said(i).directed
          message == Verified(said[2], said[3], Trim(TextSent))
          asked   == TrimEnd(job.text)
      IN  TextSent # "" =>
            /\ message.valid
            /\ Rest(asked, Len(asked) - Len(message.payload) + 1) = message.payload

(* The command parser and the framer read a line alike: where the parser   *)
(* sees a recipient and a command, the header says the same, a relay goes  *)
(* to its first hop, and a call to everyone is a frame of its own.  There  *)
(* is no code for such a call to one station: it is sent as text.          *)
KindOnAir(parsed) ==
  IF parsed.target.how = "Relay" THEN "Relay"
  ELSE IF parsed.kind = "QueryMsg" THEN "Query"
  ELSE IF parsed.kind \in {"Cq", "Heartbeat"} THEN "FreeText"
  ELSE parsed.kind

ToEveryone(parsed) ==
  /\ parsed.kind \in {"Cq", "Heartbeat"}
  /\ parsed.target.recipient \in {NoText, "@ALLCALL", "@HB"}

FramedAs(parsed) ==
  IF ToEveryone(parsed)
  THEN Said(1).type = "Heartbeat" /\ Said(1).isAlt = (parsed.kind = "Cq")
  ELSE \E i \in Headers : /\ Said(i).directed[2] = parsed.target.route[1]
                         /\ FromWire(Said(i).directed[3]) = KindOnAir(parsed)

ParserAgrees ==
  phase = "done" /\ ~ job.forceData =>
    \A parsed \in {ParseCommand(job.text, IF job.selected = "" THEN NoText ELSE job.selected)} :
      parsed # NotACommand /\ parsed.sender \in {NoText, job.mycall} => FramedAs(parsed)

(* The quick look at a line never turns away what a packer would take.     *)
PrefiltersAgree ==
  Turn /\ ~ dataOnly =>
    /\ PackHeartbeatMessage(line, job.mycall).end > 1 => CouldBeHeartbeat(line)
    /\ PackCompoundMessage(line).end > 1 => CouldBeCompound(line)
    /\ PackDirectedMessage(line, job.mycall).end > 1 => CouldBeDirected(line)

(* Every turn of the loop brings its end nearer, even one that puts the    *)
(* station's call or a checksum into the line: no line is framed forever.  *)
LongestInsert == 20

TurnsLeft == Len(line) + (IF dataOnly THEN 0 ELSE LongestInsert)

TurnsShorten ==
  [][phase = "framing" => phase' = "done" \/ TurnsLeft' < TurnsLeft]_vars
=============================================================================
