------------------------------ MODULE Commands ------------------------------
(***************************************************************************)
(* The commands of src/src/command.rs: their kinds, the codes and tokens   *)
(* they have on the air, and the texts an operator may type for them.      *)
(***************************************************************************)
EXTENDS Text

(* The kinds in the order of their five-bit codes, from 0.                 *)
WireKinds ==
  << "SnrQuery", "DitDit", "Nack", "HearingQuery", "GridQuery", "Relay",
     "StatusQuery", "Status", "Hearing", "Msg", "MsgTo", "Query", "QueryMsgs",
     "QueryCall", "Ack", "Grid", "InfoQuery", "Info", "Fb", "HowCopyQuery", "Sk",
     "Rr", "QslQuery", "Qsl", "Cmd", "Snr", "No", "Yes", "SeventyThree",
     "HeartbeatSnr", "AgainQuery", "FreeText" >>

(* The token a decoded directed frame shows for each code.                 *)
WireTokens ==
  << " SNR?", " DIT DIT", " NACK", " HEARING?", " GRID?", ">", " STATUS?",
     " STATUS", " HEARING", " MSG", " MSG TO:", " QUERY", " QUERY MSGS",
     " QUERY CALL", " ACK", " GRID", " INFO?", " INFO", " FB", " HW CPY?", " SK",
     " RR", " QSL?", " QSL", " CMD", " SNR", " NO", " YES", " 73",
     " HEARTBEAT SNR", " AGN?", " " >>

(* Heartbeats and general calls have frames of their own and no code; a    *)
(* query for one message is sent as a query.                               *)
CommandKind == {WireKinds[i] : i \in DOMAIN WireKinds} \cup {"Heartbeat", "Cq", "QueryMsg"}

NoKind == "none"

FromWireCode(code) == IF code = -1 THEN "Cq" ELSE IF code \in 0..31 THEN WireKinds[code + 1] ELSE NoKind

(* -1 where the kind has no code.                                          *)
PackedCode(kind) ==
  IF kind \in {"Heartbeat", "Cq"} THEN -1
  ELSE (CHOOSE i \in DOMAIN WireKinds :
          WireKinds[i] = IF kind = "QueryMsg" THEN "Query" ELSE kind) - 1

WireToken(kind) ==
  IF kind = "Heartbeat" THEN " HEARTBEAT" ELSE IF kind = "Cq" THEN " CQ"
  ELSE WireTokens[PackedCode(kind) + 1]

(* The kind of an exact token: the wire tokens and their aliases.          *)
FromWire(token) ==
  IF token \in {" HEARTBEAT", " HB"} THEN "Heartbeat"
  ELSE IF token = " CQ" THEN "Cq"
  ELSE IF token = "?" THEN "SnrQuery"
  ELSE IF token = " QUERY MSGS?" THEN "QueryMsgs"
  ELSE IF token = "  " THEN "FreeText"
  ELSE IF \E i \in DOMAIN WireTokens : WireTokens[i] = token
       THEN WireKinds[CHOOSE i \in DOMAIN WireTokens : WireTokens[i] = token]
       ELSE NoKind

CqTokens == {"CQ CONTEST", "CQ CQ CQ", "CQ FIELD", "CQ QRP", "CQ CQ", "CQ DX", "CQ FD", "CQ"}

(* The kind of a token taken out of a text, with spaces around it or not.  *)
PlainTokens ==
  [word \in {TrimStart(WireTokens[i]) : i \in DOMAIN WireTokens} \ {""} |->
     WireKinds[CHOOSE i \in DOMAIN WireTokens : TrimStart(WireTokens[i]) = word]]

FromToken(token) ==
  LET word == Trim(token)
  IN  IF token # "" /\ word = "" THEN "FreeText"
      ELSE IF word \in CqTokens THEN "Cq"
      ELSE IF word \in {"HEARTBEAT", "HB"} THEN "Heartbeat"
      ELSE IF word = "QUERY MSG" THEN "QueryMsg"
      ELSE IF word = "QUERY MSGS?" THEN "QueryMsgs"
      ELSE IF word = "?" THEN "SnrQuery"
      ELSE IF word \in DOMAIN PlainTokens THEN PlainTokens[word]
      ELSE NoKind

HasSnr(kind) == kind \in {"Snr", "HeartbeatSnr"}

ChecksumBits(kind) ==
  IF PackedCode(kind) \in {5, 9, 10, 11, 12, 13, 24} THEN 16 ELSE 0

(* Whether data frames follow a token: the spaced commands, and some others.*)
IsBufferedToken(token) ==
  /\ FromWire(token) # NoKind
  /\ \/ Contains(token, " ")
     \/ PackedCode(FromWire(token)) \in {5, 9, 10, 11, 12, 13, 15, 24}
-----------------------------------------------------------------------------
(***************************************************************************)
(* The texts of the commands, with the argument each takes.  Bare commands *)
(* need no recipient.                                                      *)
(***************************************************************************)
QuestionCommands ==
  << << "AGN?", "AgainQuery", "None" >>, << "QSL?", "QslQuery", "None" >>,
     << "HW CPY?", "HowCopyQuery", "None" >>, << "SNR?", "SnrQuery", "None" >>,
     << "INFO?", "InfoQuery", "None" >>, << "GRID?", "GridQuery", "None" >>,
     << "STATUS?", "StatusQuery", "None" >>, << "QUERY MSGS?", "QueryMsgs", "None" >>,
     << "HEARING?", "HearingQuery", "None" >> >>

PlainCommands ==
  << << "MSG TO:", "MsgTo", "Call" >>, << "HEARTBEAT SNR", "HeartbeatSnr", "None" >>,
     << "QUERY MSGS", "QueryMsgs", "None" >>, << "QUERY CALL", "QueryCall", "QueryCall" >>,
     << "QUERY MSG", "QueryMsg", "MessageId" >>, << "QUERY", "Query", "None" >>,
     << "DIT DIT", "DitDit", "None" >>, << "STATUS", "Status", "None" >>,
     << "HEARING", "Hearing", "None" >>, << "CMD", "Cmd", "None" >>,
     << "MSG", "Msg", "None" >>, << "NACK", "Nack", "None" >>, << "ACK", "Ack", "None" >>,
     << "SNR", "Snr", "None" >>, << "QSL", "Qsl", "None" >>, << "INFO", "Info", "None" >>,
     << "GRID", "Grid", "Grid" >>, << "73", "SeventyThree", "None" >>,
     << "YES", "Yes", "None" >>, << "NO", "No", "None" >>, << "RR", "Rr", "None" >>,
     << "SK", "Sk", "None" >>, << "FB", "Fb", "None" >> >>

BareCommands ==
  << << "CQ CQ CQ", "Cq", "Grid" >>, << "CQ CONTEST", "Cq", "Grid" >>,
     << "CQ FIELD", "Cq", "Grid" >>, << "CQ DX", "Cq", "Grid" >>, << "CQ QRP", "Cq", "Grid" >>,
     << "CQ FD", "Cq", "Grid" >>, << "CQ CQ", "Cq", "Grid" >>, << "CQ", "Cq", "Grid" >>,
     << "HB", "Heartbeat", "Grid" >>, << "HEARTBEAT", "Heartbeat", "Grid" >> >>

Command(i) ==
  LET c == (QuestionCommands \o PlainCommands \o BareCommands)[i + 1]
  IN  [text |-> c[1], kind |-> c[2], arg |-> c[3], bare |-> i >= 32]

(* The commands tried for a text that begins with a pattern, in the order  *)
(* they are tried in; "." stands for any character.                        *)
Buckets ==
  << << "AC", << 21 >> >>, << "AG", << 0 >> >>, << "CM", << 18 >> >>,
     << "CQ", << 33, 32, 34, 36, 38, 35, 37, 39 >> >>, << "D", << 15 >> >>,
     << "F", << 31 >> >>, << "G", << 5, 25 >> >>, << "HB", << 40 >> >>,
     << "HE..I", << 8, 17 >> >>, << "HE..T", << 10, 41 >> >>, << "HW", << 2 >> >>,
     << "I", << 4, 24 >> >>, << "M", << 9, 19 >> >>, << "NA", << 20 >> >>,
     << "NO", << 28 >> >>, << "QU", << 7, 12, 11, 13, 14 >> >>, << "QS", << 1, 23 >> >>,
     << "R", << 29 >> >>, << "SK", << 30 >> >>, << "SN", << 3, 22 >> >>,
     << "ST", << 6, 16 >> >>, << "Y", << 27 >> >>, << "7", << 26 >> >> >>

Fits(pattern, s, start) ==
  \A i \in 1..Len(pattern) : Char(pattern, i) \in {".", Char(s, start + i - 1)}

CommandCandidates(s, start) ==
  LET fitting == {b \in DOMAIN Buckets : Fits(Buckets[b][1], s, start)}
  IN  IF fitting = {} THEN << >> ELSE Buckets[CHOOSE b \in fitting : TRUE][2]
=============================================================================
