----------------------------- MODULE MCFraming -----------------------------
(***************************************************************************)
(* Instances of Framing for TLC: a part of the dictionary with the         *)
(* indexes of the real one, a stand-in for the checksum, and the lines     *)
(* that are framed.                                                        *)
(***************************************************************************)
EXTENDS Framing

Dictionary ==
  << << "_", 48 >>, << " ", 67 >>, << "Z", 40 >>, << "Y", 17 >>, << "X", 30 >>,
     << "WORLD", 907 >>, << "W", 14 >>, << "V", 22 >>, << "U", 12 >>, << "TEST", 240 >>,
     << "T", 1 >>, << "S", 6 >>, << "R", 8 >>, << "Q", 36 >>, << "P", 18 >>, << "OR", 543 >>,
     << "O", 3 >>, << "N", 5 >>, << "MSG", 200 >>, << "M", 13 >>, << "L", 10 >>, << "K", 23 >>,
     << "J", 34 >>, << "I", 4 >>, << "HELLO", 6571 >>, << "HELL", 4245 >>, << "H", 7 >>,
     << "G", 16 >>, << "F", 15 >>, << "EM73", 12817 >>, << "EL", 138 >>, << "E", 0 >>,
     << "D", 9 >>, << "CQ", 121 >>, << "C", 11 >>, << "BC", 97 >>, << "B", 19 >>,
     << "ABC", 6753 >>, << "A", 2 >>, << "@", 54 >>, << "?", 27 >>, << ">", 56 >>,
     << ":", 39 >>, << "9", 44 >>, << "8", 45 >>, << "73", 351 >>, << "7", 47 >>,
     << "6", 46 >>, << "5", 42 >>, << "4", 43 >>, << "3", 41 >>, << "2", 38 >>, << "1", 35 >>,
     << "0", 33 >>, << "/", 49 >>, << ".", 21 >>, << "-", 24 >>, << "+", 25 >>, << "!", 28 >> >>

MCRanked == [i \in DOMAIN Dictionary |-> [text |-> Dictionary[i][1], index |-> Dictionary[i][2]]]

(* Sixteen bits that depend on every character and its place.              *)
MCCrc16(s) ==
  LET value(c) == IF c \in DOMAIN AlnumIdx THEN AlnumIdx[c] ELSE 40
      crc[i \in 0..Len(s)] ==
        IF i = 0 THEN 7 ELSE (crc[i - 1] * 1021 + value(Char(s, i)) + 1) % 65536
  IN  crc[Len(s)]

Job(mycall, text) ==
  [mycall |-> mycall, mygrid |-> "EM73", selected |-> "", text |-> text,
   identify |-> FALSE, forceData |-> FALSE, legacy |-> FALSE]

CommandTexts == {Command(i).text : i \in 0..41}

(* Every command, and what may be said behind it.                          *)
AllCommands ==
  {Job("K1ABC", to \o " " \o c \o rest) :
     to \in {"K2XYZ"}, c \in CommandTexts, rest \in {"", " -12", " +31", " HELLO WORLD", " EM73"}}

(* Recipients of every sort, from senders of every sort.                   *)
AllCalls ==
  {Job(mycall, to \o c \o rest) :
     mycall \in {"K1ABC", "K1ABC/P", "F/K1ABC", "3DA0XY"},
     to \in {"K2XYZ", "K2XYZ/P", "VE3/K2XYZ", "3XY1A", "@APRSIS", "@WX1"},
     c \in {" MSG", " SNR", "?", ">", " CMD", " HW CPY?"}, rest \in {"", " +7", " HELLO WORLD"}}

(* Lines without a recipient.                                              *)
Bare ==
  {Job(mycall, to \o type \o grid) :
     mycall \in {"K1ABC", "F/K1ABC"}, to \in {"", "@ALLCALL ", "@HB "},
     type \in {"CQ", "CQ CQ CQ", "CQ DX", "HB", "HEARTBEAT", "HEARTBEAT SNR"},
     grid \in {"", " EM73", " FN42 HELLO"}}

(* A call is selected on the screen.                                       *)
Selected ==
  {[Job("K1ABC", text) EXCEPT !.selected = "K2XYZ"] :
     text \in {"SNR?", "MSG HELLO WORLD", "HELLO WORLD", " TEST", "CQ CQ CQ EM73", "HB EM73",
               "K2XYZ 73", "K3DEF/7 ACK", ">K3DEF HELLO", "@ALLCALL QSL?", "?"}}

Relays ==
  {Job("K1ABC", text) :
     text \in {"K2XYZ>K3DEF HELLO", "K2XYZ > K3DEF > K4GHI MSG TEST", "K2XYZ>@WX1 TEST",
               "K2XYZ>VE3/K3DEF ACK", "K1ABC: K2XYZ>K3DEF GRID?", "K2XYZ> K3DEF SNR -05"}}

(* The locator of the station is unknown, or longer than it is sent.       *)
Locators ==
  {[Job("F/K1ABC", text) EXCEPT !.mygrid = grid] :
     grid \in {"", "EM73TU"}, text \in {"K2XYZ INFO?", "CQ", "K2XYZ NACK HELLO"}}

(* Compound frames that are typed as they are sent.                        *)
Typed ==
  {Job("K1ABC", Tick \o call \o rest) :
     call \in {"K2XYZ", "F/K2XYZ/P", "@WX1"}, rest \in {"", " EM73", " ACK HELLO", " SNR +03", " INFO?"}}

(* Free text, with the station's own call before it, or inside.            *)
FreeText ==
  {[Job(mycall, text) EXCEPT !.identify = identify, !.forceData = forceData, !.legacy = legacy] :
     mycall \in {"K1ABC", ""}, text \in {"HELLO WORLD", "THE TEST OF  1234567890 HELLOWORLD !",
               "K1ABC: HELLO", "TEST K1ABC _  ", "ABC TEST", "\tHELLO", ""},
     identify, forceData, legacy \in BOOLEAN}

(* A character that no word of the dictionary has: a tab.                  *)
UnsupportedJobs ==
  {Job("K1ABC", text) : text \in {"\tHELLO", "HELLO\t", "HELLO \tWORLD TEST"}}

MCJobs == AllCommands \cup AllCalls \cup Bare \cup Selected \cup Relays \cup Locators \cup Typed
            \cup FreeText
=============================================================================
