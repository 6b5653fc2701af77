------------------------- MODULE MCBufferedDelivery -------------------------
(***************************************************************************)
(* Instances of BufferedDelivery for TLC.  Characters are short sequences, *)
(* so that TLC can compare any two of them: a space, two letters, and one  *)
(* character for the checksum of each text (an ideal checksum).            *)
(***************************************************************************)
EXTENDS BufferedDelivery

MCSpace == <<>>
MCLetters == { <<1>>, <<2>> }
MCChecksum16(t) == << <<3, t>> >>
MCChar == {MCSpace} \cup MCLetters
            \cup {<<3, t>> : t \in UNION {[1..n -> MCLetters] : n \in 0..3}}

Alice == "alice"
Bob == "bob"
Group == "@APRSIS"

MsgTo(from, to, t) ==
  [from |-> from, to |-> to, command |-> "MSG", text |-> t, compound |-> FALSE]

(* Payloads of one and two characters, which with the checksum take two    *)
(* frames each; a compound sender, a command without checksum, a group     *)
(* message that carries none, an empty command and free text.              *)
Checked == MsgTo(Alice, Bob, << <<1>> >>)
Longer == MsgTo(Bob, Alice, << <<2>>, <<1>> >>)
FromCompound == [MsgTo(Alice, Bob, << <<2>> >>) EXCEPT !.compound = TRUE]
Unchecked == [MsgTo(Alice, Bob, << <<1>>, <<2>>, <<1>> >>) EXCEPT !.command = "STATUS"]
ToAprs == MsgTo(Alice, Group, << <<1>> >>)
Empty == MsgTo(Alice, Bob, <<>>)
FreeText == [MsgTo(Alice, Bob, << <<1>> >>) EXCEPT !.command = "none"]
EmptyFromCompound == [Empty EXCEPT !.compound = TRUE]

LossyTraffic == {Checked, FromCompound, FreeText}
ExactTraffic == {Checked, FromCompound, Unchecked, ToAprs, Empty, FreeText}
EmptyTraffic == {Checked, Empty, EmptyFromCompound}

(* Estimates in tenths of a hertz: a channel that drifts over a boundary   *)
(* between two whole frequencies and meets another in the higher one; two  *)
(* that are steady and far apart.                                          *)
MCSubmodeOf == [c \in Channel |-> "Normal"]
Meeting == [c \in Channel |-> IF c = "c1" THEN {9, 10} ELSE {11}]
Steady == [c \in Channel |-> IF c = "c1" THEN {9} ELSE {29}]

TwoThenOne == [c \in Channel |-> IF c = "c1" THEN 2 ELSE 1]
TwoEach == [c \in Channel |-> 2]

(* The instance that receives everything meets what ExactDelivery asks.    *)
ASSUME MCHypotheses == Traffic = ExactTraffic => HearsAllOnce /\ Deliverable
=============================================================================
