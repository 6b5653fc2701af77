--------------------------- MODULE MCTransmitter ---------------------------
(***************************************************************************)
(* An instance of Transmitter for TLC: two submodes with slots of twelve   *)
(* and six milliseconds, three symbols to a frame.                         *)
(***************************************************************************)
EXTENDS Transmitter

MCSubmode == {"Normal", "Turbo"}
MCPeriod == [Normal |-> 12, Turbo |-> 6]
MCStartDelay == [Normal |-> 2, Turbo |-> 1]
MCData == [Normal |-> 6, Turbo |-> 3]
MCLateNum == [Normal |-> 1, Turbo |-> 1]
MCLateDen == [Normal |-> 1, Turbo |-> 2]
MCSymbol == [Normal |-> 4, Turbo |-> 2]
MCTune == [Normal |-> 14, Turbo |-> 8]

(* The theorems speak of this instance, too.                               *)
ASSUME MCHypotheses == SlotStartsAreOpen /\ ThresholdsShrink
=============================================================================
