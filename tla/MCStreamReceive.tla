-------------------------- MODULE MCStreamReceive --------------------------
(***************************************************************************)
(* An instance of StreamReceive for TLC: a submode whose search reaches    *)
(* less far than its frames leave room, like Slow, a shorter one, and one  *)
(* that is decoded now and then, with a spectrum for every second sample.  *)
(***************************************************************************)
EXTENDS StreamReceive

MCPeriod == [Slow |-> 10, Fast |-> 7, Other |-> 5]
MCSymbols == [Slow |-> 6, Fast |-> 4, Other |-> 3]
MCOneSymbol == [Slow |-> 1, Fast |-> 1, Other |-> 1]
MCLimit == [Slow |-> 2, Fast |-> 100, Other |-> 100]
MCReach == [Slow |-> 1, Fast |-> 3, Other |-> 3]
MCStep == [Slow |-> 1, Fast |-> 1, Other |-> 2]
MCFft == [Slow |-> 2, Fast |-> 2, Other |-> 2]

(* The theorems speak of this instance, too.                               *)
ASSUME MCHypotheses == HistoryReaches
=============================================================================
