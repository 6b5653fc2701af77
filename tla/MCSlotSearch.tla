---------------------------- MODULE MCSlotSearch ----------------------------
(***************************************************************************)
(* An instance of SlotSearch for TLC: all submodes with their real times,  *)
(* in units of 600 samples (a twentieth of a second); lengths are rounded  *)
(* up, the reach of the search is rounded towards zero.                    *)
(***************************************************************************)
EXTENDS SlotSearch

MCSubmode == {"Normal", "Fast", "Turbo", "Ultra", "Slow"}
MCPeriod == [Normal |-> 300, Fast |-> 200, Turbo |-> 120, Slow |-> 600, Ultra |-> 80]
MCNeeded == [Normal |-> 273, Fast |-> 172, Turbo |-> 91, Slow |-> 526, Ultra |-> 63]
MCDelay == [Normal |-> 10, Fast |-> 4, Turbo |-> 2, Slow |-> 10, Ultra |-> 2]
MCSymbols == [Normal |-> 253, Fast |-> 158, Turbo |-> 79, Slow |-> 506, Ultra |-> 51]
MCFirst == [Normal |-> -40, Fast |-> -68, Turbo |-> -41, Slow |-> -41, Ultra |-> -38]
MCLast == [Normal |-> 59, Fast |-> 76, Turbo |-> 45, Slow |-> 60, Ultra |-> 41]
=============================================================================
