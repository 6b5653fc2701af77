------------------------- MODULE MCDecodeScheduler -------------------------
(***************************************************************************)
(* An instance of SlotSearch for TLC: four submodes with their real        *)
(* proportions, in units of 6000 samples (half a second); lengths are      *)
(* rounded up, the reach of the search is rounded towards zero.  For the   *)
(* fifth, Slow, see MCSlotSearch.                                          *)
(***************************************************************************)
EXTENDS SlotSearch

MCSubmode == {"Normal", "Fast", "Turbo", "Ultra"}
MCPeriod == [Normal |-> 30, Fast |-> 20, Turbo |-> 12, Ultra |-> 8]
MCNeeded == [Normal |-> 28, Fast |-> 18, Turbo |-> 10, Ultra |-> 7]
MCDelay == [Normal |-> 1, Fast |-> 1, Turbo |-> 1, Ultra |-> 1]
MCSymbols == [Normal |-> 26, Fast |-> 16, Turbo |-> 8, Ultra |-> 6]
MCFirst == [Normal |-> -4, Fast |-> -6, Turbo |-> -4, Ultra |-> -3]
MCLast == [Normal |-> 5, Fast |-> 7, Turbo |-> 4, Ultra |-> 4]
=============================================================================
