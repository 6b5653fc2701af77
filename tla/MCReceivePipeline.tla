------------------------- MODULE MCReceivePipeline -------------------------
(***************************************************************************)
(* An instance of ReceivePipeline for TLC: a period of six seconds, four   *)
(* frames and two samples to a second, with a slow slot of a whole period  *)
(* and two fast ones.  It is followed past two wraps of the period with    *)
(* one trouble, and past one with two; the clock is set by less than a     *)
(* second, by more, and by more than half a period.                        *)
(***************************************************************************)
EXTENDS ReceivePipeline

MCPeriod == [Fast |-> SampleSize \div 2, Slow |-> SampleSize]
MCNeeded == [Fast |-> MCPeriod["Fast"] - MaxStep, Slow |-> MCPeriod["Slow"] - MaxStep]
MCSlips == {-13, -3, 5}
MCHorizon == [n \in 0..MaxTroubles |-> IF n < 2 THEN 52 ELSE 29]
=============================================================================
