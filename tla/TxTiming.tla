------------------------------ MODULE TxTiming ------------------------------
(***************************************************************************)
(* Transmit-slot alignment and gating (timing.rs), without the             *)
(* experimental-time feature: operators on a time in milliseconds.  The    *)
(* code's fractions of a slot are compared exactly, over a common          *)
(* denominator, where the code uses floating point.                        *)
(***************************************************************************)
EXTENDS Integers

CONSTANTS Submode,
          PeriodMs,      \* length of a slot of each submode
          StartDelayMs,  \* from the start of the slot to the first symbol
          DataMs,        \* length of the symbols of a frame
          LateNum,       \* late_threshold_multiplier, as a fraction
          LateDen,
          TxDelayMs,     \* TxTimingConfig: tx_delay and tr_period, the latter
          TrPeriodMs     \* zero for the period of the submode

(* A frame fits its slot.                                                  *)
ASSUME TimingAssumption ==
  /\ PeriodMs \in [Submode -> Nat \ {0}]
  /\ StartDelayMs \in [Submode -> Nat]
  /\ DataMs \in [Submode -> Nat \ {0}]
  /\ LateNum \in [Submode -> Nat \ {0}]
  /\ LateDen \in [Submode -> Nat \ {0}]
  /\ TxDelayMs \in Nat
  /\ TrPeriodMs \in Nat
  /\ \A m \in Submode : StartDelayMs[m] + DataMs[m] <= PeriodMs[m]

MsIntoSlot(m, ms) == ms % PeriodMs[m]
SlotStartMs(m, ms) == ms - MsIntoSlot(m, ms)
SlotEndMs(m, ms) == SlotStartMs(m, ms) + PeriodMs[m]

TxDurationMs(m) == StartDelayMs[m] + DataMs[m]

TrPeriod(m) == IF TrPeriodMs > 0 THEN TrPeriodMs ELSE PeriodMs[m]

(* The late threshold, a fraction of the slot, as numerator and            *)
(* denominator of the milliseconds it makes.                               *)
ThresholdNum(m) ==
  ((PeriodMs[m] - DataMs[m]) * TrPeriod(m) - TxDelayMs * PeriodMs[m]) * LateNum[m]
ThresholdDen(m) == TrPeriod(m) * LateDen[m]

(* Mutant: the limit is not scaled by the submode's multiplier.            *)
LatestStartUnscaled(m, ms) ==
  LET boundary == ThresholdNum(m) \div TrPeriod(m)
  IN  SlotStartMs(m, ms) + (IF boundary < 0 THEN 0 ELSE boundary)

LatestStartMsExclusive(m, ms) ==
  LET boundary == ThresholdNum(m) \div ThresholdDen(m)
  IN  SlotStartMs(m, ms) + (IF boundary < 0 THEN 0 ELSE boundary)

TxDelayWindowStartMs(m, ms) ==
  IF SlotEndMs(m, ms) < TxDelayMs THEN 0 ELSE SlotEndMs(m, ms) - TxDelayMs

(* TransmitSlot::params.                                                   *)
InTxDelayWindow(m, ms) == ms >= TxDelayWindowStartMs(m, ms)
InTxPayloadWindow(m, ms) == MsIntoSlot(m, ms) < TxDurationMs(m)
TimeIsInSendRegion(m, ms) == InTxPayloadWindow(m, ms) \/ InTxDelayWindow(m, ms)

BeforeLateThreshold(m, ms) ==
  MsIntoSlot(m, ms) * ThresholdDen(m) < ThresholdNum(m)

(* Mutant: the late threshold is not looked at.                            *)
AllowedAnytime(m, ms) == InTxPayloadWindow(m, ms) \/ InTxDelayWindow(m, ms)

AllowedToStartNow(m, ms) ==
  BeforeLateThreshold(m, ms) \/ InTxDelayWindow(m, ms)

(* Mutant: the late threshold is forgotten.                                *)
NextViableIfInRegion(m, ms) ==
  IF TimeIsInSendRegion(m, ms) THEN ms ELSE SlotEndMs(m, ms)

NextViableStartMs(m, ms) ==
  IF AllowedToStartNow(m, ms) /\ TimeIsInSendRegion(m, ms) THEN ms ELSE SlotEndMs(m, ms)

ShouldStartTxNow(m, ms, pttActive) ==
  /\ ~pttActive
  /\ TimeIsInSendRegion(m, ms)
  /\ AllowedToStartNow(m, ms)
=============================================================================
