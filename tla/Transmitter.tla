---------------------------- MODULE Transmitter ----------------------------
(***************************************************************************)
(* A transmitter put together as examples/e2e_tx.rs does it: the caller    *)
(* waits until should_start_tx_now, starts a frame at the time it read     *)
(* then, and renders it in real time.  It may also start a frame ungated,  *)
(* stop, and tune.  Time is the wall clock in audio frames, modulo a       *)
(* number of slots of every submode.                                       *)
(***************************************************************************)
EXTENDS Modulator

CONSTANTS ClockMs,     \* bound: the clock starts again after so many milliseconds
          MaxRender,   \* frames the audio output asks for at a time
          MaxUngated   \* bound: frames the caller starts without asking

ASSUME TransmitterAssumption ==
  /\ ClockMs \in Nat \ {0} /\ MaxRender \in Nat /\ MaxUngated \in Nat
  /\ \A m \in Submode : ClockMs % PeriodMs[m] = 0

VARIABLES now,      \* the wall clock, in audio frames
          ungated,  \* how many frames were started without asking
          aligned,  \* the frame was started by the clock, not as a tuning tone
          gated,    \* the frame was started when the gate allowed it
          sounded   \* what the last render produced
vars == <<modulatorVars, now, ungated, aligned, gated, sounded>>

ClockFrames == ClockMs * FramesPerMs
NowMs == now \div FramesPerMs
PttActive == state # "Idle"

Init == /\ InitModulator
        /\ now = 0
        /\ ungated = 0
        /\ aligned = FALSE
        /\ gated = FALSE
        /\ sounded = {}

Wait == /\ state = "Idle"
        /\ now' = (now + 1) % ClockFrames
        /\ UNCHANGED <<modulatorVars, ungated, aligned, gated, sounded>>

StartWhenAllowed ==
  \E m \in Submode :
    /\ ShouldStartTxNow(m, NowMs, PttActive)
    /\ Start(m, NowMs)
    /\ aligned' = ~tuning
    /\ gated' = TRUE
    /\ sounded' = {}
    /\ UNCHANGED <<now, ungated>>

StartUngated ==
  /\ ungated < MaxUngated
  /\ ungated' = ungated + 1
  /\ \E m \in Submode : Start(m, NowMs)
  /\ aligned' = ~tuning
  /\ gated' = FALSE
  /\ sounded' = {}
  /\ UNCHANGED now

StopSending == /\ state # "Idle"
               /\ Stop
               /\ sounded' = {}
               /\ UNCHANGED <<now, ungated, aligned, gated>>

SetTuning == /\ Tune(~tuning)
             /\ sounded' = {}
             /\ UNCHANGED <<now, ungated, aligned, gated>>

(* The output plays n frames; it notes which symbol sounds at which time.  *)
Play == \E n \in 1..MaxRender :
  /\ Render(n)
  /\ sounded' = {[at |-> (now + Quiet(n) + j - 1) % ClockFrames, frame |-> ic + j - 1,
                  symbol |-> Symbols(Sounding(n))[j].symbol] : j \in 1..Sounding(n)}
  /\ now' = (now + n) % ClockFrames
  /\ UNCHANGED <<ungated, aligned, gated>>

Next == \/ Wait \/ StartWhenAllowed \/ StartUngated \/ StopSending \/ SetTuning \/ Play

Spec == Init /\ [][Next]_vars

(* The audio output keeps asking for frames while one is being sent.       *)
FairSpec == Spec /\ WF_vars(Play)

-----------------------------------------------------------------------------
(***************************************************************************)
(* What the theorems ask of the constants.                                 *)
(***************************************************************************)
(* A configured delay leaves the start of a slot open: the slot has more   *)
(* to spare than the delay, in proportion to the configured period, or the *)
(* delay is a whole slot.                                                  *)
SlotStartsAreOpen ==
  \A m \in Submode :
    \/ TxDelayMs * PeriodMs[m] < (PeriodMs[m] - DataMs[m]) * TrPeriod(m)
    \/ PeriodMs[m] <= TxDelayMs

(* No multiplier makes the late threshold longer (submode.rs:199).         *)
ThresholdsShrink == \A m \in Submode : LateNum[m] <= LateDen[m]
-----------------------------------------------------------------------------
(* Whatever the start and the sizes of the renders, a frame that was       *)
(* started by the clock keeps its place in its slot: the waveform's first  *)
(* frame falls on the start delay, to the millisecond.                     *)
KeepsItsPlace ==
  aligned /\ PttActive =>
    (now + silentFrames - ic - StartDelayMs[mode] * FramesPerMs)
      % (PeriodMs[mode] * FramesPerMs) < FramesPerMs

(* The receiver finds every symbol where its place in the slot says, also  *)
(* in a frame that starts late: at each audio frame the symbol of that     *)
(* time sounds.                                                            *)
SlotFrames(m) == PeriodMs[m] * FramesPerMs

SymbolDue(m, at, d) ==
  ((at - d - StartDelayMs[m] * FramesPerMs) % SlotFrames(m)) \div SymbolFrames[m]

SymbolsOnTime ==
  aligned /\ ~tuning =>
    \E d \in 0..(FramesPerMs - 1) :
      \A s \in sounded : s.symbol = SymbolDue(mode, s.at, d)

(* Nothing sounds outside the payload window of the slot (timing.rs), but  *)
(* for the millisecond the clock rounds off.                               *)
SoundsInPayloadWindow ==
  aligned /\ ~tuning =>
    \A s \in sounded :
      LET into == (s.at - (FramesPerMs - 1)) \div FramesPerMs
      IN  InTxPayloadWindow(mode, into % ClockMs)

(* The gate keeps what a late frame loses below what its slot has to       *)
(* spare: before a symbol of it has sounded, the waveform stands no        *)
(* further than the slot is longer than the frame.                         *)
GatedFramesLoseLittle ==
  gated /\ aligned /\ PttActive /\ isym0 = NoSymbol =>
    ic <= (PeriodMs[mode] - TxDurationMs(mode)) * FramesPerMs

(* next_viable_start_ms is a time at which a transmission may start.       *)
NextViableStartIsViable ==
  \A m \in Submode : ShouldStartTxNow(m, NextViableStartMs(m, NowMs), FALSE)

(* The published latest start of a slot (timing.rs:78) agrees with the     *)
(* gate to the millisecond it is rounded to: outside of the TX-delay       *)
(* window a start before it is allowed, and one after it is not.           *)
LatestStartAgreesWithGate ==
  \A m \in Submode :
    LET latest == LatestStartMsExclusive(m, NowMs)
    IN  ~InTxDelayWindow(m, NowMs) =>
          /\ NowMs < latest => AllowedToStartNow(m, NowMs)
          /\ NowMs > latest => ~AllowedToStartNow(m, NowMs)

(* A transmission ends, however the output slices it.                      *)
EndsIdle == PttActive ~> ~PttActive
=============================================================================
