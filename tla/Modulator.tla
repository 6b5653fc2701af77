----------------------------- MODULE Modulator -----------------------------
(***************************************************************************)
(* The PCM modulator (modulator.rs), without the experimental-time         *)
(* feature: a frame starts with silence up to the start delay of its slot, *)
(* or, when it is late, part of the way through its symbols.  What is      *)
(* rendered is represented by the symbol that sounds; amplitude, phase and *)
(* channel routing are left out.                                           *)
(***************************************************************************)
EXTENDS TxTiming

CONSTANTS FramesPerMs,   \* audio frames in a millisecond
          NumSymbols,    \* JS8_NUM_SYMBOLS: symbols of a frame
          SymbolFrames,  \* audio frames of a symbol of each submode
          TuneFrames     \* audio frames of a tuning tone of each submode

ASSUME ModulatorAssumption ==
  /\ FramesPerMs \in Nat \ {0}
  /\ NumSymbols \in Nat \ {0}
  /\ SymbolFrames \in [Submode -> Nat \ {0}]
  /\ TuneFrames \in [Submode -> Nat]
  /\ \A m \in Submode : /\ NumSymbols * SymbolFrames[m] = DataMs[m] * FramesPerMs
                         /\ NumSymbols * SymbolFrames[m] <= TuneFrames[m]

VARIABLES state,         \* the operating state
          tuning,        \* m_tuning
          mode,          \* the submode of the last start
          silentFrames,  \* silence left before the first symbol
          ic,            \* the next audio frame of the waveform
          isym0,         \* the symbol that sounds
          nextSymbol,    \* the audio frame the next symbol starts at
          open           \* a frame was started and not stopped since
modulatorVars == <<state, tuning, mode, silentFrames, ic, isym0, nextSymbol, open>>

NoSymbol == -1

InitModulator ==
  /\ state = "Idle"
  /\ tuning = FALSE
  /\ mode \in Submode
  /\ silentFrames = 0
  /\ ic = 0
  /\ isym0 = NoSymbol
  /\ nextSymbol = 0
  /\ open = FALSE

Stop == /\ state' = "Idle"
        /\ open' = FALSE
        /\ UNCHANGED <<tuning, mode, silentFrames, ic, isym0, nextSymbol>>

Tune(on) == /\ tuning' = on
            /\ IF on THEN UNCHANGED <<state, open>>
                     ELSE state' = "Idle" /\ open' = FALSE
            /\ UNCHANGED <<mode, silentFrames, ic, isym0, nextSymbol>>

-----------------------------------------------------------------------------
(* The silence a frame starts with, and how far into it a late one starts. *)
StartsInTxDelay(m, ms) == PeriodMs[m] <= MsIntoSlot(m, ms) + TxDelayMs

SilentMs(m, ms) ==
  IF StartsInTxDelay(m, ms) THEN StartDelayMs[m] + (PeriodMs[m] - MsIntoSlot(m, ms))
  ELSE IF StartDelayMs[m] > MsIntoSlot(m, ms) THEN StartDelayMs[m] - MsIntoSlot(m, ms)
  ELSE 0

(* Mutant: a late frame starts at its first symbol.                        *)
LateMsIgnored(m, ms) == 0

LateMs(m, ms) ==
  IF StartsInTxDelay(m, ms) \/ StartDelayMs[m] > MsIntoSlot(m, ms) THEN 0
  ELSE MsIntoSlot(m, ms) - StartDelayMs[m]

(* start_tones; a tuning tone starts at once.                              *)
Start(m, ms) ==
  /\ mode' = m
  /\ silentFrames' = IF tuning THEN 0 ELSE SilentMs(m, ms) * FramesPerMs
  /\ ic' = IF tuning THEN 0 ELSE LateMs(m, ms) * FramesPerMs
  /\ isym0' = NoSymbol
  /\ nextSymbol' = 0
  /\ open' = TRUE
  /\ state' = IF silentFrames' > 0 THEN "Synchronizing" ELSE "Active"
  /\ UNCHANGED tuning

-----------------------------------------------------------------------------
(* render_stereo of n > 0 frames: silence first, then the waveform.        *)
LastFrame == IF tuning THEN TuneFrames[mode] ELSE NumSymbols * SymbolFrames[mode]

Quiet(n) == IF state = "Synchronizing"
            THEN IF silentFrames < n THEN silentFrames ELSE n
            ELSE 0

Sounding(n) == LET room == n - Quiet(n)
                   left == IF ic < LastFrame THEN LastFrame - ic ELSE 0
               IN  IF room < left THEN room ELSE left

(* Mutant: the first symbol of a render takes a whole symbol to sound.     *)
SymbolStepFromHere(s, c) ==
  IF s.symbol = NoSymbol
  THEN LET first == IF tuning THEN 0 ELSE c \div SymbolFrames[mode]
       IN  [symbol |-> first, next |-> c + SymbolFrames[mode]]
  ELSE IF ~tuning /\ c >= s.next
       THEN [symbol |-> s.symbol + 1, next |-> s.next + SymbolFrames[mode]]
       ELSE s

(* The symbol that sounds, and the frame the next one starts at, at frame  *)
(* c of the waveform, from those at the frame before.                      *)
SymbolStep(s, c) ==
  IF s.symbol = NoSymbol
  THEN LET first == IF tuning THEN 0 ELSE c \div SymbolFrames[mode]
       IN  [symbol |-> first, next |-> (first + 1) * SymbolFrames[mode]]
  ELSE IF ~tuning /\ c >= s.next
       THEN [symbol |-> s.symbol + 1, next |-> s.next + SymbolFrames[mode]]
       ELSE s

(* The symbol at each of the next n frames of the waveform.                *)
Symbols(n) ==
  LET at[j \in 0..n] == IF j = 0 THEN [symbol |-> isym0, next |-> nextSymbol]
                                 ELSE SymbolStep(at[j - 1], ic + j - 1)
  IN  at

(* Mutant: the end of the waveform must be passed, not reached.            *)
StateAfterTheEnd(n) ==
  IF ic + Sounding(n) > LastFrame THEN "Idle"
  ELSE IF state = "Synchronizing" /\ silentFrames > n THEN "Synchronizing"
  ELSE "Active"

StateAfter(n) ==
  IF ic + Sounding(n) >= LastFrame THEN "Idle"
  ELSE IF state = "Synchronizing" /\ silentFrames > n THEN "Synchronizing"
  ELSE "Active"

Render(n) ==
  /\ open
  /\ state # "Idle"
  /\ state' = StateAfter(n)
  /\ silentFrames' = silentFrames - Quiet(n)
  /\ ic' = ic + Sounding(n)
  /\ isym0' = Symbols(Sounding(n))[Sounding(n)].symbol
  /\ nextSymbol' = Symbols(Sounding(n))[Sounding(n)].next
  /\ UNCHANGED <<tuning, mode, open>>
=============================================================================
