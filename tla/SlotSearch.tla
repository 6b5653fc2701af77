----------------------------- MODULE SlotSearch -----------------------------
(***************************************************************************)
(* Which part of the buffer a decoder pass searches (rx/mod.rs), and where *)
(* in it the sync search looks for the first symbol of a frame             *)
(* (decoder.rs), for a caller that writes, schedules and decodes as        *)
(* tests/time.rs does: it polls the scheduler with the count before and    *)
(* after each write, and decodes up to the end of the window it gets.      *)
(***************************************************************************)
EXTENDS DecodeScheduler

CONSTANTS StartDelay,     \* samples from the start of a slot to its first symbol
          SymbolSamples,  \* samples of the symbols of a frame
          SearchFirst,    \* the first and the last start the sync search tries,
          SearchLast,     \* in samples from the start of the searched span
          ClockError      \* samples a sender's clock may be off

ASSUME SearchAssumption ==
  /\ SampleSize # 0
  /\ StartDelay \in [Submode -> Nat]
  /\ SymbolSamples \in [Submode -> Nat]
  /\ SearchFirst \in [Submode -> Int]
  /\ SearchLast \in [Submode -> Int]
  /\ ClockError \in Nat

(* A slot is ready when a frame that is as late as the sender's clock may  *)
(* make it has ended; the earliest one starts inside the buffer.           *)
ASSUME FrameAssumption ==
  \A m \in Submode :
    /\ StartDelay[m] + SymbolSamples[m] + ClockError <= SamplesNeeded[m]
    /\ ClockError <= StartDelay[m]

SmallerOf(a, b) == IF a < b THEN a ELSE b

(* Mutant: the span reaches back two slots from the end of the window.     *)
WindowFromKinTwice(kinEnd, nmax) ==
  LET span == SmallerOf(kinEnd, 2 * nmax)
  IN  [start |-> kinEnd - span, size |-> span]

(* window_from_kin: at most nmax samples up to the end.                    *)
WindowFromKin(kinEnd, nmax) ==
  LET span == SmallerOf(kinEnd, nmax)
  IN  [start |-> kinEnd - span, size |-> span]

(* DecodeConfig::legacy: what a pass over validSamples searches.           *)
SearchedSpan(m, validSamples) == WindowFromKin(validSamples, SamplesPerPeriod[m])

(* syncjs8: the starts of a frame that are tried in a span.                *)
Tried(m, span, at) == at - span.start \in SearchFirst[m]..SearchLast[m]

InSpan(m, span, at) ==
  span.start <= at /\ at + SymbolSamples[m] <= span.start + span.size

-----------------------------------------------------------------------------
(* The caller: it polls after each write, with the count before it, and    *)
(* meets the wrap of the period.                                           *)
Hear == \E k \in (kin + 1)..(kin + MaxStep) : k \in Count /\ PollForward(k, kin)

WrapRound == \E k \in 0..MaxStep : /\ kin + MaxStep >= SampleSize
                                   /\ k \in Count
                                   /\ PollBackward(k, kin)

Receive == FirstPoll(0, 0) \/ Hear \/ WrapRound

SearchSpec == Init /\ [][Receive]_vars

-----------------------------------------------------------------------------
(* Every window that is decoded holds the frame of its slot, and the sync  *)
(* search tries the place where it starts, for every sender whose clock is *)
(* right within ClockError.                                                *)
FrameStarts(m, w) ==
  (w.start + StartDelay[m] - ClockError)..(w.start + StartDelay[m] + ClockError)

FramesAreSearched ==
  \A m \in Submode :
    window[m] # NoWindow =>
      LET span == SearchedSpan(m, window[m].start + window[m].size)
      IN  \A at \in FrameStarts(m, window[m]) : InSpan(m, span, at) /\ Tried(m, span, at)
=============================================================================
