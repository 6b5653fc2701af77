------------------------------ MODULE Detector ------------------------------
(***************************************************************************)
(* The live detector (detector.rs): PCM frames at 48 kHz are staged in     *)
(* blocks, decimated, and written to a buffer that holds one period of     *)
(* samples; the sample count kin falls to zero when the wall clock enters  *)
(* a new period.  A frame is represented by the time it was captured, and  *)
(* a sample by the first of the NDOWN frames it was made of; the filter's  *)
(* arithmetic is left out.  Time is counted in frames.                     *)
(***************************************************************************)
EXTENDS Integers, Sequences, FiniteSets

CONSTANTS SampleSize,     \* JS8_RX_SAMPLE_SIZE: samples the buffer holds
          Ndown,          \* frames decimated into one sample
          FramesPerMs,    \* frames in a tick of the wall clock
          MsPerSecond,    \* ticks in a second
          PeriodSeconds,  \* period_s
          BlockSizes,     \* values of samples_per_fft the callers use
          Blank           \* a zero sample

(* One period of audio fits the buffer, and a tick holds whole samples.    *)
ASSUME DetectorAssumption ==
  /\ SampleSize \in Nat \ {0}
  /\ Ndown \in Nat \ {0}
  /\ FramesPerMs \in Nat \ {0}
  /\ MsPerSecond \in Nat \ {0}
  /\ PeriodSeconds \in Nat \ {0}
  /\ BlockSizes \subseteq Nat \ {0}
  /\ Blank \notin Nat
  /\ FramesPerMs % Ndown = 0
  /\ PeriodSeconds * MsPerSecond * (FramesPerMs \div Ndown) <= SampleSize

VARIABLES samplesPerFft,  \* samples in a staging block
          d2,             \* the sample buffer
          kin,            \* samples written in this period
          staged,         \* the frames in the staging block so far
          ns,             \* the second of the period at the last write
          stats           \* WriteStats of the last write
detectorVars == <<samplesPerFft, d2, kin, staged, ns, stats>>

NoStats == [framesIn |-> 0, framesAccepted |-> 0, framesDropped |-> 0,
            blocksWritten |-> 0, kinAfter |-> 0, secondInPeriod |-> 0]

Smaller(a, b) == IF a < b THEN a ELSE b
MonusNat(a, b) == IF a < b THEN 0 ELSE a - b

MsInPeriod(now) == (now \div FramesPerMs) % (PeriodSeconds * MsPerSecond)
SecondInPeriod(now) == MsInPeriod(now) \div MsPerSecond

BlankBuffer == [i \in 0..(SampleSize - 1) |-> Blank]

(* rotate_right by delta cells, or rotate_left for a negative delta.       *)
Rotated(b, delta) == [i \in 0..(SampleSize - 1) |-> b[(i - delta) % SampleSize]]

(* Where the wall clock says the count should be.                          *)
ClockKin(now) == Smaller(MsInPeriod(now) * (FramesPerMs \div Ndown), SampleSize)

-----------------------------------------------------------------------------
(* Detector::new: the buffer is blank and the count follows the clock.     *)
InitDetector(now, block) ==
  /\ samplesPerFft = block
  /\ d2 = BlankBuffer
  /\ kin = ClockKin(now)
  /\ staged = <<>>
  /\ ns = SecondInPeriod(now)
  /\ stats = NoStats

SetBlockSize(block) ==
  /\ samplesPerFft' = block
  /\ staged' = <<>>
  /\ UNCHANGED <<d2, kin, ns, stats>>

AlignToClock(now) ==
  /\ kin' = ClockKin(now)
  /\ staged' = <<>>
  /\ ns' = SecondInPeriod(now)
  /\ UNCHANGED <<samplesPerFft, stats>>

(* Mutant: the content stays where it was when the count moves.            *)
ResetWithoutRotating(now) ==
  /\ AlignToClock(now)
  /\ d2' = d2

ResetBufferPosition(now) ==
  /\ AlignToClock(now)
  /\ d2' = Rotated(d2, ClockKin(now) - kin)

ResetBufferContent ==
  /\ d2' = BlankBuffer
  /\ UNCHANGED <<samplesPerFft, kin, staged, ns, stats>>

Clear(now) ==
  /\ AlignToClock(now)
  /\ d2' = BlankBuffer

-----------------------------------------------------------------------------
(* write_i16.  The period wraps when the second is smaller than at the     *)
(* last write: the count and the staging block start again.                *)
Wrapped(now) == SecondInPeriod(now) < ns

(* Mutant: the staging block is kept when the period wraps.                *)
StagedAcrossWrap(now) == staged

StagedAtWrite(now) == IF Wrapped(now) THEN <<>> ELSE staged

KinAtWrite(now) == IF Wrapped(now) THEN 0 ELSE kin

Accepted(now, n) == Smaller(n, MonusNat(SampleSize, KinAtWrite(now)) * Ndown)

BlockFrames == samplesPerFft * Ndown

(* Mutants: a block is stored wherever the buffer ends; the last      *)
(* three blocks of the buffer stay empty.                                  *)
StoredBlocksUnbounded(k, blocks) == blocks

StoredBlocksThreeShort(k, blocks) ==
  Cardinality({b \in 0..(blocks - 1) :
                 k + b * samplesPerFft < MonusNat(SampleSize, 3 * samplesPerFft)})

(* Full blocks are stored one after the other while the count is below the *)
(* last block of the buffer; a block that is full after that is discarded. *)
StoredBlocks(k, blocks) ==
  Cardinality({b \in 0..(blocks - 1) :
                 k + b * samplesPerFft < MonusNat(SampleSize, samplesPerFft)})

WriteI16(now, frames) ==
  LET n == Accepted(now, Len(frames))
      all == StagedAtWrite(now) \o SubSeq(frames, 1, n)
      blocks == Len(all) \div BlockFrames
      k == KinAtWrite(now)
      gained == StoredBlocks(k, blocks) * samplesPerFft
  IN  /\ kin' = k + gained
      /\ d2' = [i \in 0..(SampleSize - 1) |->
                  IF i \in k..(k + gained - 1) THEN all[(i - k) * Ndown + 1] ELSE d2[i]]
      /\ staged' = SubSeq(all, blocks * BlockFrames + 1, Len(all))
      /\ ns' = SecondInPeriod(now)
      /\ stats' = [framesIn |-> Len(frames), framesAccepted |-> n,
                   framesDropped |-> Len(frames) - n, blocksWritten |-> blocks,
                   kinAfter |-> k + gained, secondInPeriod |-> SecondInPeriod(now)]
      /\ UNCHANGED samplesPerFft
=============================================================================
