-------------------------- MODULE ReceivePipeline --------------------------
(***************************************************************************)
(* A receiver put together as tests/time.rs does it: an audio callback     *)
(* writes the frames captured since the last one to the detector, polls    *)
(* the decode scheduler with the counts before and after the write, and    *)
(* decodes the windows it returns from the detector's buffer.  Another     *)
(* thread of the caller may clear the detector or change its block size    *)
(* at any point, between the write and the poll too; audio may be lost,    *)
(* or, if nothing else interferes, the wall clock set.  How many frames of *)
(* a period may be lost or thrown out with a staging block is bounded.     *)
(***************************************************************************)
EXTENDS Detector

CONSTANTS Submode, SamplesPerPeriod, SamplesNeeded, MaxStep,
          MaxLag,       \* frames that may wait for the callback
          MaxLost,      \* frames of a period that may miss the buffer
          MaxTroubles,  \* bound: frames lost, clears, resets and resizes
          Slips,        \* frames the wall clock may be set forward or back
          MaxSkew,      \* frames they may put a sample off its place in the period
          Horizon       \* bound: frames of time explored, by the number of troubles

ASSUME PipelineAssumption ==
  /\ MaxLag \in Nat \ {0} /\ MaxLost \in Nat /\ MaxTroubles \in Nat /\ MaxSkew \in Nat
  /\ Slips \subseteq Int
  /\ Horizon \in [0..MaxTroubles -> Nat]

PeriodFrames == PeriodSeconds * MsPerSecond * FramesPerMs

(* The callback comes so often that, with all the frames that may miss the *)
(* buffer, the count gains at most MaxStep between two polls, and no       *)
(* period passes without a write.  One period of audio fills the buffer.   *)
ASSUME AudioKeepsUp ==
  /\ PeriodFrames = SampleSize * Ndown
  /\ 2 * MaxStep <= SampleSize
  /\ MaxLag + MaxLost + MsPerSecond * FramesPerMs <= PeriodFrames
  /\ \A b \in BlockSizes :
       (b * Ndown - 1) + MaxLost + (FramesPerMs - 1) + 2 * MaxLag <= MaxStep * Ndown

(* A sample is off its place by what was lost before it, by what a block   *)
(* at the end of the buffer leaves out, and, if the clock was set, by less *)
(* than a second.                                                          *)
ASSUME SkewAssumption ==
  /\ MsPerSecond * FramesPerMs <= MaxSkew + 1
  /\ MaxLost + FramesPerMs <= MaxSkew + 1
  /\ \A b \in BlockSizes : /\ b * Ndown <= MaxSkew + 1
                           /\ MaxLag + MaxLost + (b - 1) * Ndown <= MaxSkew

VARIABLES now,       \* the time, in frames
          slip,      \* by how much the wall clock was set forward
          astray,    \* the clock was set, and no period began since
          heard,     \* frames before this one were written or lost
          began,     \* the first frame since the count came to be in its period
          lost,      \* frames of the period that missed the buffer
          troubles,  \* how often the audio or the caller interfered
          prev,      \* the count before the write that waits for its poll
          cursor, window, polled  \* the scheduler's state
pollerVars == <<cursor, window, polled>>
clockVars == <<slip, astray>>
periodVars == <<began, lost>>
vars == <<samplesPerFft, d2, kin, staged, ns, stats, now, slip, astray, heard, began, lost,
          troubles, prev, cursor, window, polled>>

Scheduler == INSTANCE DecodeScheduler WITH kin <- polled

ASSUME PollAssumption == Scheduler!SchedulerAssumption

NotWriting == -1

WallClock == now + slip
PeriodStart(t) == (t \div PeriodFrames) * PeriodFrames

Init == /\ now = 0
        /\ \E b \in BlockSizes : InitDetector(0, b)
        /\ slip = 0 /\ astray = FALSE
        /\ heard = 0 /\ began = 0 /\ lost = 0
        /\ troubles = 0
        /\ prev = NotWriting
        /\ Scheduler!Init

Tick == /\ now < Horizon[troubles]
        /\ now - heard < MaxLag
        /\ now' = now + 1
        /\ UNCHANGED <<detectorVars, clockVars, heard, periodVars, troubles, prev, pollerVars>>

(* The count comes to be in the period of the wall clock: frames of it may *)
(* have been lost before.  Or it stays in its period, and misses more.     *)
PeriodBegins == /\ Wrapped(WallClock)
                /\ began' = heard
                /\ lost' = MonusNat(heard + slip, PeriodStart(WallClock))

PeriodGoesOn(missed) == /\ ~Wrapped(WallClock)
                        /\ began' = began
                        /\ lost' = lost + missed

Write == /\ prev = NotWriting
         /\ heard < now
         /\ \E n \in 1..(now - heard) :
              /\ WriteI16(WallClock, [i \in 1..n |-> heard + i - 1])
              /\ heard' = heard + n
         /\ PeriodBegins \/ PeriodGoesOn(0)
         /\ prev' = kin
         /\ astray' = (astray /\ ~(Wrapped(WallClock) /\ SecondInPeriod(WallClock) = 0))
         /\ UNCHANGED <<now, slip, troubles, pollerVars>>

(* next_window for every submode, with the count the write returned.       *)
Poll == /\ prev # NotWriting
        /\ Scheduler!NextWindow(stats.kinAfter, prev)
        /\ polled' = stats.kinAfter
        /\ prev' = NotWriting
        /\ UNCHANGED <<detectorVars, clockVars, now, heard, periodVars, troubles>>

Disturb == /\ troubles < MaxTroubles
           /\ now < Horizon[troubles + 1]
           /\ troubles' = troubles + 1
           /\ UNCHANGED <<now, prev, pollerVars>>

Trouble == Disturb /\ slip = 0 /\ UNCHANGED clockVars /\ lost' \in 0..MaxLost

(* The audio driver drops the oldest waiting frame.                        *)
LoseFrame == /\ heard < now
             /\ heard' = heard + 1
             /\ lost' = lost + 1
             /\ Trouble
             /\ UNCHANGED <<detectorVars, began>>

(* The count follows the clock, and the staging block is thrown out.       *)
Align == /\ PeriodBegins \/ PeriodGoesOn(Len(staged))
         /\ Trouble
         /\ UNCHANGED heard

ClearDetector == Align /\ Clear(WallClock)

ResetPosition == Align /\ ResetBufferPosition(WallClock)

ResetContent == UNCHANGED <<heard, periodVars>> /\ Trouble /\ ResetBufferContent

ChangeBlockSize == /\ lost' = lost + Len(staged)
                   /\ Trouble
                   /\ \E b \in BlockSizes \ {samplesPerFft} : SetBlockSize(b)
                   /\ UNCHANGED <<heard, began>>

(* Someone sets the wall clock; nothing in the detector takes note.        *)
SetClock == /\ troubles = 0 /\ Disturb
            /\ slip' \in {d \in Slips : now + d >= 0}
            /\ astray' = TRUE
            /\ UNCHANGED <<detectorVars, heard, periodVars>>

Next == \/ Tick \/ Write \/ Poll \/ LoseFrame \/ SetClock
        \/ ClearDetector \/ ResetPosition \/ ResetContent \/ ChangeBlockSize

Spec == Init /\ [][Next]_vars

-----------------------------------------------------------------------------
(* The samples before the count that were heard in its period are in the  *)
(* order in which they were heard, and no older sample comes after one of  *)
(* them: what reset_buffer_position brings round the end of the buffer     *)
(* stays before them, and a wrap or a lost frame puts nothing older after. *)
HeardInOrder ==
  \A i, j \in 0..(kin - 1) :
    i < j /\ d2[i] # Blank /\ d2[j] # Blank /\ d2[i] >= began => d2[i] < d2[j]

(* What the decoder finds in a window is the audio of that slot: there is a *)
(* period in which every sample was captured no further from its place     *)
(* than the callback lags, or MaxSkew when something interfered; then it   *)
(* may also be blank, or brought round the end of the buffer.              *)
(* A clock that is set back, which write_i16 may take for a new period,    *)
(* disturbs no more than the windows up to the next period that begins.    *)
Skew == IF troubles = 0 THEN MaxLag ELSE MaxSkew

InPlace(i, p) == d2[i] + slip - (p * PeriodFrames + i * Ndown) \in (-Skew)..Skew

Displaced(i) == troubles # 0 /\ (d2[i] = Blank \/ d2[i] < began)

WindowHoldsItsAudio ==
  \A m \in Submode :
    window[m] # Scheduler!NoWindow /\ kin = polled /\ ~astray =>
      \E p \in 0..(WallClock \div PeriodFrames) :
        \A i \in window[m].start..(polled - 1) : Displaced(i) \/ InPlace(i, p)

(* Whatever the detector's callers do, the scheduler is polled as its      *)
(* specification expects: the count never outruns the windows.             *)
PolledAsExpected == Scheduler!Spec

(* Unless the clock was set, no period wraps at a write before the last    *)
(* slot of every submode was decoded.                                      *)
LastReadyPoint(m) == SampleSize - SamplesPerPeriod[m] + SamplesNeeded[m]

PeriodHeardOut ==
  [][Write /\ Wrapped(WallClock) /\ slip = 0
       => \A m \in Submode : polled >= LastReadyPoint(m)]_vars
=============================================================================
