--------------------------- MODULE StreamReceive ---------------------------
(***************************************************************************)
(* Continuous receive, the build with experimental-time: the detector's    *)
(* ring and its running count (detector.rs), overlapping windows           *)
(* (rx/scheduling.rs), Decoder::decode_stream with its history of reports  *)
(* (rx/time.rs) and the spectra that successive windows share              *)
(* (decoder.rs).  Stations send whenever they like.  Samples are in units  *)
(* the instance chooses; "none" of an Option<usize> is -1.                 *)
(***************************************************************************)
EXTENDS Integers, Sequences

CONSTANTS Submode, Polled,   \* the submodes, and those the caller schedules
          Text,              \* what frames say
          SampleSize,        \* JS8_RX_SAMPLE_SIZE: samples in the ring
          SamplesPerPeriod, SamplesForSymbols, SamplesForOneSymbol,
          StrideLimit,       \* a stride the submode may not exceed
          Reach,             \* latest start in a window the sync search tries
          NStep, NFft,       \* samples from a spectrum to the next, and of one
          History,           \* thirty seconds
          Jitter,            \* by how much a start may be estimated late
          MaxStep,           \* most samples received between two polls
          Occasions,         \* counts at which other submodes may be decoded
          Horizon, MaxSent, MaxClears  \* bounds on the environment

(* The ring holds every window with room for what comes while it waits; a  *)
(* repeated frame begins late enough not to be taken for the first.        *)
ASSUME StreamAssumption ==
  /\ Polled \subseteq Submode
  /\ {SampleSize, MaxStep, Horizon, MaxSent, MaxClears, History, Jitter} \subseteq Nat
  /\ \A m \in Submode :
       /\ {SamplesPerPeriod[m], SamplesForSymbols[m], SamplesForOneSymbol[m],
           StrideLimit[m], Reach[m]} \subseteq Nat
       /\ 0 < SamplesForSymbols[m] /\ SamplesForSymbols[m] < SamplesPerPeriod[m]
       /\ SamplesPerPeriod[m] + MaxStep <= SampleSize
       /\ NStep[m] \in 1..NFft[m] /\ NFft[m] \in 1..SamplesPerPeriod[m]
       /\ SamplesForSymbols[m] >= SamplesPerPeriod[m] \div 2 + Jitter

VARIABLES kin,       \* samples received since the last clear
          era,       \* the number of clears
          polled,    \* the count of the caller's last poll
          next,      \* DecodeCursor: the start each submode waits for
          window,    \* the end of the window that is to be decoded
          ends,      \* Decoder: the end of the last window of each submode
          seen,      \* Decoder: the frames reported lately
          spectrum,  \* DecodeMode: the spectra kept, and where they begin
          scan,      \* the window that is being decoded
          sent,      \* the frames on the air since the last clear
          toSend     \* how many more there may be

caller == << polled, next, window >>
decoder == << ends, seen, spectrum >>
vars == << kin, era, polled, next, window, ends, seen, spectrum, scan, sent, toSend >>

None == -1
NoScan == [mode |-> "none", start |-> None, size |-> None]
NoSpectrum == [start |-> None, columns |-> << >>]
SmallerOf(a, b) == IF a < b THEN a ELSE b
LargerOf(a, b) == IF a < b THEN b ELSE a
AbsDiff(a, b) == LargerOf(a - b, b - a)

Init ==
  /\ kin = 0 /\ era = 0 /\ polled = 0
  /\ next = [m \in Submode |-> None]
  /\ window = [m \in Submode |-> None]
  /\ ends = [m \in Submode |-> 0]
  /\ seen = {}
  /\ spectrum = [m \in Submode |-> NoSpectrum]
  /\ scan = NoScan
  /\ sent = << >>
  /\ toSend = MaxSent
-----------------------------------------------------------------------------
(***************************************************************************)
(* The ring.  A sample is known by the clear before it and its count; the  *)
(* rest of a ring that is not full is silence.                             *)
(***************************************************************************)
Silence == << None, None >>

Sample(position) ==
  LET newest == kin - 1 - ((kin - 1 - position) % SampleSize)
  IN  IF newest < 0 THEN Silence ELSE << era, newest >>

(* DecodeMode::decode: the window, filled up with silence.                 *)
Audio(m, start, size) ==
  [i \in 0..(SamplesPerPeriod[m] - 1) |-> IF i < size THEN Sample(start + i) ELSE Silence]

(* A spectrum is known by the first and the last sample it is made of.     *)
Spectra(m) == (SamplesPerPeriod[m] - NFft[m]) \div NStep[m] + 1

Column(m, audio, j) == << audio[j * NStep[m]], audio[j * NStep[m] + NFft[m] - 1] >>

Columns(m, audio) == [j \in 0..(Spectra(m) - 1) |-> Column(m, audio, j)]
-----------------------------------------------------------------------------
(***************************************************************************)
(* The caller: it polls after each write, and decodes each window it gets. *)
(***************************************************************************)
(* Mutant: the reach of the search is not heeded.                          *)
ScanStrideUnlimited(m) ==
  LargerOf(1, SamplesPerPeriod[m] - SamplesForSymbols[m] - SamplesForOneSymbol[m])

ScanStride(m) ==
  LET stride == SamplesPerPeriod[m] - SamplesForSymbols[m] - SamplesForOneSymbol[m]
  IN  LargerOf(1, SmallerOf(stride, StrideLimit[m]))

WindowStart(m, k) == ((k - SamplesPerPeriod[m]) \div ScanStride(m)) * ScanStride(m)

Waiting(m, k, k0) == IF k < k0 THEN None ELSE next[m]

Ready(m, k, k0) ==
  k >= SamplesPerPeriod[m] /\ (Waiting(m, k, k0) = None \/ WindowStart(m, k) >= Waiting(m, k, k0))

NextWindow(k, k0) ==
  /\ next' = [m \in Submode |->
       IF m \notin Polled THEN None
       ELSE IF Ready(m, k, k0) THEN WindowStart(m, k) + ScanStride(m) ELSE Waiting(m, k, k0)]
  /\ window' = [m \in Submode |->
       IF m \in Polled /\ Ready(m, k, k0) THEN WindowStart(m, k) + SamplesPerPeriod[m] ELSE None]

Busy == scan # NoScan \/ \E m \in Submode : window[m] # None

Receive(n) ==
  /\ ~ Busy /\ kin + n <= Horizon
  /\ kin' = kin + n
  /\ polled' = kin'
  /\ NextWindow(kin', polled)
  /\ UNCHANGED << era, decoder, scan, sent, toSend >>

(* A station begins to send; the same frame is not sent over itself.       *)
Transmit(m, text) ==
  /\ ~ Busy /\ toSend > 0
  /\ \A i \in DOMAIN sent :
       sent[i].mode = m /\ sent[i].text = text => kin >= sent[i].at + SamplesForSymbols[m]
  /\ sent' = Append(sent, [mode |-> m, text |-> text, at |-> kin,
                           tried |-> FALSE, decoded |-> FALSE, reports |-> 0])
  /\ toSend' = toSend - 1
  /\ UNCHANGED << kin, era, caller, decoder, scan >>

(* Detector::clear, from any thread while no decoder holds the lock.  The  *)
(* decoder is not told; the ends of its windows show it, once there were   *)
(* two of them.                                                            *)
ClearShows == \A m \in Submode : ends[m] = 0 \/ ends[m] > SamplesPerPeriod[m]

Clear ==
  /\ scan = NoScan /\ era < MaxClears /\ ClearShows
  /\ kin' = 0
  /\ era' = era + 1
  /\ sent' = << >>
  /\ UNCHANGED << caller, decoder, scan, toSend >>
-----------------------------------------------------------------------------
(***************************************************************************)
(* Decoder::decode_stream for one submode.  Spectra are kept only while    *)
(* complete windows advance.                                               *)
(***************************************************************************)
(* Mutant: a window that is not complete will do.                          *)
ReusesPartial(m, end) == end > ends[m]

Reuses(m, end) == end > ends[m] /\ SmallerOf(end, SampleSize) >= SamplesPerPeriod[m]

Shift(m, start) ==
  LET delta == start - spectrum[m].start
  IN  IF spectrum[m].start # None /\ delta >= 0 /\ delta % NStep[m] = 0
      THEN delta \div NStep[m] ELSE None

(* syncjs8: spectra of the last window that are in this one are moved.     *)
Moved(m, shift, fresh) ==
  IF shift \in 0..(Spectra(m) - 1)
  THEN [j \in 0..(Spectra(m) - 1) |->
          IF j + shift < Spectra(m) THEN spectrum[m].columns[j + shift] ELSE fresh[j]]
  ELSE fresh

(* The frames of a window that the search can find: whole, and within its  *)
(* reach.                                                                  *)
Whole(m, start, size, tx) ==
  /\ tx.mode = m
  /\ tx.at \in start..(start + Reach[m])
  /\ tx.at + SamplesForSymbols[m] <= start + size
  /\ \A i \in 0..(SamplesForSymbols[m] - 1) : Sample(tx.at + i) = << era, tx.at + i >>

(* Mutant: a window that ends before the last one of any submode makes the *)
(* decoder forget the frames of all.                                       *)
DecodeForgettingAll(m, end) ==
  LET size  == SmallerOf(end, SamplesPerPeriod[m])
      start == end - size
      fresh == Columns(m, Audio(m, start, size))
  IN  /\ scan' = [mode |-> m, start |-> start, size |-> size]
      /\ seen' = IF end < ends[m] THEN {} ELSE seen
      /\ ends' = [ends EXCEPT ![m] = end]
      /\ spectrum' = [spectrum EXCEPT ![m] =
           IF Reuses(m, end)
           THEN [start |-> start, columns |-> Moved(m, Shift(m, start), fresh)]
           ELSE [start |-> None, columns |-> fresh]]
      /\ sent' = [i \in DOMAIN sent |->
           [sent[i] EXCEPT !.tried = @ \/ Whole(m, start, size, sent[i])]]

Decode(m, end) ==
  LET size  == SmallerOf(end, SamplesPerPeriod[m])
      start == end - size
      fresh == Columns(m, Audio(m, start, size))
  IN  /\ scan' = [mode |-> m, start |-> start, size |-> size]
      /\ seen' = IF end < ends[m] THEN {e \in seen : e.mode # m} ELSE seen
      /\ ends' = [ends EXCEPT ![m] = end]
      /\ spectrum' = [spectrum EXCEPT ![m] =
           IF Reuses(m, end)
           THEN [start |-> start, columns |-> Moved(m, Shift(m, start), fresh)]
           ELSE [start |-> None, columns |-> fresh]]
      /\ sent' = [i \in DOMAIN sent |->
           [sent[i] EXCEPT !.tried = @ \/ Whole(m, start, size, sent[i])]]

DecodeWindow(m) ==
  /\ scan = NoScan /\ window[m] # None
  /\ Decode(m, window[m])
  /\ window' = [window EXCEPT ![m] = None]
  /\ UNCHANGED << kin, era, polled, next, toSend >>

(* A submode that is not scheduled may be decoded to any end; after a      *)
(* clear, that end too must show it.                                       *)
DecodeAnywhere(m, end) ==
  /\ scan = NoScan /\ m \notin Polled
  /\ kin \in Occasions /\ end # ends[m]
  /\ era > 0 => end < ends[m] \/ ends[m] = 0
  /\ Decode(m, end)
  /\ UNCHANGED << kin, era, caller, toSend >>

(* remember: a frame is known if its like was reported nearby.             *)
Entry(tx, start) == [mode |-> tx.mode, text |-> tx.text, at |-> start]

Recent(start) == {e \in seen : e.at >= LargerOf(0, start - History)}

Known(tx, start) ==
  \E e \in Recent(start) :
    /\ e.mode = tx.mode /\ e.text = tx.text
    /\ AbsDiff(e.at, start) < SamplesPerPeriod[tx.mode] \div 2

(* A frame is decoded, in any pass of the window, at an estimated start.   *)
Decoded(i, late) ==
  LET start == sent[i].at + late
  IN  /\ scan # NoScan /\ Whole(scan.mode, scan.start, scan.size, sent[i])
      /\ seen' = Recent(start) \cup (IF Known(sent[i], start) THEN {} ELSE {Entry(sent[i], start)})
      /\ sent' = [sent EXCEPT ![i].decoded = TRUE,
                              ![i].reports = @ + IF Known(sent[i], start) THEN 0 ELSE 1]
      /\ UNCHANGED << kin, era, caller, ends, spectrum, scan, toSend >>

(* Spectra of audio from which a frame was subtracted, or of the other     *)
(* residual, are not kept.                                                 *)
Finish(altered) ==
  /\ scan # NoScan
  /\ scan' = NoScan
  /\ spectrum' = [spectrum EXCEPT ![scan.mode] =
       IF altered \/ @.start = None THEN NoSpectrum ELSE @]
  /\ UNCHANGED << kin, era, caller, ends, seen, sent, toSend >>

Next ==
  \/ \E n \in 1..MaxStep : Receive(n)
  \/ \E m \in Polled, text \in Text : Transmit(m, text)
  \/ Clear
  \/ \E m \in Submode : DecodeWindow(m)
  \/ \E m \in Submode : DecodeAnywhere(m, kin \div 2)
  \/ \E i \in DOMAIN sent, late \in 0..Jitter : Decoded(i, late)
  \/ \E altered \in BOOLEAN : Finish(altered)

Spec == Init /\ [][Next]_vars
-----------------------------------------------------------------------------
(***************************************************************************)
(* What the theorems ask of the constants.                                 *)
(***************************************************************************)
(* Polls are no further apart than the windows, and windows no further     *)
(* than the starts that are tried in one.                                  *)
StridesFit ==
  \A m \in Polled : MaxStep <= ScanStride(m) /\ ScanStride(m) <= Reach[m] + 1

(* A start is estimated to within half a period; and the history reaches   *)
(* back to the frames that a window still holds, from the latest start     *)
(* that can have been reported.                                            *)
HistoryReaches ==
  \A m, n \in Polled :
    /\ SamplesPerPeriod[m] + MaxStep + Jitter <= History + SamplesForSymbols[n]
    /\ Jitter < SamplesPerPeriod[m] \div 2 /\ Jitter <= History
-----------------------------------------------------------------------------
(***************************************************************************)
(* Properties.                                                             *)
(***************************************************************************)
(* Windows overlap so far that every frame, whenever it began, is whole    *)
(* and within the search's reach in one of them: once a caller that polls  *)
(* for every stride has heard a period from the frame's start on, the      *)
(* frame was looked for where it is.                                       *)
NoFrameFallsBetween ==
  ~ Busy => \A i \in DOMAIN sent :
              kin >= sent[i].at + SamplesPerPeriod[sent[i].mode] => sent[i].tried

(* A frame that is decoded, in however many windows and passes, is         *)
(* reported exactly once, and one that is sent again is reported again.    *)
ReportedOnce ==
  \A i \in DOMAIN sent : sent[i].reports = IF sent[i].decoded THEN 1 ELSE 0

(* The spectra a window is searched with are those of its own audio,       *)
(* however many of them were made for windows before it, unless that audio *)
(* was cleared or written over before the window was decoded.              *)
InRing(start, size) == start + size <= kin /\ kin - SampleSize <= start

SpectraAreOfTheWindow ==
  scan # NoScan /\ InRing(scan.start, scan.size) =>
    spectrum[scan.mode].columns
      = Columns(scan.mode, Audio(scan.mode, scan.start, scan.size))
=============================================================================
