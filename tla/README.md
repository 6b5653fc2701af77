# A verification project for js8rs

js8rs is a Rust library for the JS8 digital mode: it turns messages into frames
of tones, renders and gates their transmission by the wall clock, and on the
other side collects audio, decides which stretch of it to decode, searches and
decodes frames, and puts multi-frame messages together again. This directory
holds TLA+ models of that behaviour, model-checked with TLC on small instances,
and proofs of its main invariants, checked with TLAPS for every value of the
constants.

Paths below are relative to `src/src/` unless they say otherwise. The models
are of the default build, but for `StreamReceive`, which is of the build with
`experimental-time`.

## 1. The system

| Component | State | Operations | Talks to |
|---|---|---|---|
| Audio input, `detector.rs` | sample ring `d2`, count `kin`, staging block, last second, filter | `write_i16`, `clear`, `reset_buffer_position`, `reset_buffer_content`, `set_block_size`, readers | written by the audio thread, read by the decoding one, under a mutex; reads the wall clock |
| Decode scheduling, `rx/scheduling.rs` | one `DecodeCursor` for each submode | `next_window` | polled with two sample counts |
| Decoder front end, `rx/mod.rs` | the decoder core, in the experimental build also what was seen | `decode` | turns a window into the span of samples each submode searches |
| Decoder, `decoder.rs` | sample copy, soft combiners, alternative residual | `decode`, `js8dec`, `syncjs8` | reports events through a callback |
| Soft combiner, `internal/soft_combiner.rs` | buckets of summed likelihoods | `combine`, `mark_decoded`, `flush` | called for each candidate; reads the monotonic clock |
| Subtraction, `internal/sic.rs` | the alternative residual | `refine`, `subtract` | called for each decoded frame |
| Reassembly, `rx/reassembly.rs` | a buffer for each stream | `push_decoded`, `clear` | fed with the decoder's events by the caller |
| Framing, `varicode/mod.rs` | the line, while it is framed | `build_message_frames` | makes the frames the transmitter sends |
| Codecs, `varicode/mod.rs`, `varicode/jsc.rs`, `internal/decoded_text.rs` | none | `pack_*`, `unpack_*`, `jsc::compress_frame` | called by the framer and, in a receiver, for each decoded frame |
| Command parser, `command.rs` | none | `parse_command` | shows the operator what a line is taken for |
| Continuous receive, `rx/time.rs` | the ends of the last windows, the frames seen lately | `decode_stream`, `remember` | replaces the slot schedule in the `experimental-time` build; shares spectra with `decoder.rs` |
| Transmit timing, `timing.rs` | none | `compute_slot`, `params`, `next_viable_start_ms`, `should_start_tx_now` | asked by the caller before a start |
| Modulator, `modulator.rs` | operating state, counters of the waveform | `start`, `stop`, `tune`, `render_stereo` | rendered by the audio output |
| Encoder, tables | none | pure functions | |

What is hard here is time and order. Nothing is persisted, and no message
queue is shared; but two clocks (the wall clock and the count of samples) must
agree, buffers are reused while windows into them are still to be decoded, a
caller may poll late or reset things between a write and a poll, frames are
lost and decoded twice, streams of two stations meet in one frequency, and the
decoder's pass loop is steered by flags that no test drives through all their
combinations. On the other side a line of text is read by two grammars and cut into frames by
codecs in which one bit or letter off loses a word or says it twice. `PROJECT.json` lists these hazards one by one, each at its line.

What makes each component correct:

* scheduling: one window for each slot, whole and in place, whatever was polled;
* detector: audio in order, at its place in the period, and every period heard out;
* search span: the frame of a slot lies where the sync search looks;
* decoder: nothing that was put off or saved is left out, reports only improve;
* combiner: a sum is of one signal, without silences, never of a residual;
* reassembly: results are genuine, in order, complete, and no message is lost;
* transmission: each symbol sounds when the slot says, and a transmission ends;
* framing: what is heard is what was typed, from whom it came and for whom it was meant,
  and the parser and the framer read a line alike;
* continuous receive: no frame falls between two windows, each is reported once,
  and what is kept from one window to the next is true of the next.

## 2. The modules

```
MessageDelivery  <~~implements~~  BufferedDelivery  --extends-->  MessageBufferAssembler
                                        ^ BufferedDeliveryProofs
DecodeScheduler  <--extends--  SlotSearch
   ^                              ^ SlotSearchProofs   (of both)
   ~~implemented by~~ ReceivePipeline --extends--> Detector
                         ^ ReceivePipelineProofs --instance--> SlotSearchProofs
SoftCombiner     <--two instances--  DecodePass
   ^ SoftCombinerProofs <--two instances--  ^ DecodePassProofs
TxTiming  <--extends--  Modulator  <--extends--  Transmitter
                                        ^ TransmitterProofs
StreamReceive
   ^ StreamReceiveProofs
Text  <--  Callsign, Commands  <--  CommandParser  <--  FrameLayouts  <--  Framing
Text  <--  Jsc  <--  FrameLayouts
ArithmeticLemmas   (products, quotients and remainders, used by the proof modules that count)
MC*                (the instances TLC checks)
```

### Reassembly: MessageBufferAssembler, BufferedDelivery, MessageDelivery

`MessageBufferAssembler` is `rx/reassembly.rs`. `buffers` is the hash map (a
stream without an entry has `NoBuffer`), `event` the value the last call
returned. `PushDecoded` is `push_decoded` with all its branches:
`StartBuffer` and `CompleteDirected` are the two ends of `handle_directed`,
`AppendFragment` and `FinishBuffer` a data frame in an open buffer,
`IgnoreFrame` everything that returns `None`. `FinalizeBufferedPayload` is the
checksum check of `finalize_buffered_payload`. A text is a sequence of atoms,
the space among them since trimming matters; the two checksums of the code are
one injective function, which is what an ideal checksum is.

`BufferedDelivery` closes the system: `FramesOf` is what
`build_message_frames` makes of a message (compound header, directed frame,
data frames, `LAST` on the last), stations send them slot by slot, and the
decoder reports the frame on the air zero, one or two times, at a frequency that
varies within `Estimates`. A stream is a submode and a whole hertz, as in
`BufferKey`.

`MessageDelivery` is the abstract specification: a result bears the header of
a message that was really sent on that stream and, if its checksum is valid,
the payload of a message sent there no earlier. That payload and header may
come from two messages is not a slip: the checksum covers the payload
alone, so after losses the code cannot promise more. Results without a checksum may be
garbled by losses, and are only promised a genuine header.

### Scheduling and search: DecodeScheduler, SlotSearch

`DecodeScheduler` is `rx/scheduling.rs`: `cursor` holds the cursors, `window`
what the last poll returned, `kin` the count of that poll. `CursorAfter` and
`WindowAfter` are `next_decode_window` line by line (`MustRewind`, `CursorAt`,
`Ready`, `WindowOf`, `Advanced`). The four actions are the polls a caller can
make: the first, one with a grown count, one with a fallen count (a wrap or a
clear, which the second count need not show), and one after a leap, which it
does show. A cursor is asked for exactly what it was before, so any pair of
counts in those ranges is allowed.

`SlotSearch` adds `window_from_kin`, the span `DecodeConfig::legacy` derives
for a pass, and the starts `syncjs8` tries in it, and asks whether the frame of
a decoded slot is among them.

### Audio input: Detector, ReceivePipeline

`Detector` is `detector.rs`. A PCM frame is represented by the time it was
captured, a stored sample by the first of the `Ndown` frames it is made of;
so "the right audio at the right place" is a statement about numbers. All
operations are there, with staging, the wrap of the period, the acceptance limit and
the discarding of full blocks at the end of the buffer. The decimating filter
and the stereo formats are left out.

`ReceivePipeline` drives it as `tests/time.rs` does: write, poll the scheduler with
the counts before and after, decode. Time passes, the callback lags by up to
`MaxLag` frames, and another thread of the caller may clear, reset, blank or
resize the detector, or audio may be lost, between any two of these steps. Or, alone,
the wall clock is set (`SetClock`): when it is set back to an earlier second of the period, the detector takes it
for a new period and starts its count in the middle of one. Windows are then out of place
until the next period begins, and `WindowHoldsItsAudio` says that they are right from
then on.

Three of its variables serve only the properties and the bounds: `heard`, how many frames were written
or lost so far; `began`, the first frame since the count came to be in its period; and `lost`, how many
frames of that period missed the buffer, as they were dropped by the driver, thrown out with a staging
block, or heard in the period before it began. A trouble that would bring `lost` above
`MaxLost` is not taken.

The constants meet two assumptions, which TLC evaluates for the run and the proofs use.
`AudioKeepsUp` is about the caller: its callback comes so often that the count gains no more than `MaxStep` between two
polls, even with `MaxLost` frames lost. `MaxStep` is what `DecodeScheduler` allows, the time that is left in a slot
once it is ready. With the numbers of the crate this asks little. The shortest time is Ultra's,
48000 - 37536 = 10464 samples or 41856 frames at 48 kHz; with blocks of 1024 samples, the largest in the
repository, a callback may lag by 100 ms and 0.58 s of a period be lost. `SkewAssumption` says how far a
sample may be off its place: by what was lost before it, what a block at the end of the buffer leaves
out, or, when the clock was set, by less than a second. Under `AudioKeepsUp` with those
numbers, a second less a frame meets it.

### Decoder: SoftCombiner, DecodePass

`SoftCombiner` is `internal/soft_combiner.rs`; a likelihood vector is
represented by its signature (the set of its one bits) and by the reception it
was heard in, a sum by the set of these.

`DecodePass` is the control of `decode` and `js8dec` in `decoder.rs`: the passes
(`ipass`), the two bands of candidates (`todo`), `stalled`, `improved`,
`sic_alt`, the rescue budget, the map of decodes, and both combiners, instances
of `SoftCombiner`. `TryCandidate` is one call of `js8dec` past its sync gate;
`Outcomes` are the ways its attempts can go, with the rescues each uses up.
Which candidates a pass finds, which attempts succeed, what is decoded, how
well, and whether a subtraction saves the other residual is arbitrary: the
properties hold for whatever the signal processing does. One `js8dec` is one
step at one instant of the monotonic clock.

### Continuous receive: StreamReceive

`StreamReceive` is the receiver of the `experimental-time` build. `kin` is the
running count and `era` the number of clears, so that a sample of the ring
(`detector.rs`) is known by the pair of the two (`Sample`); a spectrum is known by the
first and the last sample it is made of (`Column`). `NextWindow` is
`next_decode_window` with `scan_stride`; `Decode` is the part of
`decode_stream` before the core is called, with the spectra that `syncjs8`
moves from the last window; `Decoded` is the reporter callback with `remember`;
`Finish` drops the spectra of audio that was altered. Stations send frames at any count. Which of the frames that lie whole in
the window are decoded, in which passes and how late their start is estimated,
is arbitrary.

The caller is the one of `tests/time.rs`: it polls after each write with the count of its own last
poll, decodes all windows it got before it writes again, and may decode a third submode to ends
of its own (`DecodeAnywhere`). What the code relies on and does not check is a
guard here: each call decodes one submode, and a clear is only made when the
windows after it will show it (`ClearShows`); section 5 says what happens
otherwise.

### Text: Text, Callsign, Commands, CommandParser, Jsc, FrameLayouts, Framing

`Framing` is `build_message_frames` as a process: `line` is the text without a
frame yet, and each turn of the code's loop is one step: `Heartbeat`,
`Compound`, `Directed` (with its compound pair and the checksum that goes into the line),
`Data`, or `Stop`. `Prepare` is what is done to the line before that loop. `FrameLayouts` has the
packers and readers of every layout, bit by bit, on the twelve 6-bit characters
of a frame; `Callsign` the calls, grids and numbers; `Jsc` the
dictionary code with its continued nibbles, the Huffman code it replaced, and
the padding of a data frame; `Commands` the table of `command.rs` and
`CommandParser` its `parse_command`.

A string is a TLA+ string, whose characters TLC can take apart. All text is in
upper case, as `BuildFramesOptions::new` makes it; `~` stands for the
backquote. Of the dictionary, a table of a quarter of a million words, the runs have some sixty with
their real indexes, among them words that begin alike and words that are not taken since a
longer one fits; the CRC of the crate is a stand-in that depends on every
character. These modules use recursive operators, so that they are checked by TLC and
not proved about.

### Transmission: TxTiming, Modulator, Transmitter

`TxTiming` is `timing.rs` in exact arithmetic: the fractions of a slot the code
compares as floats are compared over a common denominator. `Modulator` is
`modulator.rs`: the silence or lateness a start computes, the slicing of
`render_stereo`, which symbol sounds at which audio frame, `stop` and `tune`.
Amplitude, phase and channel masks are left out. Rendering while no frame is
open is a caller's error (the code asserts it), so `Render` is guarded by
`open`. `Transmitter` is a caller as in `examples/e2e_tx.rs`: it waits for the
gate, starts, and the output plays slices of any size in real time. It may also start
without asking, stop, and tune. The example renders a whole frame before it
plays it; rendering in real time is the more demanding use of the same calls.

## 3. The runs

| Run | Instance | What it shows |
|---|---|---|
| `delivery_lossy` | two channels, one of which drifts over two streams and shares the second with the other; 2 + 1 messages, frames missed or decoded twice, clears | every result is genuine (`Delivery`: the refinement of `MessageDelivery`); a channel's own stream reports its buffered results in order and never twice (`DeliveredInOrder`) |
| `delivery_exact` | two channels interleaved, two messages each of six kinds, no loss | every command is reported exactly once and unaltered (`ExactDelivery`), and in the end (`EveryMessageReported`) |
| `empty_compound` | one channel, empty messages | **violated**: an empty buffered command with a compound call is never reported |
| `scheduler_polls` | Normal, Fast, Turbo and Ultra in their real proportions, in half seconds; all pairs of counts | cursors stand right after every poll, a window is its slot, one for each slot, and the slot's frame is where the search looks |
| `search_slow` | with the Slow submode | **violated**: in the second slot of the minute it is not |
| `receive` | a period of six seconds, 4 PCM frames each; two wraps with one disturbance or a set clock, or one wrap with two disturbances | the pipeline implements `DecodeScheduler`; undisturbed windows hold their audio within the callback's lag, disturbed ones within `MaxSkew`; the audio of a period stays in order; unless the clock was set, no period wraps before its last slots were decoded |
| `transmit` | two submodes with slots of 12 and 6 ms, 3 symbols, slices of up to 5 frames, 2 ungated starts | symbols sound on time however a frame is started, sliced, stopped or retuned; the gate loses little; every transmission ends |
| `combine` | four signatures, of which three are near one another in a row, five instants | entries of a bin stay apart, no sum bridges a silence |
| `pass` | two frames, two reports, up to two candidates in each band, two instants | the rescue budget holds, nothing put off or saved is left out, reports improve, a call returns |
| `framing` | 892 lines | what is framed reads back: text to the letter, headers, sender, checksum; the two grammars agree; framing ends |
| `framing_unsupported` | lines with a tab | **violated**: words behind such a character are sent, and the line goes on inside a word |
| `stream` | two polled submodes and a third, ring of 13 samples, 2 frames, 1 clear | every frame is in a searched window, is reported once, and spectra are of the window |

**Bounds.** Messages for each channel, decodes for each frame, candidates in
a band, disturbances, ungated starts and the horizons of the clocks are
bounds on the environment, named as constants. They are chosen so that each hazard
occurs: a message after a lost one on the same stream and a header heard twice;
two whole wraps of the period, so that a window can meet audio of the period
before; a start at every millisecond of a slot with slices that end inside a
symbol, a silence and the end; a residual saved in either of the first two
passes, with the following passes finding or not finding candidates; an entry
that grows old and one that is refreshed; every command with every sort of argument,
recipients and senders of every sort (base, with a suffix, with a prefix, groups), relays, general calls,
each option of the framer, and texts whose words, spaces and padding end at a frame's last
bits; a ring that goes round while a window waits, a submode whose search
reaches less far than its frames leave room (as Slow's), a frame sent again, and a clear with frames
still remembered. The wall clock of the
transmitter is cyclic, so its time is not bounded at all. Where the proofs below
reach, the bounds do not matter.

**Deadlock** is checked in the scheduler, search, combiner, decoder, framing and
transmitter runs. It is off in the delivery, receive and stream runs, which stop when
their messages or their time run out.

**Fairness.** `delivery_exact` assumes that a station sends the frames it has
queued and that the decoder reports each frame that is on the air: weak fairness
of those steps, as this run is about a receiver that decodes everything.
`transmit` assumes that the audio output goes on asking for frames while a frame
is open, as an audio callback does: weak fairness of `Play` alone. `pass`
assumes that a call of the decoder, which runs on its caller's thread, goes on:
weak fairness of its own steps. Nothing is assumed of the environment in the
other runs.

## 4. The proofs

All are of the modules that TLC checks, for every value of the constants that meets
the named assumptions.

* `SlotSearchProofs`, first of `DecodeScheduler`: `CursorsStandRight`, `WindowsHoldSlots`,
  `EachSlotOnce`. The inductive invariant is that after every poll the cursor waits
  for the slot of the count, or for the next one once that slot was ready.
  That needs the case analysis on `MustRewind`: a cursor that is not rewound is
  one that stood right before a step of at most `MaxStep`. The assumptions are that a slot is ready
  before it ends, that the buffer holds whole slots, and that a caller polls at
  least once in the time that is left in a slot after it is ready.
  The arithmetic of slots (a start is the only multiple in its
  range) is in `ArithmeticLemmas`.
* `SlotSearchProofs`, then of `SlotSearch`: `EveryFrameSearched`. If the search reaches as far as
  `SearchReaches` says (one inequality for each submode, from the lengths of a slot and a
  frame), every decoded window has its frame where the search looks, for any polls of `Spec`. The inequality holds
  for four submodes and fails for Slow, which is what `search_slow` shows.
  `CallerPollsAsExpected`: the caller that polls with the counts before and
  after each write (`SearchSpec`) is one of those of `Spec`.
* `ReceivePipelineProofs`, for any block sizes, period and lag, any number of disturbances and an unbounded
  horizon, under `AudioKeepsUp`, `SkewAssumption` and the assumption of `DecodeScheduler`.
  * `TypesHold`: the count stays in the buffer and the staging block below a full block, by which `write_i16`
    indexes both. `WriteEffect`, the lemma about one call of `write_i16`, is what the other proofs start from: how
    many samples it stores, which frames they are made of, and which stay staged.
  * `PeriodStaysInOrder` (`HeardInOrder`). The invariant (`OrderInv`) takes the buffer for a ring: of
    two cells of the period, the one written more recently, counted back from the count round the
    buffer's end (`AgeAt`), was heard later, and what is staged was heard after all cells. A rotation moves the
    count with the cells and leaves all ages alone (`RotationKeepsAge`), which is the point of
    `reset_buffer_position`.
  * `SchedulerIsPolledRight` (`PolledAsExpected`), the refinement: every poll is one of the polls of
    `DecodeScheduler`. `TrackInv` ties the count to the clock. As long as the clock was not set there is a time
    `w`, that of the last write or alignment, whose period the count is in: the frames heard since the
    start of that period are in the buffer, staged, or counted in `lost` (`CountTracked`). The same holds of the count the
    scheduler saw last, until that is within `MaxStep` of the end (`SeenTracked`); so a write takes the count no
    further than `MaxStep` beyond it (`ForwardSeen`). While nothing else interferes (`Untouched`), also
    when the clock was set, the scheduler has seen the very count of the write before (`SeenInv`).
  * `NoPeriodCutShort` (`PeriodHeardOut`) follows: a period wraps only once a period of audio was heard, but
    for what lags, is staged or was lost (`WrapSeen`).
  * `WindowsHoldTheirAudio` (`WindowHoldsItsAudio`). Undisturbed, the samples below the count are one run
    of frames that begins where the period does, to within the lag of the callback, or, after the clock
    was set, within the first second (`RunInv`). Disturbed, each sample of the period is as far from `heard` as the samples and
    staged frames after it say, but for `lost`; and where the end of the buffer left blocks out, it is at least where it
    should be (`CellsTracked`). That a window begins in the buffer comes from the theorems of `SlotSearchProofs`,
    instantiated for the scheduler that is polled here (`WindowsFound`).
  * `EachSlotIsDecodedOnce` puts the two together: because the refinement holds, `WindowHoldsSlot` and
    `OneWindowPerSlot` of the scheduler hold of the receiver.
* `StreamReceiveProofs`, for any submodes, strides, traffic and clears, under `StridesFit`: polls come no
  further apart than the strides, and a stride is no longer than the starts that are tried in a window.
  * `WindowsCoverEverything` is `NoFrameFallsBetween`. The
    invariant adds that each cursor waits for the window after the last
    complete one (`CursorsFollow`) and that, as soon as the window that covers a frame is complete,
    it was searched or is about to be (`FramesCovered`): a frame could only be missed between
    two windows, or at a poll that passes two at once, and `StridesFit` excludes both.
  * `MovedSpectraAreTheWindows` is `SpectraAreOfTheWindow`. `SpectraKept` says of the spectra that the decoder
    keeps for a submode that each is of the current audio at its place in the last window (`Clean`), or that none
    of them will be used (`NotUsed`): after a clear the next window is the first one, which reuses none.
    `WindowsWait` says that a window that waits is the last one that became complete, so that it is still in the ring.
  * `EveryFrameIsReportedOnce` is `ReportedOnce`, and asks `HistoryReaches` as well. The invariant
    (`HistoryInv`) keeps the entries of `seen` that a live frame's reports could still fall on, the distance of two sendings of a text,
    and that what was decoded is remembered for as long as a window can hold it. At 12 kHz the history is
    360000 samples, the longest period (Slow) as long, and the symbols of the shortest frame
    (Ultra) are 79 x 384 = 30336; so the hypothesis asks that a step of the caller and the error of an estimate
    stay together below 30336 samples, two and a half seconds. With a caller that lags
    more, a frame decoded again in the last of its windows could be reported twice.
* `TransmitterProofs`, for any submodes, clock, start and slicing of the output.
  * `FramesKeepTheirPlace` (`KeepsItsPlace`) and
    `SoundStaysInTheWindow` (`SoundsInPayloadWindow`, where the start delays are positive, as
    in `submode.rs`). The invariant follows the slot a waveform was started for: time plus
    remaining silence, less the waveform's position and the start delay, falls into the first millisecond
    of a slot (`PlaceInv`), and so does every frame of the waveform that sounds
    (`SoundInv`). It is kept by a start in each of its three cases, by a slice of
    any size and when the clock goes round, which needs that the clock is a whole number of slots.
  * `SymbolsKeepTheirPlace` (`SymbolsOnTime`) adds `WaveInv`: which symbol a
    waveform's position stands for, and that what sounded was that symbol.
  * `LatestStartIsTheGate` (`LatestStartAgreesWithGate`) and `NextStartIsAccepted`
    (`NextViableStartIsViable`) compare the published times of `timing.rs` with the gate's own fractions,
    which are multiplied out and rounded. The second asks
    `SlotStartsAreOpen`: the configured delay is less than the slot has to spare, in proportion, or at least a
    slot. With a delay between the two, `next_viable_start_ms` gives the end of the slot at a time when the
    gate does not open there. The default of `examples/e2e_tx.rs`, 0.2 s, fits all five
    submodes, of which Ultra has the least to spare (1.472 s); a delay of 2 s would not fit Ultra.
  * `LateFramesFit` (`GatedFramesLoseLittle`) asks `ThresholdsShrink`: that no multiplier makes the late threshold
    longer, as those of `submode.rs:199` do not.
* `BufferedDeliveryProofs`, for any number of channels, any traffic and any lengths.
  * `TypeCorrect` needs what the trimming, the concatenation of fragments and the checksum return.
  * `ResultsInOrder` (`DeliveredInOrder`) is not inductive by itself: the strengthening `StreamInv` says
    that no buffer and no result of a channel's own stream bears a slot the channel has not
    reached, and that a buffer that is still open is newer than all results from
    buffers.
  * `ResultsAreAssembled`: whatever is lost, repeated or filed under a neighbouring stream, each result bears a header that was
    sent on its stream, and a text whose checksum is confirmed was put together from fragments of messages
    sent there no earlier. It says nothing of the checksum's strength. The invariant `GenuineInv`
    ties the frame on the air to its place in the last message sent (`OnAirInv`), and each open
    buffer to the header that opened it (`BufferInv`).
  * `ResultsAreGenuine` is the refinement of `MessageDelivery` (`Delivery`), step by step: a channel's begin
    is a send, a report is a delivery or a stutter. It takes `IdealChecksum`, the one thing a 16-bit checksum can only
    make likely: that no mixture of fragments passes the check with a payload nobody sent.
    `MarkedChecksumIsIdeal` shows that the hypothesis can be met: it is enough that a checksum's last
    character tells the text and occurs in no payload, as in the runs.
  * `CommandsComeAsSent` is `ExactDelivery`: with a receiver that hears every frame once and each channel at
    a whole hertz of its own (`HearsAllOnce`), each stream has reported exactly the commands
    received on its channel, in their order, unaltered. `ExactInv` says what buffer is open after each frame
    heard (`BufferAfter`); its step rests on `FragmentsAddUp` (the data frames put together are the
    text that was cut) and `FinalizeWhole` (checking and cutting off the checksum gives back the payload).
    `Deliverable` excludes what the code does lose: a payload of a command that is not buffered, one that begins or ends in
    spaces where the receiver trims, and the empty command of `empty_compound`. `MCBufferedDelivery` lets TLC confirm that the
    run's constants meet both.
* `SoftCombinerProofs`: `NoSignalIsSplit` (`EntriesFarApart`) and `NoSumBridgesASilence` (`SumsHaveNoGaps`), for
  any bins, signatures and times. Both follow from one invariant of the buckets (`Sound`), as an entry that is too old to
  be summed is flushed before a candidate is compared with it; what `retain` keeps of a bucket is shown to be a selection of it in its
  order (`Selects`), and a new entry is only made where no other is near.
* `DecodePassProofs`: `TypeCorrect` (the passes end at the last and the
  rescue budget, a `u8`, is never overdrawn), `NothingIsLeftOut` and `DeepBandIsTried`
  (`SavedResidualIsSearched` and `DeepBandIsNotForgotten`, both from the strengthening
  `SearchInv`: where the residual and the deep candidates are between passes),
  `OnlyBetterReports`, `CountsFramesOnce`, `ResidualIsNeverSummed` (`OnlyReceivedAudioIsSummed`), and
  `CombinersKeepTheirPromises`: the two properties of `SoftCombiner` hold of both combiners of the decoder,
  by the same lemmas instantiated twice (`CombinersInv`).

**Only model-checked**, and why:

* liveness (`EveryMessageReported`, `EndsIdle`, `CallsReturn`, the end of framing), which needs fairness and `ENABLED`;
* all properties of the text modules, which are recursive.

## 5. What was found

* `rx/reassembly.rs:153`: a buffered command with a placeholder call opens a buffer even with its
  last frame; the empty command is never reported and the buffer takes in the
  next text heard at that frequency (`empty_compound`). `delivery_exact` therefore leaves
  that message out of its traffic.
* `rx/scheduling.rs:108`: with a prompt caller the Slow frame in the second slot of the minute
  starts 4.22 s into the searched span; the search ends at 3.04 s (`search_slow`).
* `varicode/jsc.rs:50`: a character that is in no word of the dictionary ends only the word it is in; the
  next words are packed without being counted, so that the line is cut too early and goes
  on in the middle of a word. A test expects that framing stops there (`framing_unsupported`).
* Divergences of no consequence inside the library, noted while modelling and
  not given a run: `blocks_written` of `WriteStats` counts blocks that were
  discarded at the end of the buffer too (`detector.rs:295`), and
  `latest_start_ms_exclusive` is rounded down, so that the gate still allows a start at that very
  millisecond (`timing.rs:139`; `LatestStartAgreesWithGate` states what holds).

And from the proofs about the receive pipeline:

* `reset_buffer_position` turns the buffer as a ring, and older audio with it (`detector.rs:337`). After a
  change of the block size two earlier periods ended at different counts, so that cells near the end of the
  buffer keep audio of the older one behind that of the newer, and a rotation forward brings both below the
  count, the older after the newer. `HeardInOrder`, when it spoke of all samples below
  the count, held on the run's instance and failed on one with a longer lag; the step
  that would not go through in its proof pointed there. It speaks of the samples of the count's own
  period now, which is what the code can promise: the others stand where a clear would leave silence.
* Each change of the block size loses what is staged, so that many of them in a row keep the count back until
  a clear or a reset moves it on to the clock's. With five of them and no bound on `lost` TLC finds a poll whose count is more
  than `MaxStep` beyond the last one the scheduler saw, and whose two counts do not show it
  (`rx/scheduling.rs:90`). So `MaxLost` is a condition of the theorems and no bound of the run alone.

The run `framing` passes on the lines it has. Lines it leaves out, each of which
a wider instance showed to break one of its properties:

* `HEARTBEAT SNR5`, without a space, is a heartbeat to the parser and text to the framer;
* a reply of `SNR` without a number inside a compound frame reads as -31 dB, and a report below -30 is
  sent as -30; `SNR -32` sends -3 and leaves `2` as text;
* calls that begin with `3D0`, with `Q` and a letter, or with `@@` do not read back;
* a typed compound frame of a long text is cut at 11 characters, and a typed `MSG` with text carries
  no checksum;
* a call in lower case leaves out the frame that names the sender;
* a six-character locator that ends in `SK`, `RR`, `NO` or `FB` is read as a command in the frame that
  should name the sender (`varicode/mod.rs:1629`);
* the selected call is put before a line addressed to a call of at most three characters;
* a general call or a heartbeat to one station has no code on the air and is sent as text
  (`ParserAgrees` allows for it).

And what `StreamReceive` takes for granted of its caller, with what happens without it:

* a caller that reads the count anew after a clear, instead of passing its own
  last one, never shows the scheduler a falling count; the cursor then waits until the new count
  has passed the old one (`rx/scheduling.rs:57`);
* after a clear whose first new window does not end before the decoder's last one, a new
  frame that is like an old one is taken for it, and old spectra are moved into
  the new window (`rx/time.rs:37`);
* with submodes of different ends in one call, one that runs behind is taken
  for a clear, and its frames are reported again.

## 6. Limits of the models

* At most one transmission at a time is in progress on a channel. Two on the same
  hertz are two channels that share a stream, as in `delivery_lossy`.
* Duplicates of commands that are not buffered are passed on as often as they
  are decoded; the code does not promise otherwise.
* The slot number stands for the time stamp `utc`.
* The wall clock is set at most once, and then nothing else disturbs the detector; audio comes
  at least once in a period, so that no wrap is missed for want of a write. The transmitter's
  clock only advances.
* The block size of the detector is positive, as everywhere in the repository.
* A candidate that stays undecoded is found again in the next pass of the same
  call and summed with its own samples. The model shows this (a part is a time
  *and a pass*) and no property forbids it, as the code does not promise otherwise.
* `mark_decoded` forgets the entries made with the decoded candidate's own
  signature; a sum that was found through a near signature stays until it is old.
* The time between the two flushes of one `js8dec` is not modelled.

* `StreamReceive` leaves out the staging block and the filter, `reset_buffer_position` without a wipe, and
  the renewal of the spectra's sum after some updates, which is about rounding.
* In the text modules: lower case and letters outside ASCII, the 32-bit checksum that no command uses, and the rest of
  the dictionary.

Not modelled:

* the signal processing (`internal/aided.rs`, `coherent.rs`, `kalman.rs`,
  `whitening_processor.rs`, the estimation in `sic.rs`, the sync metric): floating-point and
  out of reach of TLC;
* belief propagation and the CRC, for the same reason; the small result cache of
  `decoder.rs:104-152` is planned below;
* the encoder (`encoder.rs`): a fixed matrix and tone layout without state;
* constant tables, re-exports, benches, examples and scripts, which keep no state.

## 7. Plan

Done: reassembly with its abstract specification; scheduling and the search
span; detector and pipeline; transmission; combiner; decode passes;
continuous receive; framing, codecs and the command parser; the proofs above.

Next, in this order:

1. `BpTry`: the two-entry result cache as a refinement of an attempt without a cache (it
   leaves `dec` alone when the cached attempt failed); provable.
2. The dispatch of `DecoderCore` over submodes (`decoder.rs:1839-1907`): what is created when,
   what is emitted and in which order.
3. Proofs about the packers of `FrameLayouts`, with their loops written as functions over positions.
4. The encoder's tone layout against a reference definition.
