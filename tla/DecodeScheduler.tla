-------------------------- MODULE DecodeScheduler --------------------------
(***************************************************************************)
(* The decode scheduler (rx/scheduling.rs): one cursor per submode turns   *)
(* the receiver's sample count into the windows to decode, one window per  *)
(* UTC slot.  A caller polls with the count k it sees now and an earlier   *)
(* count k0; it may poll late, clear the receiver between two polls, and   *)
(* meet the wrap of the period.  Sample counts are in units the instance   *)
(* chooses; "none" of an Option<usize> is -1.                              *)
(***************************************************************************)
EXTENDS Integers

CONSTANTS Submode,           \* the submodes the caller decodes
          SampleSize,        \* JS8_RX_SAMPLE_SIZE: samples in one receive buffer
          SamplesPerPeriod,  \* samples in a slot of each submode
          SamplesNeeded,     \* samples of a slot that make it ready
          MaxStep            \* most samples the count gains between two polls

(* A buffer holds whole slots; a slot is ready before it ends, and a caller *)
(* polls at least once in the time left then.                               *)
ASSUME SchedulerAssumption ==
  /\ SampleSize \in Nat
  /\ MaxStep \in Nat
  /\ SamplesPerPeriod \in [Submode -> Nat]
  /\ SamplesNeeded \in [Submode -> Nat]
  /\ \A m \in Submode :
       /\ SamplesNeeded[m] \in 1..(SamplesPerPeriod[m] - 1)
       /\ MaxStep <= SamplesPerPeriod[m] - SamplesNeeded[m]
       /\ SampleSize % SamplesPerPeriod[m] = 0

VARIABLES cursor,  \* DecodeScheduler: the cursor of each submode
          window,  \* what the last poll returned for each submode
          kin      \* the sample count of the last poll
vars == <<cursor, window, kin>>

None == -1
Unpolled == -1
NoWindow == [cycle |-> None, start |-> None, size |-> None]
NewCursor == [currentStart |-> None, nextStart |-> None]
Count == 0..(SampleSize - 1)

CycleOfCount(m, k) ==
  (k \div SamplesPerPeriod[m]) % (SampleSize \div SamplesPerPeriod[m])

CycleStart(m, k) == CycleOfCount(m, k) * SamplesPerPeriod[m]

OrZero(start) == IF start = None THEN 0 ELSE start
SaturatingSub(a, b) == IF a < b THEN 0 ELSE a - b
Larger(a, b) == IF a < b THEN b ELSE a
AbsDiff(a, b) == IF a < b THEN b - a ELSE a - b

(* The count is well before the slot the cursor waits for, and before the  *)
(* slot ahead of it can have been decoded.                                 *)
DeadAir(m, k, c) ==
  /\ k < OrZero(c.currentStart)
  /\ k < SaturatingSub(OrZero(c.currentStart), SamplesPerPeriod[m]) + SamplesNeeded[m]

(* Mutant: the count running backwards without a hint in k0 is not noticed. *)
MustRewindIfToldSo(m, k, k0, c) ==
  \/ k < k0
  \/ AbsDiff(k, k0) > SamplesPerPeriod[m]
  \/ c.currentStart = None
  \/ c.nextStart = None

MustRewind(m, k, k0, c) ==
  \/ DeadAir(m, k, c)
  \/ k < k0
  \/ AbsDiff(k, k0) > SamplesPerPeriod[m]
  \/ c.currentStart = None
  \/ c.nextStart = None

CursorAt(m, start) ==
  [currentStart |-> start, nextStart |-> start + SamplesPerPeriod[m]]

Rewound(m, k, k0, c) ==
  IF MustRewind(m, k, k0, c) THEN CursorAt(m, CycleStart(m, k)) ELSE c

(* Mutant: a slot counts as ready only once more than the samples needed   *)
(* have arrived.                                                           *)
ReadyLate(m, k, c) == c.currentStart + SamplesNeeded[m] + 1 <= k

Ready(m, k, c) == c.currentStart + SamplesNeeded[m] <= k

WindowOf(m, k, c) ==
  [cycle |-> CycleOfCount(m, k), start |-> c.currentStart,
   size |-> Larger(SamplesNeeded[m], k - c.currentStart)]

(* Mutant: the cursor stays on the slot it has just returned.              *)
AdvancedNowhere(m, c) == c

Advanced(m, c) == CursorAt(m, c.nextStart)

(* next_decode_window: the cursor after a poll, and the window it returns. *)
CursorAfter(m, k, k0, c) ==
  LET r == Rewound(m, k, k0, c)
  IN  IF Ready(m, k, r) THEN Advanced(m, r) ELSE r

WindowAfter(m, k, k0, c) ==
  LET r == Rewound(m, k, k0, c)
  IN  IF Ready(m, k, r) THEN WindowOf(m, k, r) ELSE NoWindow

NextWindow(k, k0) ==
  /\ cursor' = [m \in Submode |-> CursorAfter(m, k, k0, cursor[m])]
  /\ window' = [m \in Submode |-> WindowAfter(m, k, k0, cursor[m])]

-----------------------------------------------------------------------------
Init == /\ cursor = [m \in Submode |-> NewCursor]
        /\ window = [m \in Submode |-> NoWindow]
        /\ kin = Unpolled

FirstPoll(k, k0) == /\ kin = Unpolled
                    /\ kin' = k
                    /\ NextWindow(k, k0)

(* The count has grown; the caller's k0 is a count it saw on the way.      *)
PollForward(k, k0) == /\ kin # Unpolled
                      /\ k \in kin..(kin + MaxStep)
                      /\ k0 \in (k - MaxStep)..k
                      /\ kin' = k
                      /\ NextWindow(k, k0)

(* The count has fallen: the period wrapped, which k0 may show, or the     *)
(* receiver was cleared before the caller read its k0.                     *)
PollBackward(k, k0) == /\ kin # Unpolled
                       /\ k < kin
                       /\ kin' = k
                       /\ NextWindow(k, k0)

(* The count has leapt over more than a slot of every submode, and k0 shows *)
(* it: audio was lost, or the receiver was cleared after the caller's k0.  *)
PollLeap(k, k0) == /\ kin # Unpolled
                   /\ k > kin + MaxStep
                   /\ \A m \in Submode : k - k0 > SamplesPerPeriod[m]
                   /\ kin' = k
                   /\ NextWindow(k, k0)

Next == \E k, k0 \in Count :
          \/ FirstPoll(k, k0)
          \/ PollForward(k, k0)
          \/ PollBackward(k, k0)
          \/ PollLeap(k, k0)

Spec == Init /\ [][Next]_vars

-----------------------------------------------------------------------------
Start == 0..SampleSize
Cursor == [currentStart : Start \cup {None}, nextStart : Nat \cup {None}]
Window == [cycle : Nat, start : Start, size : Nat] \cup {NoWindow}

(* The cursors, the windows and the count keep their types.                *)
TypeOK == /\ cursor \in [Submode -> Cursor]
          /\ window \in [Submode -> Window]
          /\ kin \in Count \cup {Unpolled}

SlotStart(m, k) == (k \div SamplesPerPeriod[m]) * SamplesPerPeriod[m]
ReadyPoint(m, k) == SlotStart(m, k) + SamplesNeeded[m]

(* After every poll the cursor waits for the slot of the count, or for the *)
(* one after it once that slot was ready: whatever k0 the caller gave.     *)
WaitsFor(m) ==
  IF kin < ReadyPoint(m, kin) THEN SlotStart(m, kin)
                              ELSE SlotStart(m, kin) + SamplesPerPeriod[m]

CursorInv == kin # Unpolled =>
               \A m \in Submode : cursor[m] = CursorAt(m, WaitsFor(m))

(* A window is the slot the count is in, from its first sample on: its     *)
(* number fits its start, it has the samples the decoder needs, and it     *)
(* fits the one slot before the count that the decoder looks at.           *)
WindowHoldsSlot ==
  \A m \in Submode :
    LET w == window[m]
    IN  w # NoWindow => /\ w.start = SlotStart(m, kin)
                        /\ w.start = w.cycle * SamplesPerPeriod[m]
                        /\ w.start + w.size = kin
                        /\ w.size \in SamplesNeeded[m]..SamplesPerPeriod[m]

(* As the count grows step by step, a submode gets a window exactly in the poll that    *)
(* passes the ready point of a slot: no slot is left out, none comes twice. *)
PassedReadyPoint(m) == kin < ReadyPoint(m, kin') /\ ReadyPoint(m, kin') <= kin'

OneWindowPerSlot ==
  [][(kin # Unpolled /\ kin' \in kin..(kin + MaxStep))
       => \A m \in Submode : (window'[m] # NoWindow) <=> PassedReadyPoint(m)]_vars
=============================================================================
