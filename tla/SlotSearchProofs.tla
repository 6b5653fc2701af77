-------------------------- MODULE SlotSearchProofs --------------------------
(***************************************************************************)
(* Proofs about DecodeScheduler and SlotSearch, for any set of submodes,   *)
(* any slot lengths that divide the buffer and any polling at most MaxStep *)
(* apart: where the cursors stand after every poll, and with it what the   *)
(* windows hold and that each slot gets one; and, if the sync search       *)
(* reaches as far as the samples a slot has left when it is ready, that no *)
(* window is decoded whose frame the search does not try.                  *)
(***************************************************************************)
EXTENDS SlotSearch, ArithmeticLemmas

-----------------------------------------------------------------------------
(* Slots.                                                                  *)

(* A count lies in its slot, which lies in the buffer.                     *)
LEMMA SlotBounds ==
  ASSUME NEW m \in Submode, NEW k \in Count
  PROVE  /\ SamplesPerPeriod[m] \in Nat \ {0}
         /\ SamplesNeeded[m] \in 1..(SamplesPerPeriod[m] - 1)
         /\ SlotStart(m, k) \in Nat
         /\ SlotStart(m, k) <= k
         /\ k < SlotStart(m, k) + SamplesPerPeriod[m]
         /\ SlotStart(m, k) + SamplesPerPeriod[m] <= SampleSize
         /\ CycleOfCount(m, k) = k \div SamplesPerPeriod[m]
         /\ k \div SamplesPerPeriod[m] \in Nat
         /\ CycleStart(m, k) = SlotStart(m, k)
<1> DEFINE P == SamplesPerPeriod[m]
           q == k \div P
           n == SampleSize \div P
<1>1. /\ P \in Nat \ {0}
      /\ SamplesNeeded[m] \in 1..(P - 1)
      /\ SampleSize \in Nat
      /\ SampleSize % P = 0
  BY SchedulerAssumption
<1>2. k \in Nat /\ k < SampleSize
  BY <1>1 DEF Count
<1>3. q \in Nat /\ k % P \in 0..(P - 1) /\ k = q * P + (k % P)
  BY <1>1, <1>2, DivMod
<1>4. n \in Nat /\ SampleSize = n * P + (SampleSize % P)
  BY <1>1, DivMod
<1>5. q * P \in Nat /\ n * P \in Nat /\ SampleSize = n * P
  <2>1. q * P \in Nat /\ n * P \in Nat
    BY <1>1, <1>3, <1>4, MultiplesApart
  <2>2. SampleSize = n * P + 0
    BY <1>1, <1>4
  <2> HIDE DEF P, q, n
  <2> QED BY <2>1, <2>2
<1>6. q # n /\ q * P + P <= n * P
  <2>1. q = n \/ q * P + P <= n * P \/ n * P + P <= q * P
    BY <1>1, <1>3, <1>4, MultiplesApart
  <2>2. q # n
    BY <1>2, <1>3, <1>5
  <2> HIDE DEF P, q, n
  <2> QED BY <2>1, <2>2, <1>1, <1>2, <1>3, <1>5
<1>7. q < n
  <2>1. n <= q => n * P <= q * P
    BY <1>1, <1>3, <1>4, SMTT(30)
  <2> HIDE DEF P, q, n
  <2> QED BY <2>1, <1>1, <1>3, <1>4, <1>5, <1>6
<1>8. q % n = q
  <2> HIDE DEF P, q, n
  <2> QED BY <1>3, <1>4, <1>7, SMTT(30)
<1>9. CycleOfCount(m, k) = q
  BY <1>8 DEF CycleOfCount
<1>10. SlotStart(m, k) = q * P /\ CycleStart(m, k) = q * P
  BY <1>9 DEF SlotStart, CycleStart
<1> HIDE DEF P, q, n
<1>11. SlotStart(m, k) <= k /\ k < SlotStart(m, k) + P /\ SlotStart(m, k) + P <= SampleSize
  BY <1>1, <1>2, <1>3, <1>5, <1>6, <1>10
<1> QED BY <1>1, <1>3, <1>5, <1>9, <1>10, <1>11 DEF P, q

(* Two counts lie in one slot, in adjoining slots, or a slot apart.        *)
LEMMA SlotsApart ==
  ASSUME NEW m \in Submode, NEW j \in Count, NEW k \in Count, j <= k
  PROVE  \/ SlotStart(m, k) = SlotStart(m, j)
         \/ SlotStart(m, k) = SlotStart(m, j) + SamplesPerPeriod[m]
         \/ SlotStart(m, k) >= SlotStart(m, j) + SamplesPerPeriod[m] + SamplesPerPeriod[m]
<1> DEFINE P == SamplesPerPeriod[m]
           a == j \div P
           b == k \div P
<1>1. P \in Nat \ {0} /\ a \in Nat /\ b \in Nat
  BY SlotBounds
<1>2. /\ SlotStart(m, j) = a * P
      /\ SlotStart(m, k) = b * P
  BY DEF SlotStart
<1>3. /\ a * P \in Nat
      /\ b * P \in Nat
      /\ (a + 1) * P = a * P + P
      /\ (b + 1) * P = b * P + P
      /\ a = b \/ a = b + 1 \/ b = a + 1
           \/ a * P + P + P <= b * P \/ b * P + P + P <= a * P
  BY <1>1, MultiplesApart
<1>4. j \in Nat /\ k \in Nat
  BY SchedulerAssumption DEF Count
<1>5. a * P <= j /\ k < b * P + P
  BY <1>2, SlotBounds
<1> HIDE DEF P, a, b
<1>6. a # b + 1 /\ ~(b * P + P + P <= a * P)
  BY <1>1, <1>3, <1>4, <1>5
<1>7. b * P = a * P \/ b * P = a * P + P \/ b * P >= a * P + P + P
  BY <1>1, <1>3, <1>6
<1> QED BY <1>2, <1>7 DEF P

-----------------------------------------------------------------------------
(* One poll of one submode.                                                *)

(* The rewound cursor stands at the slot of the count, or at the next one  *)
(* when the slot of the count is ready.                                    *)
StandsRight(m, k, r) ==
  \/ r = CursorAt(m, SlotStart(m, k))
  \/ /\ r = CursorAt(m, SlotStart(m, k) + SamplesPerPeriod[m])
     /\ ReadyPoint(m, k) <= k

(* What a poll then leaves in the cursor, and when it returns a window.    *)
LEMMA PollOutcome ==
  ASSUME NEW m \in Submode, NEW k \in Count, NEW k0, NEW c,
         NEW r, r = Rewound(m, k, k0, c), StandsRight(m, k, r)
  PROVE  /\ CursorAfter(m, k, k0, c)
              = CursorAt(m, IF k < ReadyPoint(m, k) THEN SlotStart(m, k)
                            ELSE SlotStart(m, k) + SamplesPerPeriod[m])
         /\ WindowAfter(m, k, k0, c)
              = IF Ready(m, k, r)
                THEN [cycle |-> k \div SamplesPerPeriod[m],
                      start |-> SlotStart(m, k), size |-> k - SlotStart(m, k)]
                ELSE NoWindow
         /\ Ready(m, k, r) => r.currentStart = SlotStart(m, k) /\ ReadyPoint(m, k) <= k
<1> DEFINE P == SamplesPerPeriod[m]
           N == SamplesNeeded[m]
           S == SlotStart(m, k)
<1>1. /\ P \in Nat \ {0} /\ N \in 1..(P - 1) /\ S \in Nat /\ k \in Nat
      /\ S <= k /\ k < S + P
      /\ CycleOfCount(m, k) = k \div P
  BY SlotBounds, SchedulerAssumption DEF Count
<1>2. ReadyPoint(m, k) = S + N
  BY DEF ReadyPoint
<1>3. Ready(m, k, r) <=> r.currentStart + N <= k
  BY DEF Ready
<1> HIDE DEF S
<1>4. CASE r = CursorAt(m, S)
  <2>1. r.currentStart = S /\ r.nextStart = S + P
    BY <1>4 DEF CursorAt
  <2>2. Ready(m, k, r) <=> S + N <= k
    BY <1>3, <2>1
  <2>3. CASE S + N <= k
    <3>1. Advanced(m, r) = CursorAt(m, S + P)
      BY <2>1 DEF Advanced
    <3>2. Larger(N, k - S) = k - S
      BY <1>1, <2>3 DEF Larger
    <3>3. WindowOf(m, k, r) = [cycle |-> k \div P, start |-> S, size |-> k - S]
      BY <1>1, <2>1, <3>2 DEF WindowOf
    <3>4. ~(k < S + N)
      BY <1>1, <2>3
    <3> QED BY <1>2, <2>1, <2>2, <2>3, <3>1, <3>3, <3>4 DEF CursorAfter, WindowAfter, S
  <2>4. CASE ~(S + N <= k)
    <3>1. k < S + N
      BY <1>1, <2>4
    <3> QED BY <1>2, <1>4, <2>2, <2>4, <3>1 DEF CursorAfter, WindowAfter, S
  <2> QED BY <2>3, <2>4
<1>5. CASE r = CursorAt(m, S + P) /\ ReadyPoint(m, k) <= k
  <2>1. r.currentStart = S + P
    BY <1>5 DEF CursorAt
  <2>2. ~Ready(m, k, r)
    BY <1>1, <1>3, <2>1
  <2>3. ~(k < ReadyPoint(m, k))
    BY <1>1, <1>2, <1>5
  <2> QED BY <1>5, <2>2, <2>3 DEF CursorAfter, WindowAfter, S
<1> QED BY <1>4, <1>5 DEF StandsRight, S

(* A rewind puts the cursor on the slot of the count.                      *)
LEMMA Rewinding ==
  ASSUME NEW m \in Submode, NEW k \in Count, NEW k0, NEW c, MustRewind(m, k, k0, c)
  PROVE  Rewound(m, k, k0, c) = CursorAt(m, SlotStart(m, k))
BY SlotBounds DEF Rewound

-----------------------------------------------------------------------------
(* The inductive invariant: types, fresh cursors before the first poll,    *)
(* and after it every cursor waiting for the slot it should wait for.      *)
FreshInv == kin = Unpolled => cursor = [m \in Submode |-> NewCursor]

IInv == TypeOK /\ FreshInv /\ CursorInv /\ WindowHoldsSlot

(* A small step forward leaves the cursor to the slot it waits for, and    *)
(* that slot is the right one.                                             *)
LEMMA ForwardStep ==
  ASSUME IInv, NEW k \in Count, NEW k0 \in Count, PollForward(k, k0), NEW m \in Submode
  PROVE  /\ Rewound(m, k, k0, cursor[m]) = cursor[m]
         /\ StandsRight(m, k, cursor[m])
         /\ Ready(m, k, cursor[m]) <=> (kin < ReadyPoint(m, k) /\ ReadyPoint(m, k) <= k)
<1> DEFINE P == SamplesPerPeriod[m]
           N == SamplesNeeded[m]
           S == SlotStart(m, kin)
           T == SlotStart(m, k)
           w == WaitsFor(m)
<1>1. /\ kin \in Count /\ kin \in Nat /\ k \in Nat /\ k0 \in Nat /\ MaxStep \in Nat
      /\ kin <= k /\ k <= kin + MaxStep /\ k0 <= k /\ k <= k0 + MaxStep
  <2>1. kin \in Count
    BY DEF PollForward, IInv, TypeOK
  <2>2. kin \in Nat /\ k \in Nat /\ k0 \in Nat /\ MaxStep \in Nat
    BY <2>1, SchedulerAssumption DEF Count
  <2> QED BY <2>1, <2>2 DEF PollForward
<1>2. /\ P \in Nat \ {0} /\ N \in 1..(P - 1) /\ MaxStep <= P - N
      /\ S \in Nat /\ S <= kin /\ kin < S + P
      /\ T \in Nat /\ T <= k /\ k < T + P
  BY <1>1, SlotBounds, SchedulerAssumption
<1>3. T = S \/ T = S + P \/ T >= S + P + P
  BY <1>1, SlotsApart
<1>4. /\ ReadyPoint(m, kin) = S + N /\ ReadyPoint(m, k) = T + N
      /\ w = IF kin < S + N THEN S ELSE S + P
      /\ cursor[m] = CursorAt(m, w)
  BY DEF ReadyPoint, WaitsFor, IInv, CursorInv, PollForward
<1> HIDE DEF S, T, w
<1>5. /\ w \in Nat
      /\ w = T \/ (w = T + P /\ T + N <= k)
      /\ w + N <= k <=> (kin < T + N /\ T + N <= k)
      /\ ~(k < w /\ k < (IF w < P THEN 0 ELSE w - P) + N)
  <2>1. CASE kin < S + N
    BY <1>1, <1>2, <1>3, <1>4, <2>1
  <2>2. CASE ~(kin < S + N)
    BY <1>1, <1>2, <1>3, <1>4, <2>2
  <2> QED BY <2>1, <2>2
<1>6. cursor[m].currentStart = w /\ cursor[m].nextStart = w + P
  BY <1>4 DEF CursorAt
<1>7. ~MustRewind(m, k, k0, cursor[m])
  <2>1. cursor[m].currentStart # None /\ cursor[m].nextStart # None
    BY <1>2, <1>5, <1>6 DEF None
  <2>2. ~(AbsDiff(k, k0) > P) /\ ~(k < k0)
    BY <1>1, <1>2 DEF AbsDiff
  <2>3. ~DeadAir(m, k, cursor[m])
    BY <1>5, <1>6, <2>1 DEF DeadAir, OrZero, SaturatingSub
  <2> QED BY <2>1, <2>2, <2>3 DEF MustRewind
<1>8. Rewound(m, k, k0, cursor[m]) = cursor[m]
  BY <1>7 DEF Rewound
<1>9. StandsRight(m, k, cursor[m])
  BY <1>4, <1>5 DEF StandsRight, T
<1>10. Ready(m, k, cursor[m]) <=> (kin < T + N /\ T + N <= k)
  BY <1>5, <1>6 DEF Ready
<1> QED BY <1>4, <1>8, <1>9, <1>10 DEF T

(* A step back, whatever k0 says of it, leaves a cursor that stands right. *)
LEMMA BackwardStep ==
  ASSUME IInv, NEW k \in Count, NEW k0 \in Count, PollBackward(k, k0), NEW m \in Submode
  PROVE  StandsRight(m, k, Rewound(m, k, k0, cursor[m]))
<1> DEFINE P == SamplesPerPeriod[m]
           N == SamplesNeeded[m]
           S == SlotStart(m, kin)
           T == SlotStart(m, k)
           w == WaitsFor(m)
<1>1. /\ kin \in Count /\ kin \in Nat /\ k \in Nat /\ k < kin
  <2>1. kin \in Count
    BY DEF PollBackward, IInv, TypeOK
  <2> QED BY <2>1, SchedulerAssumption DEF Count, PollBackward
<1>2. /\ P \in Nat \ {0} /\ N \in 1..(P - 1)
      /\ S \in Nat /\ S <= kin /\ kin < S + P
      /\ T \in Nat /\ T <= k /\ k < T + P
  BY <1>1, SlotBounds
<1>3. S = T \/ S = T + P \/ S >= T + P + P
  BY <1>1, SlotsApart
<1>4. /\ ReadyPoint(m, kin) = S + N /\ ReadyPoint(m, k) = T + N
      /\ w = IF kin < S + N THEN S ELSE S + P
      /\ cursor[m] = CursorAt(m, w)
  BY DEF ReadyPoint, WaitsFor, IInv, CursorInv, PollBackward
<1> HIDE DEF S, T, w
<1>5. CASE MustRewind(m, k, k0, cursor[m])
  BY <1>5, Rewinding DEF StandsRight
<1>6. CASE ~MustRewind(m, k, k0, cursor[m])
  <2>1. Rewound(m, k, k0, cursor[m]) = CursorAt(m, w)
    BY <1>4, <1>6 DEF Rewound
  <2>2. w \in Nat /\ cursor[m].currentStart = w
    BY <1>2, <1>4 DEF CursorAt
  <2>3. ~(k < w /\ k < (IF w < P THEN 0 ELSE w - P) + N)
    BY <1>6, <2>2 DEF MustRewind, DeadAir, OrZero, SaturatingSub, None
  <2>4. w = T \/ (w = T + P /\ T + N <= k)
    <3>1. CASE kin < S + N
      BY <1>1, <1>2, <1>3, <1>4, <2>2, <2>3, <3>1
    <3>2. CASE ~(kin < S + N)
      BY <1>1, <1>2, <1>3, <1>4, <2>2, <2>3, <3>2
    <3> QED BY <3>1, <3>2
  <2> QED BY <1>4, <2>1, <2>4 DEF StandsRight, T
<1> QED BY <1>5, <1>6

(* The first poll and a leap rewind every cursor.                          *)
LEMMA RewindingStep ==
  ASSUME IInv, NEW k \in Count, NEW k0 \in Count,
         FirstPoll(k, k0) \/ PollLeap(k, k0), NEW m \in Submode
  PROVE  StandsRight(m, k, Rewound(m, k, k0, cursor[m]))
<1>1. CASE FirstPoll(k, k0)
  <2>1. cursor[m].currentStart = None
    BY <1>1 DEF FirstPoll, IInv, FreshInv, NewCursor
  <2> QED BY <2>1, Rewinding DEF MustRewind, StandsRight
<1>2. CASE PollLeap(k, k0)
  <2>1. /\ SamplesPerPeriod[m] \in Nat /\ k \in Nat /\ k0 \in Nat
        /\ k - k0 > SamplesPerPeriod[m]
    BY <1>2, SlotBounds, SchedulerAssumption DEF PollLeap, Count
  <2>2. AbsDiff(k, k0) > SamplesPerPeriod[m]
    BY <2>1 DEF AbsDiff
  <2> QED BY <2>2, Rewinding DEF MustRewind, StandsRight
<1> QED BY <1>1, <1>2

(* Every poll leaves the cursors where they should be, and its windows     *)
(* hold their slots.                                                       *)
LEMMA PollStep ==
  ASSUME IInv, NEW k \in Count, NEW k0 \in Count,
         \/ FirstPoll(k, k0) \/ PollForward(k, k0)
         \/ PollBackward(k, k0) \/ PollLeap(k, k0)
  PROVE  IInv'
<1>1. /\ kin' = k
      /\ cursor' = [m \in Submode |-> CursorAfter(m, k, k0, cursor[m])]
      /\ window' = [m \in Submode |-> WindowAfter(m, k, k0, cursor[m])]
  BY DEF FirstPoll, PollForward, PollBackward, PollLeap, NextWindow
<1>2. ASSUME NEW m \in Submode
      PROVE  StandsRight(m, k, Rewound(m, k, k0, cursor[m]))
  <2>1. CASE PollForward(k, k0)
    BY <2>1, ForwardStep
  <2>2. CASE PollBackward(k, k0)
    BY <2>2, BackwardStep
  <2>3. CASE FirstPoll(k, k0) \/ PollLeap(k, k0)
    BY <2>3, RewindingStep
  <2> QED BY <2>1, <2>2, <2>3
<1>3. k \in Nat /\ k # Unpolled
  BY SchedulerAssumption DEF Count, Unpolled
<1>4. ASSUME NEW m \in Submode
      PROVE  /\ cursor'[m] = CursorAt(m, WaitsFor(m)')
             /\ cursor'[m] \in Cursor
             /\ window'[m] \in Window
             /\ window'[m] # NoWindow =>
                  /\ window'[m].start = SlotStart(m, k)
                  /\ window'[m].start = window'[m].cycle * SamplesPerPeriod[m]
                  /\ window'[m].start + window'[m].size = k
                  /\ window'[m].size \in SamplesNeeded[m]..SamplesPerPeriod[m]
  <2> DEFINE P == SamplesPerPeriod[m]
             N == SamplesNeeded[m]
             S == SlotStart(m, k)
             full == [cycle |-> k \div P, start |-> S, size |-> k - S]
             r == Rewound(m, k, k0, cursor[m])
             next == IF k < ReadyPoint(m, k) THEN S ELSE S + P
  <2>1. /\ P \in Nat \ {0} /\ N \in 1..(P - 1) /\ S \in Nat /\ SampleSize \in Nat
        /\ S <= k /\ k < S + P /\ S + P <= SampleSize
        /\ k \div P \in Nat
        /\ S = (k \div P) * P
    BY SlotBounds, SchedulerAssumption DEF SlotStart
  <2>2. /\ CursorAfter(m, k, k0, cursor[m]) = CursorAt(m, next)
        /\ WindowAfter(m, k, k0, cursor[m]) = IF Ready(m, k, r) THEN full ELSE NoWindow
        /\ Ready(m, k, r) => r.currentStart = S /\ ReadyPoint(m, k) <= k
    BY <1>2, PollOutcome
  <2>3. ReadyPoint(m, k) = S + N
    BY DEF ReadyPoint
  <2>4. WaitsFor(m)' = next
    BY <1>1 DEF WaitsFor
  <2>5. cursor'[m] = CursorAt(m, next) /\ window'[m] \in {full, NoWindow}
    BY <1>1, <2>2
  <2>6. next \in Start /\ next + P \in Nat
    <3> HIDE DEF S
    <3> QED BY <1>3, <2>1, <2>3 DEF Start
  <2>7. cursor'[m] \in Cursor
    BY <2>5, <2>6 DEF Cursor, CursorAt
  <2>8. S \in Start /\ k - S \in Nat
    <3> HIDE DEF S
    <3> QED BY <1>3, <2>1 DEF Start
  <2>9. full \in Window /\ NoWindow \in Window
    BY <2>1, <2>8 DEF Window
  <2>10. window'[m] # NoWindow => window'[m] = full /\ S + N <= k
    BY <1>1, <2>2, <2>3
  <2>11. S + N <= k => S + (k - S) = k /\ k - S \in N..P
    <3> HIDE DEF S
    <3> QED BY <1>3, <2>1
  <2> HIDE DEF S
  <2>12. window'[m] # NoWindow =>
           /\ window'[m].start = S
           /\ window'[m].start = window'[m].cycle * P
           /\ window'[m].start + window'[m].size = k
           /\ window'[m].size \in N..P
    <3> SUFFICES ASSUME window'[m] # NoWindow
                 PROVE  /\ full.start = S
                        /\ full.start = full.cycle * P
                        /\ full.start + full.size = k
                        /\ full.size \in N..P
      BY <2>10
    <3>1. full.start = S /\ full.cycle = k \div P /\ full.size = k - S
      OBVIOUS
    <3> HIDE DEF full
    <3> QED BY <2>1, <2>10, <2>11, <3>1
  <2> QED BY <2>4, <2>5, <2>7, <2>9, <2>12 DEF S
<1>5. TypeOK'
  BY <1>1, <1>4 DEF TypeOK
<1>6. FreshInv'
  BY <1>1, <1>3 DEF FreshInv
<1>7. CursorInv'
  BY <1>4 DEF CursorInv
<1>8. WindowHoldsSlot'
  BY <1>1, <1>4 DEF WindowHoldsSlot
<1> QED BY <1>5, <1>6, <1>7, <1>8 DEF IInv

-----------------------------------------------------------------------------
LEMMA InitIInv == Init => IInv
<1> SUFFICES ASSUME Init PROVE IInv
  OBVIOUS
<1>1. TypeOK
  BY DEF Init, TypeOK, Cursor, Window, NewCursor, Unpolled
<1>2. FreshInv /\ CursorInv /\ WindowHoldsSlot
  BY DEF Init, FreshInv, CursorInv, WindowHoldsSlot
<1> QED BY <1>1, <1>2 DEF IInv

LEMMA NextIInv == IInv /\ [Next]_vars => IInv'
<1> SUFFICES ASSUME IInv, [Next]_vars PROVE IInv'
  OBVIOUS
<1>1. CASE Next
  BY <1>1, PollStep DEF Next
<1>2. CASE UNCHANGED vars
  BY <1>2 DEF vars, IInv, TypeOK, FreshInv, CursorInv, WaitsFor, WindowHoldsSlot
<1> QED BY <1>1, <1>2

(* After every poll, late, early, after a wrap or a clear, each cursor     *)
(* waits for the slot it should (DecodeCursor, rx/scheduling.rs), and the  *)
(* variables keep their types.                                             *)
THEOREM CursorsStandRight == Spec => [](TypeOK /\ CursorInv)
<1>1. IInv => TypeOK /\ CursorInv
  BY DEF IInv
<1> QED BY <1>1, InitIInv, NextIInv, PTL DEF Spec

(* Every window next_decode_window returns is the slot of the count from   *)
(* its first sample, complete enough and no longer than one slot.          *)
THEOREM WindowsHoldSlots == Spec => []WindowHoldsSlot
<1>1. IInv => WindowHoldsSlot
  BY DEF IInv
<1> QED BY <1>1, InitIInv, NextIInv, PTL DEF Spec

(* While the count grows in steps of at most MaxStep, next_decode_window   *)
(* returns exactly one window for each slot: none is left out or repeated. *)
THEOREM EachSlotOnce == Spec => OneWindowPerSlot
<1> DEFINE Once == (kin # Unpolled /\ kin' \in kin..(kin + MaxStep))
                     => \A m \in Submode : (window'[m] # NoWindow) <=> PassedReadyPoint(m)
<1>1. ASSUME IInv, Next PROVE Once
  <2> SUFFICES ASSUME kin # Unpolled, kin' \in kin..(kin + MaxStep), NEW m \in Submode
               PROVE  (window'[m] # NoWindow) <=> PassedReadyPoint(m)
    OBVIOUS
  <2>1. PICK k \in Count, k0 \in Count : PollForward(k, k0)
    <3>1. kin \in Nat /\ MaxStep \in Nat
      BY <1>1, SchedulerAssumption DEF IInv, TypeOK, Count
    <3>2. PICK k \in Count, k0 \in Count : \/ FirstPoll(k, k0) \/ PollForward(k, k0)
                                           \/ PollBackward(k, k0) \/ PollLeap(k, k0)
      BY <1>1 DEF Next
    <3>3. ~FirstPoll(k, k0)
      BY DEF FirstPoll
    <3>4. ~PollBackward(k, k0)
      BY <3>1 DEF PollBackward
    <3>5. ~PollLeap(k, k0)
      BY <3>1 DEF PollLeap
    <3> QED BY <3>2, <3>3, <3>4, <3>5
  <2>2. kin' = k /\ window'[m] = WindowAfter(m, k, k0, cursor[m])
    BY <2>1 DEF PollForward, NextWindow
  <2>3. /\ Rewound(m, k, k0, cursor[m]) = cursor[m]
        /\ StandsRight(m, k, cursor[m])
        /\ Ready(m, k, cursor[m]) <=> (kin < ReadyPoint(m, k) /\ ReadyPoint(m, k) <= k)
    BY <1>1, <2>1, ForwardStep
  <2>4. window'[m] = IF Ready(m, k, cursor[m])
                     THEN [cycle |-> k \div SamplesPerPeriod[m],
                           start |-> SlotStart(m, k), size |-> k - SlotStart(m, k)]
                     ELSE NoWindow
    BY <2>2, <2>3, PollOutcome
  <2>5. [cycle |-> k \div SamplesPerPeriod[m],
         start |-> SlotStart(m, k), size |-> k - SlotStart(m, k)] # NoWindow
    <3>1. k \div SamplesPerPeriod[m] \in Nat
      BY SlotBounds
    <3> QED BY <3>1 DEF NoWindow, None
  <2> QED BY <2>2, <2>3, <2>4, <2>5 DEF PassedReadyPoint
<1>2. IInv /\ [Next]_vars => [Once]_vars
  BY <1>1
<1> QED BY <1>2, InitIInv, NextIInv, PTL DEF Spec, OneWindowPerSlot

-----------------------------------------------------------------------------
(* The search.                                                             *)

(* How far the search must reach: from the earliest first symbol of a slot *)
(* that the span starts with, to the latest of a slot just become ready.   *)
SearchReaches ==
  \A m \in Submode :
    /\ SearchFirst[m] <= StartDelay[m] - ClockError
    /\ StartDelay[m] + ClockError + (SamplesPerPeriod[m] - SamplesNeeded[m]) <= SearchLast[m]

(* A window holds the frame of its slot, and the search reaches its start. *)
LEMMA WindowIsSearched ==
  ASSUME SearchReaches, TypeOK, WindowHoldsSlot
  PROVE  FramesAreSearched
<1> SUFFICES ASSUME NEW m \in Submode, window[m] # NoWindow,
                    NEW at \in FrameStarts(m, window[m])
             PROVE  LET span == SearchedSpan(m, window[m].start + window[m].size)
                    IN  InSpan(m, span, at) /\ Tried(m, span, at)
  BY DEF FramesAreSearched
<1> DEFINE w == window[m]
           P == SamplesPerPeriod[m]
           need == SamplesNeeded[m]
           span == SearchedSpan(m, w.start + w.size)
<1>1. /\ P \in Nat \ {0} /\ need \in 1..(P - 1)
      /\ StartDelay[m] \in Nat /\ SymbolSamples[m] \in Nat /\ ClockError \in Nat
      /\ SearchFirst[m] \in Int /\ SearchLast[m] \in Int
      /\ StartDelay[m] + SymbolSamples[m] + ClockError <= need
      /\ ClockError <= StartDelay[m]
  BY SchedulerAssumption, SearchAssumption, FrameAssumption
<1>2. /\ SearchFirst[m] <= StartDelay[m] - ClockError
      /\ StartDelay[m] + ClockError + (P - need) <= SearchLast[m]
  BY DEF SearchReaches
<1>3. w \in Window /\ w # NoWindow
  BY DEF TypeOK
<1>4. w.start \in Nat /\ w.size \in Nat
  BY <1>3, SchedulerAssumption DEF Window, Start
<1>5. /\ w.start = SlotStart(m, kin)
      /\ w.start + w.size = kin
      /\ w.size \in need..P
  BY DEF WindowHoldsSlot
<1>6. kin \in Count
  BY <1>1, <1>4, <1>5 DEF TypeOK, Unpolled
<1>7. at \in Int /\ w.start + StartDelay[m] - ClockError <= at
      /\ at <= w.start + StartDelay[m] + ClockError
  BY <1>1, <1>4 DEF FrameStarts
<1>8. kin < P => w.start = 0
  <2> SUFFICES ASSUME kin < P PROVE w.start = 0
    OBVIOUS
  <2>1. kin \in Nat
    BY <1>6, SchedulerAssumption DEF Count
  <2>2. kin \div P = 0
    <3> DEFINE q == kin \div P
    <3>1. q \in Nat /\ kin % P \in 0..(P - 1) /\ kin = q * P + (kin % P)
      BY <2>1, <1>1, DivMod
    <3>2. q * P \in Nat /\ (q = 0 \/ q * P + P <= 0 * P \/ 0 * P + P <= q * P) /\ 0 * P = 0
      <4> HIDE DEF q, P
      <4>1. 0 * P = 0 /\ 0 \in Nat
        BY <1>1
      <4> QED BY <4>1, <3>1, <1>1, MultiplesApart
    <3> HIDE DEF q, P
    <3>3. q = 0
      BY <2>1, <3>1, <3>2, <1>1
    <3> QED BY <3>3 DEF q
  <2> QED BY <2>2, <1>1, <1>5 DEF SlotStart
<1>9. CASE kin < P
  <2>1. span = [start |-> kin - kin, size |-> kin]
    BY <1>9, <1>5 DEF SearchedSpan, WindowFromKin, SmallerOf
  <2>2. span.start = 0 /\ span.size = kin
    BY <2>1, <1>6 DEF Count
  <2> HIDE DEF P, need, span, w
  <2>3. InSpan(m, span, at) /\ Tried(m, span, at)
    BY <2>2, <1>1, <1>2, <1>4, <1>5, <1>7, <1>8, <1>9 DEF InSpan, Tried
  <2> QED BY <2>3 DEF span, w
<1>10. CASE ~(kin < P)
  <2>1. span = [start |-> kin - P, size |-> P]
    BY <1>10, <1>5 DEF SearchedSpan, WindowFromKin, SmallerOf
  <2>2. span.start = kin - P /\ span.size = P
    BY <2>1
  <2> HIDE DEF P, need, span, w
  <2>3. InSpan(m, span, at) /\ Tried(m, span, at)
    BY <2>2, <1>1, <1>2, <1>4, <1>5, <1>7, <1>10 DEF InSpan, Tried
  <2> QED BY <2>3 DEF span, w
<1> QED BY <1>9, <1>10 DEF span, w

(* Where the sync search reaches far enough, the pass over every window    *)
(* next_decode_window returns tries the frame of the window's slot,        *)
(* however the caller polls.                                               *)
THEOREM EveryFrameSearched == SearchReaches => (Spec => []FramesAreSearched)
<1> SUFFICES ASSUME SearchReaches PROVE Spec => []FramesAreSearched
  OBVIOUS
<1>1. IInv => FramesAreSearched
  BY WindowIsSearched DEF IInv
<1> QED BY <1>1, InitIInv, NextIInv, PTL DEF Spec

(* The polls of the caller are polls the scheduler expects.                *)
LEMMA ReceiveIsNext == TypeOK /\ [Receive]_vars => [Next]_vars
<1> SUFFICES ASSUME TypeOK, Receive PROVE Next
  BY DEF vars
<1>1. CASE FirstPoll(0, 0)
  <2>1. 0 \in Count
    BY SchedulerAssumption, SearchAssumption DEF Count
  <2> QED BY <1>1, <2>1 DEF Next
<1>2. CASE Hear
  <2>1. PICK k \in (kin + 1)..(kin + MaxStep) : k \in Count /\ PollForward(k, kin)
    BY <1>2 DEF Hear
  <2>2. kin \in Count
    BY <2>1 DEF TypeOK, PollForward
  <2> QED BY <2>1, <2>2 DEF Next
<1>3. CASE WrapRound
  <2>1. PICK k \in 0..MaxStep : k \in Count /\ PollBackward(k, kin)
    BY <1>3 DEF WrapRound
  <2>2. kin \in Count
    BY <2>1 DEF TypeOK, PollBackward
  <2> QED BY <2>1, <2>2 DEF Next
<1> QED BY <1>1, <1>2, <1>3 DEF Receive

LEMMA ReceiveKeepsIInv == IInv /\ [Receive]_vars => IInv'
<1>1. IInv => TypeOK
  BY DEF IInv
<1> QED BY <1>1, ReceiveIsNext, NextIInv

(* The caller that polls with the counts before and after each write keeps *)
(* to what the scheduler expects of its callers.                           *)
THEOREM CallerPollsAsExpected == SearchSpec => Spec
<1>1. IInv => TypeOK
  BY DEF IInv
<1> QED BY <1>1, InitIInv, ReceiveKeepsIInv, ReceiveIsNext, PTL DEF SearchSpec, Spec
=============================================================================
