----------------------- MODULE ReceivePipelineProofs -----------------------
(***************************************************************************)
(* Proofs about ReceivePipeline, for any block sizes, any period and any   *)
(* number of disturbances: the samples of the period stay in the order in  *)
(* which they were heard, the windows hold the audio of their slots, no    *)
(* period ends unheard, and the scheduler is polled as it expects.         *)
(***************************************************************************)
EXTENDS ReceivePipeline, ArithmeticLemmas, SequenceTheorems

Cell == 0..(SampleSize - 1)
InFrames(samples) == samples * Ndown
MsInAPeriod == PeriodSeconds * MsPerSecond
SecondFrames == MsPerSecond * FramesPerMs

-----------------------------------------------------------------------------
(* Constants and units.                                                    *)

(* The constants are what they should be, and so are their products.       *)
LEMMA Units ==
  /\ SampleSize \in Nat \ {0} /\ Ndown \in Nat \ {0} /\ FramesPerMs \in Nat \ {0}
  /\ MsInAPeriod \in Nat \ {0} /\ MsPerSecond \in Nat \ {0} /\ PeriodSeconds \in Nat \ {0}
  /\ SecondFrames \in Nat \ {0}
  /\ PeriodFrames \in Nat \ {0}
  /\ PeriodFrames = MsInAPeriod * FramesPerMs
  /\ MsInAPeriod * (FramesPerMs \div Ndown) <= SampleSize
  /\ FramesPerMs \div Ndown \in Nat \ {0}
  /\ FramesPerMs = (FramesPerMs \div Ndown) * Ndown
<1>1. /\ SampleSize \in Nat \ {0} /\ Ndown \in Nat \ {0} /\ FramesPerMs \in Nat \ {0}
      /\ MsPerSecond \in Nat \ {0} /\ PeriodSeconds \in Nat \ {0}
      /\ FramesPerMs % Ndown = 0
      /\ PeriodSeconds * MsPerSecond * (FramesPerMs \div Ndown) <= SampleSize
  BY DetectorAssumption
<1>2. \A a, b \in Nat \ {0} : a * b \in Nat \ {0}
  BY SMTT(30)
<1>3. /\ MsInAPeriod \in Nat \ {0} /\ SecondFrames \in Nat \ {0}
      /\ MsInAPeriod * FramesPerMs \in Nat \ {0}
  BY <1>1, <1>2 DEF MsInAPeriod, SecondFrames
<1>4. /\ FramesPerMs \div Ndown \in Nat
      /\ FramesPerMs = (FramesPerMs \div Ndown) * Ndown + 0
  BY <1>1, DivMod
<1>5. (FramesPerMs \div Ndown) * Ndown \in Nat
  BY <1>1, <1>4, MultiplesApart
<1>6. FramesPerMs = (FramesPerMs \div Ndown) * Ndown
  BY <1>4, <1>5
<1>7. FramesPerMs \div Ndown # 0
  BY <1>6, <1>1, <1>4
<1> QED BY <1>1, <1>3, <1>4, <1>6, <1>7 DEF PeriodFrames, MsInAPeriod

(* Samples are counted in frames: the measure is linear and monotone.      *)
LEMMA Frames ==
  /\ \A a \in Int : InFrames(a) \in Int
  /\ \A a, b \in Int : InFrames(a + b) = InFrames(a) + InFrames(b)
  /\ \A a, b \in Int : InFrames(a - b) = InFrames(a) - InFrames(b)
  /\ \A a, b \in Int : a <= b => InFrames(a) <= InFrames(b)
  /\ \A a, b \in Int : a < b => InFrames(a) + Ndown <= InFrames(b)
  /\ InFrames(0) = 0 /\ InFrames(1) = Ndown
  /\ \A a \in Nat : InFrames(a) \in Nat
<1>1. Ndown \in Nat \ {0}
  BY Units
<1>2. /\ \A a \in Int : a * Ndown \in Int
      /\ \A a, b \in Int : (a + b) * Ndown = a * Ndown + b * Ndown
      /\ \A a, b \in Int : (a - b) * Ndown = a * Ndown - b * Ndown
  BY <1>1, Products
<1>3. /\ \A a \in Nat : a * Ndown \in Nat
      /\ \A a \in Nat \ {0} : Ndown <= a * Ndown
      /\ 0 * Ndown = 0 /\ 1 * Ndown = Ndown
  BY <1>1, SMTT(30)
<1>4. ASSUME NEW a \in Int, NEW b \in Int, a <= b PROVE a * Ndown <= b * Ndown
  <2>1. b - a \in Nat
    BY <1>4
  <2>2. (b - a) * Ndown \in Nat /\ (b - a) * Ndown = b * Ndown - a * Ndown
    BY <2>1, <1>2, <1>3
  <2>3. a * Ndown \in Int /\ b * Ndown \in Int
    BY <1>2
  <2> QED BY <2>2, <2>3
<1>5. ASSUME NEW a \in Int, NEW b \in Int, a < b PROVE a * Ndown + Ndown <= b * Ndown
  <2>1. b - a \in Nat \ {0}
    BY <1>5
  <2>2. Ndown <= (b - a) * Ndown /\ (b - a) * Ndown = b * Ndown - a * Ndown
    BY <2>1, <1>2, <1>3
  <2>3. a * Ndown \in Int /\ b * Ndown \in Int
    BY <1>2
  <2> QED BY <2>2, <2>3, <1>1
<1> QED BY <1>2, <1>3, <1>4, <1>5 DEF InFrames

(* Where a time lies in its period, in ticks and in seconds.               *)
LEMMA ClockBounds ==
  ASSUME NEW t \in Nat
  PROVE  /\ PeriodStart(t) \in Nat
         /\ PeriodStart(t) <= t
         /\ t < PeriodStart(t) + PeriodFrames
         /\ MsInPeriod(t) \in 0..(MsInAPeriod - 1)
         /\ MsInPeriod(t) * FramesPerMs \in Nat
         /\ MsInPeriod(t) * FramesPerMs <= t - PeriodStart(t)
         /\ t - PeriodStart(t) < MsInPeriod(t) * FramesPerMs + FramesPerMs
         /\ SecondInPeriod(t) \in Nat
         /\ SecondInPeriod(t) * SecondFrames \in Nat
         /\ SecondInPeriod(t) * SecondFrames <= t - PeriodStart(t)
         /\ t - PeriodStart(t) < SecondInPeriod(t) * SecondFrames + SecondFrames
<1> DEFINE F == FramesPerMs
           M == MsInAPeriod
           a == t \div F
           b == a \div M
           c == a % M
           s == c \div MsPerSecond
           start == PeriodStart(t)
<1>1. /\ F \in Nat \ {0} /\ M \in Nat \ {0} /\ MsPerSecond \in Nat \ {0}
      /\ SecondFrames \in Nat \ {0} /\ PeriodFrames \in Nat \ {0} /\ PeriodFrames = M * F
  BY Units
<1>2. a \in Nat /\ t % F \in 0..(F - 1) /\ t = a * F + (t % F)
  BY <1>1, DivMod
<1>3. b \in Nat /\ c \in 0..(M - 1) /\ a = b * M + c
  BY <1>1, <1>2, DivMod
<1>4. s \in Nat /\ c % MsPerSecond \in 0..(MsPerSecond - 1)
      /\ c = s * MsPerSecond + (c % MsPerSecond)
  <2> HIDE DEF c, M
  <2>1. c \in Nat
    BY <1>1, <1>3
  <2> QED BY <2>1, <1>1, DivMod
<1>5. start \in Nat /\ start <= t /\ t < start + PeriodFrames
  BY <1>1, MultipleBelow DEF PeriodStart
<1>6. start = b * PeriodFrames /\ t - start = c * F + (t % F)
      /\ c * F \in Nat
  <2> DEFINE r == c * F + (t % F)
             m == b * PeriodFrames
             e == t % F
  <2>1. /\ b * M \in Int /\ (b * M + c) * F = (b * M) * F + c * F
        /\ (b * M) * F = b * (M * F) /\ c * F \in Int /\ (b * M) * F \in Int
    BY <1>1, <1>3, Products
  <2>2. t = m + r /\ m \in Int
    <3> HIDE DEF a, b, c, F, M, e
    <3>1. a * F = m + c * F
      BY <2>1, <1>1, <1>3
    <3>2. t = (m + c * F) + e /\ c * F \in Int /\ m \in Int /\ e \in Int
      BY <3>1, <2>1, <1>2, <1>1 DEF e
    <3> QED BY <3>2 DEF e
  <2>3. c * F \in Nat /\ c * F + F <= M * F
    BY <1>1, <1>3, MultiplesApart
  <2>4. r \in 0..(PeriodFrames - 1)
    <3> HIDE DEF c, F, M, e
    <3> QED BY <2>3, <1>1, <1>2 DEF e
  <2>5. t \div PeriodFrames = b
    <3>1. b \in Int /\ PeriodFrames \in Nat \ {0}
      BY <1>1, <1>3
    <3> HIDE DEF b, r
    <3>2. (b * PeriodFrames + r) \div PeriodFrames = b
      BY <3>1, <2>4, RemainderOf
    <3> QED BY <3>2, <2>2
  <2>6. start = m
    BY <2>5 DEF PeriodStart
  <2> HIDE DEF m, r, start
  <2>7. t - start = r
    BY <2>2, <2>4, <2>6
  <2> QED BY <2>3, <2>6, <2>7 DEF r, m
<1>7. MsInPeriod(t) = c /\ SecondInPeriod(t) = s
  BY DEF MsInPeriod, SecondInPeriod, MsInAPeriod
<1>8. c * F <= t - start /\ t - start < c * F + F
  <2> HIDE DEF c, F, start
  <2> QED BY <1>1, <1>2, <1>5, <1>6
<1>9. /\ s * SecondFrames \in Nat
      /\ s * SecondFrames <= c * F
      /\ c * F + F <= s * SecondFrames + SecondFrames
  <2> DEFINE e == c % MsPerSecond
  <2>1. e \in 0..(MsPerSecond - 1) /\ c = s * MsPerSecond + e
    BY <1>4
  <2> HIDE DEF e, c, s, F
  <2>2. /\ s * MsPerSecond \in Int /\ (s * MsPerSecond + e) * F = (s * MsPerSecond) * F + e * F
        /\ (s * MsPerSecond) * F = s * (MsPerSecond * F)
    BY <2>1, <1>1, <1>4, Products
  <2>3. s * SecondFrames \in Nat /\ SecondFrames = MsPerSecond * F
    BY <1>1, <1>4, MultiplesApart DEF SecondFrames, F
  <2>4. c * F = s * SecondFrames + e * F
    BY <2>1, <2>2, <2>3
  <2>5. e * F \in Nat /\ e * F + F <= MsPerSecond * F
    BY <2>1, <1>1, MultiplesApart
  <2> QED BY <2>3, <2>4, <2>5, <1>1
<1> HIDE DEF a, b, c, s, start, F
<1>10. t - start < s * SecondFrames + SecondFrames
  BY <1>8, <1>9, <1>6, <1>1, <1>5
<1>11. s * SecondFrames <= t - start
  BY <1>8, <1>9, <1>6, <1>1, <1>5
<1> QED BY <1>1, <1>3, <1>4, <1>5, <1>6, <1>7, <1>8, <1>9, <1>10, <1>11 DEF F, start

(* A second that is smaller than an earlier one belongs to a later period; *)
(* and if less than a period less a second has passed, the next period has *)
(* begun exactly when the second is smaller.                               *)
LEMMA ClockOrder ==
  ASSUME NEW t \in Nat, NEW u \in Nat, t <= u
  PROVE  /\ SecondInPeriod(u) < SecondInPeriod(t) =>
              t < PeriodStart(u) /\ PeriodStart(t) + PeriodFrames <= PeriodStart(u)
         /\ u + SecondFrames <= t + PeriodFrames =>
              \/ /\ PeriodStart(u) = PeriodStart(t)
                 /\ ~(SecondInPeriod(u) < SecondInPeriod(t))
              \/ /\ PeriodStart(u) = PeriodStart(t) + PeriodFrames
                 /\ SecondInPeriod(u) < SecondInPeriod(t)
<1> DEFINE r == PeriodStart(t)
           p == PeriodStart(u)
           a == SecondInPeriod(t)
           b == SecondInPeriod(u)
<1>1. /\ SecondFrames \in Nat \ {0} /\ PeriodFrames \in Nat \ {0}
      /\ r \in Nat /\ p \in Nat /\ a \in Nat /\ b \in Nat
      /\ r <= t /\ t < r + PeriodFrames /\ p <= u /\ u < p + PeriodFrames
  BY Units, ClockBounds
<1>2. /\ a * SecondFrames \in Nat /\ b * SecondFrames \in Nat
      /\ a * SecondFrames <= t - r /\ t - r < a * SecondFrames + SecondFrames
      /\ b * SecondFrames <= u - p /\ u - p < b * SecondFrames + SecondFrames
  BY ClockBounds
<1>3. /\ a = b \/ a * SecondFrames + SecondFrames <= b * SecondFrames
             \/ b * SecondFrames + SecondFrames <= a * SecondFrames
      /\ b < a => b * SecondFrames + SecondFrames <= a * SecondFrames
      /\ a <= b => a * SecondFrames <= b * SecondFrames
  <2> HIDE DEF a, b
  <2>1. \A x, y \in Nat : x <= y => x * SecondFrames <= y * SecondFrames
    BY <1>1, SMTT(30)
  <2>2. (b + 1) * SecondFrames = b * SecondFrames + SecondFrames
    BY <1>1, MultiplesApart
  <2>3. b < a => b + 1 <= a
    BY <1>1
  <2>4. b < a => b * SecondFrames + SecondFrames <= a * SecondFrames
    BY <1>1, <2>1, <2>2, <2>3
  <2> QED BY <1>1, <2>1, <2>4, MultiplesApart
<1>4. r = p \/ r + PeriodFrames <= p
  <2>1. r = p \/ r + PeriodFrames <= p
    BY <1>1, MultipleBelow DEF PeriodStart
  <2> QED BY <2>1
<1> HIDE DEF r, p, a, b
<1>5. r = p => ~(b < a)
  BY <1>1, <1>2, <1>3
<1>6. b < a => t < p /\ r + PeriodFrames <= p
  BY <1>1, <1>4, <1>5
<1>7. ASSUME u + SecondFrames <= t + PeriodFrames
      PROVE  (p = r /\ ~(b < a)) \/ (p = r + PeriodFrames /\ b < a)
  <2>1. CASE r = p
    BY <2>1, <1>5
  <2>2. CASE r + PeriodFrames <= p
    <3>1. p = r \/ p = r + PeriodFrames
      <4> DEFINE x == t \div PeriodFrames
                 y == u \div PeriodFrames
      <4>1. x \in Nat /\ y \in Nat /\ r = x * PeriodFrames /\ p = y * PeriodFrames
        BY <1>1, DivMod DEF r, p, PeriodStart
      <4> HIDE DEF x, y
      <4>2. /\ x = y \/ x = y + 1 \/ y = x + 1
                  \/ x * PeriodFrames + PeriodFrames + PeriodFrames <= y * PeriodFrames
                  \/ y * PeriodFrames + PeriodFrames + PeriodFrames <= x * PeriodFrames
            /\ (x + 1) * PeriodFrames = x * PeriodFrames + PeriodFrames
        BY <4>1, <1>1, MultiplesApart
      <4>3. (y + 1) * PeriodFrames = y * PeriodFrames + PeriodFrames
        BY <4>1, <1>1, MultiplesApart
      <4> QED BY <4>1, <4>2, <4>3, <1>1, <1>7, <2>2
    <3>2. p = r + PeriodFrames
      BY <3>1, <2>2, <1>1
    <3>3. u - p <= t - r - SecondFrames
      BY <3>2, <1>7, <1>1
    <3>4. b < a
      BY <3>3, <1>1, <1>2, <1>3
    <3> QED BY <3>2, <3>4
  <2> QED BY <1>4, <2>1, <2>2
<1> QED BY <1>6, <1>7 DEF r, p, a, b

(* The count that the clock gives fits the buffer, and is the time in the  *)
(* period but for less than a tick.                                        *)
LEMMA ClockCount ==
  ASSUME NEW t \in Nat
  PROVE  /\ ClockKin(t) \in Cell
         /\ InFrames(ClockKin(t)) <= t - PeriodStart(t)
         /\ t - PeriodStart(t) <= InFrames(ClockKin(t)) + (FramesPerMs - 1)
<1> DEFINE c == MsInPeriod(t)
           e == FramesPerMs \div Ndown
<1>1. /\ SampleSize \in Nat \ {0} /\ Ndown \in Nat \ {0} /\ FramesPerMs \in Nat \ {0}
      /\ MsInAPeriod \in Nat \ {0} /\ e \in Nat \ {0}
      /\ MsInAPeriod * e <= SampleSize /\ FramesPerMs = e * Ndown
  BY Units
<1>2. /\ PeriodStart(t) \in Nat /\ PeriodStart(t) <= t
      /\ c \in 0..(MsInAPeriod - 1) /\ c * FramesPerMs \in Nat
      /\ c * FramesPerMs <= t - PeriodStart(t)
      /\ t - PeriodStart(t) < c * FramesPerMs + FramesPerMs
  BY ClockBounds
<1> HIDE DEF c, e
<1>3. c * e \in Nat /\ c * e + e <= MsInAPeriod * e
  BY <1>1, <1>2, MultiplesApart
<1>4. c * e < SampleSize
  <2>1. MsInAPeriod * e \in Nat
    BY <1>1, MultiplesApart
  <2> QED BY <2>1, <1>1, <1>3
<1>5. ClockKin(t) = c * e
  BY <1>4 DEF ClockKin, Smaller, c, e
<1>6. InFrames(ClockKin(t)) = c * FramesPerMs
  BY <1>1, <1>2, <1>5, Products DEF InFrames
<1> QED BY <1>1, <1>2, <1>3, <1>4, <1>5, <1>6 DEF Cell

-----------------------------------------------------------------------------
(* The buffer as a ring.                                                   *)

(* How many cells ago a cell was written, when k is the count.             *)
AgeAt(k, i) == IF i < k THEN k - i ELSE k - i + SampleSize

LEMMA AgeBounds ==
  ASSUME NEW k \in Cell, NEW i \in Cell
  PROVE  AgeAt(k, i) \in 1..SampleSize
BY Units DEF AgeAt, Cell

(* A rotation that moves the count with the cells leaves their ages alone. *)
LEMMA RotationKeepsAge ==
  ASSUME NEW k \in Cell, NEW l \in Cell, NEW i \in Cell, NEW b
  PROVE  \E r \in Cell : Rotated(b, l - k)[i] = b[r] /\ AgeAt(l, i) = AgeAt(k, r)
<1> DEFINE x == i - (l - k)
           r == x % SampleSize
<1>1. SampleSize \in Nat \ {0} /\ k \in Int /\ l \in Int /\ i \in Int
  BY Units DEF Cell
<1>2. x \in Int /\ -SampleSize < x /\ x < 2 * SampleSize
  BY <1>1 DEF Cell
<1>3. Rotated(b, l - k)[i] = b[r]
  BY DEF Rotated, Cell
<1>4. r \in Cell /\ (r = x \/ r = x + SampleSize \/ r = x - SampleSize)
  <2> HIDE DEF x
  <2>1. CASE x < 0
    <3> DEFINE z == x + SampleSize
               q == -1
    <3>1. z \in 0..(SampleSize - 1) /\ q \in Int
      BY <2>1, <1>1, <1>2
    <3>2. q * SampleSize + z = x
      BY <1>1, <1>2
    <3> HIDE DEF z, q
    <3>3. (q * SampleSize + z) % SampleSize = z
      BY <3>1, <1>1, RemainderOf
    <3> QED BY <3>1, <3>2, <3>3 DEF Cell, z
  <2>2. CASE x \in 0..(SampleSize - 1)
    <3>1. (0 * SampleSize + x) % SampleSize = x
      BY <2>2, <1>1, RemainderOf
    <3>2. 0 * SampleSize + x = x
      BY <1>1, <1>2
    <3> QED BY <2>2, <3>1, <3>2 DEF Cell
  <2>3. CASE x >= SampleSize
    <3> DEFINE z == x - SampleSize
               q == 1
    <3>1. z \in 0..(SampleSize - 1) /\ q \in Int
      BY <2>3, <1>1, <1>2
    <3>2. q * SampleSize + z = x
      BY <1>1, <1>2
    <3> HIDE DEF z, q
    <3>3. (q * SampleSize + z) % SampleSize = z
      BY <3>1, <1>1, RemainderOf
    <3> QED BY <3>1, <3>2, <3>3 DEF Cell, z
  <2> QED BY <1>1, <1>2, <2>1, <2>2, <2>3
<1>5. AgeAt(l, i) = AgeAt(k, r)
  <2> HIDE DEF r
  <2> QED BY <1>1, <1>4 DEF AgeAt, Cell
<1> QED BY <1>3, <1>4, <1>5

-----------------------------------------------------------------------------
(* What a write does.                                                      *)

(* The blocks stored are the first ones: they end before the buffer does,  *)
(* and a block is left out only if not even one more would fit below the   *)
(* last cell.                                                              *)
LEMMA StoredBlocksFill ==
  ASSUME NEW k \in Cell, NEW blocks \in Nat, samplesPerFft \in Nat \ {0}
  PROVE  LET g == StoredBlocks(k, blocks)
         IN  /\ g \in 0..blocks
             /\ g * samplesPerFft \in Nat
             /\ k + g * samplesPerFft < SampleSize
             /\ g # blocks => k + g * samplesPerFft + samplesPerFft >= SampleSize
             /\ g # 0 => k + samplesPerFft < SampleSize
<1> DEFINE Fits(b) == k + b * samplesPerFft < MonusNat(SampleSize, samplesPerFft)
           S == {b \in 0..(blocks - 1) : Fits(b)}
           T == {b \in 0..(blocks - 1) : ~Fits(b)}
           g == StoredBlocks(k, blocks)
<1>1. /\ SampleSize \in Nat \ {0} /\ samplesPerFft \in Nat \ {0}
      /\ k \in Nat /\ k < SampleSize
  BY Units DEF Cell
<1>2. \A b \in Nat : b * samplesPerFft \in Nat
  BY <1>1, MultiplesApart
<1>3. \A b \in Nat : Fits(b) <=> k + b * samplesPerFft + samplesPerFft < SampleSize
  BY <1>1, <1>2 DEF MonusNat
<1>4. \A a, b \in Nat : a <= b => a * samplesPerFft <= b * samplesPerFft
  BY <1>1, SMTT(30)
<1>5. g = Cardinality(S)
  BY DEF StoredBlocks
<1>6. \E c \in 0..blocks : S = 0..(c - 1) /\ (c # blocks => ~Fits(c))
  <2>1. CASE T = {}
    <3>1. S = 0..(blocks - 1)
      BY <2>1
    <3> QED BY <3>1
  <2>2. CASE T # {}
    <3>1. T \in SUBSET Nat
      OBVIOUS
    <3>2. PICK c \in T : \A y \in T : c <= y
      BY <2>2, <3>1, NaturalMinimum
    <3>3. c \in 0..(blocks - 1) /\ c \in Nat /\ ~Fits(c)
      OBVIOUS
    <3>4. ASSUME NEW b \in 0..(blocks - 1), b < c PROVE Fits(b)
      BY <3>2, <3>3, <3>4
    <3>5. ASSUME NEW b \in 0..(blocks - 1), ~(b < c) PROVE ~Fits(b)
      <4>1. c * samplesPerFft <= b * samplesPerFft /\ b \in Nat
        BY <3>3, <3>5, <1>4
      <4>2. c * samplesPerFft \in Nat /\ b * samplesPerFft \in Nat
        BY <3>3, <4>1, <1>2
      <4>3. ~(k + c * samplesPerFft + samplesPerFft < SampleSize)
        BY <3>3, <1>3
      <4>4. ~(k + b * samplesPerFft + samplesPerFft < SampleSize)
        BY <4>1, <4>2, <4>3, <1>1
      <4> QED BY <4>1, <4>4, <1>3
    <3>6. S = 0..(c - 1)
      <4> HIDE DEF Fits, T
      <4>1. ASSUME NEW b PROVE b \in S <=> b \in 0..(c - 1)
        BY <3>3, <3>4, <3>5
      <4> QED BY <4>1
    <3> QED BY <3>3, <3>6
  <2> QED BY <2>1, <2>2
<1>7. PICK c \in 0..blocks : S = 0..(c - 1) /\ (c # blocks => ~Fits(c))
  BY <1>6
<1>8. c \in Nat /\ g = c
  <2>1. c \in Nat /\ 0 \in Int /\ c - 1 \in Int
    OBVIOUS
  <2>2. Cardinality(0..(c - 1)) = IF 0 > c - 1 THEN 0 ELSE c - 1 - 0 + 1
    BY <2>1, FS_Interval
  <2>3. g = Cardinality(0..(c - 1))
    BY <1>5, <1>7
  <2> HIDE DEF g, S, Fits
  <2> QED BY <2>1, <2>2, <2>3
<1> HIDE DEF S, T, g
<1>9. c # 0 => k + (c - 1) * samplesPerFft + samplesPerFft < SampleSize
  <2> SUFFICES ASSUME c # 0 PROVE k + (c - 1) * samplesPerFft + samplesPerFft < SampleSize
    OBVIOUS
  <2>1. c - 1 \in S /\ c - 1 \in Nat
    BY <1>7, <1>8
  <2> QED BY <2>1, <1>3 DEF S
<1>10. c # 0 => (c - 1) * samplesPerFft + samplesPerFft = c * samplesPerFft
  <2> SUFFICES ASSUME c # 0 PROVE (c - 1) * samplesPerFft + samplesPerFft = c * samplesPerFft
    OBVIOUS
  <2>1. c - 1 \in Nat /\ (c - 1) + 1 = c
    BY <1>8
  <2> QED BY <2>1, <1>1, MultiplesApart
<1>11. k + c * samplesPerFft < SampleSize
  <2>1. c # 0 => c - 1 \in Nat
    BY <1>8
  <2>2. c # 0 => (c - 1) * samplesPerFft \in Nat
    BY <2>1, <1>2
  <2>3. 0 * samplesPerFft = 0
    BY <1>1
  <2> QED BY <2>2, <2>3, <1>1, <1>2, <1>8, <1>9, <1>10
<1>12. c # 0 => k + samplesPerFft < SampleSize
  <2>1. c # 0 => c - 1 \in Nat
    BY <1>8
  <2>2. c # 0 => (c - 1) * samplesPerFft \in Nat
    BY <2>1, <1>2
  <2> QED BY <2>2, <1>1, <1>9
<1>13. c # blocks => k + c * samplesPerFft + samplesPerFft >= SampleSize
  <2> SUFFICES ASSUME c # blocks PROVE k + c * samplesPerFft + samplesPerFft >= SampleSize
    OBVIOUS
  <2>1. ~(k + c * samplesPerFft + samplesPerFft < SampleSize)
    BY <1>3, <1>7, <1>8
  <2>2. c * samplesPerFft \in Nat
    BY <1>2, <1>8
  <2> QED BY <2>1, <2>2, <1>1
<1> QED BY <1>2, <1>7, <1>8, <1>11, <1>12, <1>13 DEF g

(* The y-th of the frames that are staged or arrive with a write.          *)
Incoming(st, y) == IF y <= Len(st) THEN st[y] ELSE heard + (y - Len(st)) - 1

(* What write_i16 makes of n frames that were heard in a row: of the staged *)
(* frames st and the accepted ones it uses up whole blocks, stores a sample *)
(* for each Ndown frames of the blocks that find room, and stages the rest. *)
(* Either all frames are accepted and all whole blocks stored, or the count *)
(* has come within a block of the end of the buffer.                       *)
WriteOutcome(k, l, st, rest, n, used, acc) ==
  /\ kin' = l /\ l \in Cell /\ k <= l
  /\ InFrames(l - k) <= used /\ used <= Len(st) + acc
  /\ staged' = rest /\ rest \in Seq(Nat)
  /\ Len(rest) = Len(st) + acc - used
  /\ Len(rest) < BlockFrames
  /\ \A y \in 1..Len(rest) : rest[y] = Incoming(st, used + y)
  /\ d2' = [i \in Cell |-> IF i \in k..(l - 1) THEN Incoming(st, InFrames(i - k) + 1)
                                               ELSE d2[i]]
  /\ \A i \in k..(l - 1) :
       /\ InFrames(i - k) + 1 \in 1..(Len(st) + acc)
       /\ Incoming(st, InFrames(i - k) + 1) \in Nat
  /\ k # l => k + samplesPerFft < SampleSize
  /\ \/ l + samplesPerFft >= SampleSize
     \/ acc = n /\ InFrames(l - k) = used

LEMMA WriteEffect ==
  ASSUME samplesPerFft \in Nat \ {0}, heard \in Nat, kin \in Cell, staged \in Seq(Nat),
         NEW t, NEW n \in Nat \ {0}, WriteI16(t, [i \in 1..n |-> heard + i - 1])
  PROVE  /\ \E l, rest : \E used \in Nat, acc \in 0..n :
              WriteOutcome(KinAtWrite(t), l, StagedAtWrite(t), rest, n, used, acc)
         /\ ns' = SecondInPeriod(t)
         /\ stats'.kinAfter = kin'
         /\ samplesPerFft' = samplesPerFft
<1> DEFINE frames == [i \in 1..n |-> heard + i - 1]
           k == KinAtWrite(t)
           st == StagedAtWrite(t)
           acc == Accepted(t, n)
           all == st \o SubSeq(frames, 1, acc)
           blocks == Len(all) \div BlockFrames
           used == blocks * BlockFrames
           g == StoredBlocks(k, blocks)
           gained == g * samplesPerFft
<1>1. /\ SampleSize \in Nat \ {0} /\ Ndown \in Nat \ {0} /\ samplesPerFft \in Nat \ {0}
      /\ n \in Nat /\ n # 0 /\ heard \in Nat
  BY Units
<1>2. /\ k \in Cell /\ k \in Nat /\ k < SampleSize
      /\ st \in Seq(Nat) /\ Len(st) \in Nat
  BY <1>1 DEF KinAtWrite, StagedAtWrite, Cell
<1>3. /\ acc \in 0..n
      /\ acc # n => acc = InFrames(SampleSize - k)
  <2>1. MonusNat(SampleSize, k) = SampleSize - k
    BY <1>1, <1>2 DEF MonusNat
  <2>2. InFrames(SampleSize - k) \in Nat
    <3>1. SampleSize - k \in Nat
      BY <1>1, <1>2
    <3> QED BY <3>1, Frames
  <2>3. acc = Smaller(n, InFrames(SampleSize - k))
    BY <2>1 DEF Accepted, InFrames
  <2> HIDE DEF acc
  <2> QED BY <2>2, <2>3, <1>1 DEF Smaller
<1>4. /\ Len(frames) = n
      /\ \A i \in 1..acc : frames[i] \in Nat /\ frames[i] = heard + i - 1
  <2> HIDE DEF acc
  <2> QED BY <1>1, <1>3
<1>5. /\ SubSeq(frames, 1, acc) \in Seq(Nat) /\ Len(SubSeq(frames, 1, acc)) = acc
      /\ \A i \in 1..acc : SubSeq(frames, 1, acc)[i] = heard + i - 1
  <2> HIDE DEF acc, frames
  <2>1. 1 \in Int /\ acc \in Int /\ acc - 1 + 1 = acc /\ (acc = 0 \/ 1 <= acc)
    BY <1>3
  <2>2. /\ SubSeq(frames, 1, acc) \in Seq(Nat)
        /\ Len(SubSeq(frames, 1, acc)) = IF 1 <= acc THEN acc - 1 + 1 ELSE 0
        /\ \A i \in 1..(acc - 1 + 1) : SubSeq(frames, 1, acc)[i] = frames[1 + i - 1]
    BY <2>1, <1>4, SubSeqProperties
  <2>3. \A i \in 1..acc : 1 + i - 1 = i
    BY <2>1
  <2> QED BY <2>1, <2>2, <2>3, <1>4
<1>6. /\ all \in Seq(Nat) /\ Len(all) = Len(st) + acc
      /\ \A y \in 1..Len(all) : all[y] = Incoming(st, y) /\ all[y] \in Nat
  <2> HIDE DEF acc, frames, st
  <2>1. /\ all \in Seq(Nat) /\ Len(all) = Len(st) + acc
        /\ \A y \in 1..(Len(st) + acc) :
             all[y] = IF y <= Len(st) THEN st[y] ELSE SubSeq(frames, 1, acc)[y - Len(st)]
    BY <1>2, <1>5, ConcatProperties
  <2> HIDE DEF all
  <2>2. ASSUME NEW y \in 1..Len(all) PROVE all[y] = Incoming(st, y) /\ all[y] \in Nat
    <3>1. y \in 1..(Len(st) + acc) /\ y \in Nat
      BY <2>1, <2>2, <1>2, <1>3
    <3>2. all[y] \in Nat
      BY <2>1, ElementOfSeq
    <3>3. CASE y <= Len(st)
      BY <2>1, <3>1, <3>2, <3>3 DEF Incoming
    <3>4. CASE ~(y <= Len(st))
      <4>1. y - Len(st) \in 1..acc
        BY <3>1, <3>4, <1>2, <1>3
      <4>2. all[y] = heard + (y - Len(st)) - 1
        BY <4>1, <3>1, <3>4, <2>1, <1>5
      <4> QED BY <4>2, <3>2, <3>4 DEF Incoming
    <3> QED BY <3>3, <3>4
  <2> QED BY <2>1, <2>2
<1>7. BlockFrames \in Nat \ {0} /\ BlockFrames = InFrames(samplesPerFft)
  <2>1. \A a, b \in Nat \ {0} : a * b \in Nat \ {0}
    BY SMTT(30)
  <2> QED BY <2>1, <1>1 DEF BlockFrames, InFrames
<1>8. /\ blocks \in Nat /\ used \in Nat /\ used <= Len(all) /\ Len(all) < used + BlockFrames
  <2> HIDE DEF all
  <2>1. Len(all) \in Nat
    BY <1>2, <1>3, <1>6
  <2> QED BY <2>1, <1>7, MultipleBelow, DivMod
<1>9. /\ g \in 0..blocks /\ gained \in Nat /\ k + gained < SampleSize
      /\ g # blocks => k + gained + samplesPerFft >= SampleSize
      /\ g # 0 => k + samplesPerFft < SampleSize
  BY <1>1, <1>2, <1>8, StoredBlocksFill
<1>10. InFrames(gained) = g * BlockFrames /\ InFrames(gained) <= used
       /\ InFrames(gained) \in Nat
  <2> HIDE DEF g, blocks
  <2>1. g \in Nat /\ g \in Int /\ samplesPerFft \in Int /\ Ndown \in Int
    BY <1>1, <1>8, <1>9
  <2>2. g * (samplesPerFft * Ndown) = (g * samplesPerFft) * Ndown
    BY <2>1, Products
  <2>3. \A a, b \in Nat : a <= b => a * BlockFrames <= b * BlockFrames
    BY <1>7, SMTT(30)
  <2> QED BY <2>1, <2>2, <2>3, <1>7, <1>8, <1>9, Frames DEF InFrames, BlockFrames
<1>11. PICK l, rest : /\ kin' = l /\ l = k + gained
                      /\ staged' = rest
                      /\ rest = SubSeq(all, blocks * BlockFrames + 1, Len(all))
                      /\ d2' = [i \in 0..(SampleSize - 1) |->
                                  IF i \in k..(k + gained - 1)
                                    THEN all[(i - k) * Ndown + 1] ELSE d2[i]]
                      /\ ns' = SecondInPeriod(t)
                      /\ stats'.kinAfter = l
                      /\ samplesPerFft' = samplesPerFft
  <2>1. Len(frames) = n
    BY <1>4
  <2>2. /\ kin' = k + gained
        /\ staged' = SubSeq(all, blocks * BlockFrames + 1, Len(all))
        /\ d2' = [i \in 0..(SampleSize - 1) |->
                    IF i \in k..(k + gained - 1) THEN all[(i - k) * Ndown + 1] ELSE d2[i]]
        /\ ns' = SecondInPeriod(t)
        /\ stats' = [framesIn |-> Len(frames), framesAccepted |-> acc,
                     framesDropped |-> Len(frames) - acc, blocksWritten |-> blocks,
                     kinAfter |-> k + gained, secondInPeriod |-> SecondInPeriod(t)]
        /\ samplesPerFft' = samplesPerFft
    BY <2>1 DEF WriteI16
  <2> HIDE DEF frames, k, st, acc, all, blocks, g, gained
  <2> QED BY <2>2
<1> HIDE DEF frames, k, st, acc, all, blocks, g, gained
<1>13. l \in Cell /\ k <= l /\ l - k = gained
  BY <1>1, <1>2, <1>9, <1>11 DEF Cell
<1>14. /\ rest \in Seq(Nat)
       /\ Len(rest) = Len(st) + acc - used
       /\ Len(rest) < BlockFrames
       /\ \A y \in 1..Len(rest) : rest[y] = Incoming(st, used + y)
  <2> HIDE DEF used
  <2> DEFINE m == used + 1
             e == Len(all)
  <2>1. m \in Nat /\ m \in Int /\ e \in Nat /\ e \in Int /\ m >= 1 /\ m <= e + 1
    BY <1>2, <1>3, <1>6, <1>8
  <2>2. \A i \in m..e : all[i] \in Nat
    BY <2>1, <1>6
  <2>3. rest = SubSeq(all, m, e)
    BY <1>11 DEF used
  <2> HIDE DEF m
  <2>4. /\ rest \in Seq(Nat) /\ Len(rest) = IF m <= e THEN e - m + 1 ELSE 0
        /\ \A i \in 1..(e - m + 1) : rest[i] = all[m + i - 1]
    BY <2>1, <2>2, <2>3, SubSeqProperties
  <2> HIDE DEF e
  <2>5. Len(rest) = e - used /\ e - m + 1 = e - used /\ e = Len(st) + acc
    <3>1. e = Len(st) + acc
      BY <1>6 DEF e
    <3>2. used \in Nat /\ m = used + 1 /\ e - m + 1 = e - used
      BY <1>8, <2>1 DEF m
    <3>3. m <= e => Len(rest) = e - m + 1
      BY <2>4
    <3>4. ~(m <= e) => Len(rest) = 0 /\ e - m + 1 = 0
      BY <2>1, <2>4
    <3> QED BY <3>1, <3>2, <3>3, <3>4
  <2>6. ASSUME NEW y \in 1..Len(rest) PROVE rest[y] = Incoming(st, used + y)
    <3>1. y \in 1..(e - m + 1) /\ m + y - 1 = used + y /\ used + y \in 1..e
      BY <2>1, <2>5, <2>6, <1>8 DEF m
    <3>2. rest[y] = all[used + y]
      BY <3>1, <2>4
    <3> QED BY <3>1, <3>2, <1>6 DEF e
  <2>7. Len(rest) < BlockFrames
    BY <2>1, <2>5, <1>7, <1>8 DEF e
  <2>8. rest \in Seq(Nat) /\ Len(rest) = Len(st) + acc - used
    BY <2>4, <2>5, <1>2, <1>3, <1>8
  <2> QED BY <2>6, <2>7, <2>8
<1>15. \A i \in k..(l - 1) :
         /\ InFrames(i - k) + 1 \in 1..(Len(st) + acc)
         /\ all[InFrames(i - k) + 1] = Incoming(st, InFrames(i - k) + 1)
         /\ Incoming(st, InFrames(i - k) + 1) \in Nat
  <2> SUFFICES ASSUME NEW i, i \in k..(l - 1)
               PROVE  /\ InFrames(i - k) + 1 \in 1..(Len(st) + acc)
                      /\ all[InFrames(i - k) + 1] = Incoming(st, InFrames(i - k) + 1)
                      /\ Incoming(st, InFrames(i - k) + 1) \in Nat
    OBVIOUS
  <2> HIDE DEF used
  <2>1. i - k \in Nat /\ i - k < gained /\ i - k \in Int /\ gained \in Int
    <3>0. l \in Nat /\ k \in Nat
      BY <1>1, <1>2, <1>13 DEF Cell
    <3>1. i \in Nat /\ k <= i /\ i < l
      BY <3>0
    <3>2. l - k = gained /\ gained \in Nat
      BY <1>9, <1>13
    <3> QED BY <3>0, <3>1, <3>2
  <2>2. InFrames(i - k) \in Nat /\ InFrames(i - k) + Ndown <= InFrames(gained)
    BY <2>1, Frames
  <2>3. InFrames(i - k) + 1 <= Len(st) + acc
    BY <2>2, <1>1, <1>2, <1>3, <1>6, <1>8, <1>10
  <2>4. Len(st) + acc \in Nat
    BY <1>2, <1>3
  <2>5. InFrames(i - k) + 1 \in 1..(Len(st) + acc)
    BY <2>2, <2>3, <2>4
  <2> QED BY <2>5, <1>6
<1>16. d2' = [i \in Cell |-> IF i \in k..(l - 1) THEN Incoming(st, InFrames(i - k) + 1)
                                                   ELSE d2[i]]
  <2>1. \A i \in k..(l - 1) : all[(i - k) * Ndown + 1] = Incoming(st, InFrames(i - k) + 1)
    <3> SUFFICES ASSUME NEW i, i \in k..(l - 1)
                 PROVE  all[(i - k) * Ndown + 1] = Incoming(st, InFrames(i - k) + 1)
      OBVIOUS
    <3>1. all[InFrames(i - k) + 1] = Incoming(st, InFrames(i - k) + 1)
      BY <1>15
    <3>2. InFrames(i - k) = (i - k) * Ndown
      BY DEF InFrames
    <3> QED BY <3>1, <3>2
  <2>2. d2' = [i \in Cell |-> IF i \in k..(l - 1) THEN all[(i - k) * Ndown + 1] ELSE d2[i]]
    <3>1. l = k + gained
      BY <1>11
    <3>2. d2' = [i \in Cell |-> IF i \in k..(k + gained - 1) THEN all[(i - k) * Ndown + 1]
                                                           ELSE d2[i]]
      BY <1>11 DEF Cell
    <3>3. k..(k + gained - 1) = k..(l - 1)
      BY <3>1, <1>1, <1>2, <1>9
    <3> HIDE DEF gained
    <3> QED BY <3>2, <3>3
  <2>3. ASSUME NEW i \in Cell
        PROVE  (IF i \in k..(l - 1) THEN all[(i - k) * Ndown + 1] ELSE d2[i])
                 = IF i \in k..(l - 1) THEN Incoming(st, InFrames(i - k) + 1) ELSE d2[i]
    BY <2>1
  <2> QED BY <2>2, <2>3
<1>17. k # l => k + samplesPerFft < SampleSize
  <2>1. g = 0 => gained = 0
    BY <1>1 DEF gained
  <2> QED BY <2>1, <1>2, <1>9, <1>11
<1>18. \/ l + samplesPerFft >= SampleSize
       \/ acc = n /\ InFrames(l - k) = used
  <2>1. CASE g # blocks
    BY <2>1, <1>9, <1>11
  <2>2. CASE g = blocks
    <3>1. InFrames(l - k) = used
      BY <2>2, <1>10, <1>13
    <3>2. CASE acc = n
      BY <3>1, <3>2
    <3>3. CASE acc # n
      <4> HIDE DEF used
      <4>1. acc = InFrames(SampleSize - k)
        BY <3>3, <1>3
      <4>2. InFrames(SampleSize - k) < InFrames(gained) + InFrames(samplesPerFft)
        <5>1. /\ acc <= Len(all) /\ Len(all) < used + BlockFrames
              /\ acc \in Int /\ used \in Int /\ Len(all) \in Int
          <6>1. Len(st) \in Nat /\ acc \in Nat /\ Len(all) = Len(st) + acc
            BY <1>2, <1>3, <1>6
          <6> QED BY <6>1, <1>8
        <5>2. used = InFrames(gained) /\ BlockFrames = InFrames(samplesPerFft) /\ BlockFrames \in Nat
          BY <3>1, <1>7, <1>13
        <5> DEFINE G == InFrames(gained)
                   R == InFrames(SampleSize - k)
                   F == InFrames(samplesPerFft)
                   N == Len(all)
        <5>3. /\ acc <= N /\ N < used + BlockFrames /\ acc \in Int /\ used \in Int /\ N \in Int
              /\ used = G /\ BlockFrames = F /\ BlockFrames \in Nat /\ acc = R
          BY <4>1, <5>1, <5>2
        <5> HIDE DEF G, R, F, N, BlockFrames
        <5>4. R < G + F
          BY <5>3
        <5> QED BY <5>4 DEF R, G, F
      <4>3. /\ SampleSize - k \in Int /\ gained + samplesPerFft \in Int
            /\ gained \in Int /\ samplesPerFft \in Int
        BY <1>1, <1>2, <1>9
      <4>4. InFrames(SampleSize - k) < InFrames(gained + samplesPerFft)
        BY <4>2, <4>3, Frames
      <4>5. ~(gained + samplesPerFft <= SampleSize - k)
        <5>1. gained + samplesPerFft <= SampleSize - k =>
                InFrames(gained + samplesPerFft) <= InFrames(SampleSize - k)
          BY <4>3, Frames
        <5>2. InFrames(SampleSize - k) \in Int /\ InFrames(gained + samplesPerFft) \in Int
          BY <4>3, Frames
        <5> QED BY <5>1, <5>2, <4>4
      <4> QED BY <4>5, <1>1, <1>2, <1>9, <1>11
    <3> QED BY <3>2, <3>3
  <2> QED BY <2>1, <2>2
<1>19. WriteOutcome(k, l, st, rest, n, used, acc)
  <2>1. InFrames(l - k) <= used /\ used <= Len(st) + acc
    BY <1>6, <1>8, <1>10, <1>13
  <2> HIDE DEF used
  <2> QED BY <2>1, <1>11, <1>13, <1>14, <1>15, <1>16, <1>17, <1>18 DEF WriteOutcome
<1> QED BY <1>3, <1>8, <1>11, <1>19 DEF k, st

-----------------------------------------------------------------------------
(* Types.                                                                  *)

TypeInv ==
  /\ samplesPerFft \in BlockSizes
  /\ d2 \in [Cell -> Nat \cup {Blank}]
  /\ kin \in Cell
  /\ staged \in Seq(Nat) /\ Len(staged) < BlockFrames
  /\ ns \in Nat
  /\ now \in Nat /\ heard \in Nat /\ heard <= now /\ now - heard <= MaxLag
  /\ slip \in Int /\ WallClock \in Nat
  /\ astray \in BOOLEAN
  /\ began \in Nat /\ began <= heard
  /\ lost \in Nat
  /\ troubles \in Nat /\ (troubles = 0 => slip = 0 /\ ~astray)
  /\ prev \in Cell \cup {NotWriting}
  /\ polled \in Cell \cup {Scheduler!Unpolled}
  /\ stats.kinAfter \in Cell

(* The block size in use, and the frames of a block.                       *)
LEMMA BlockBounds ==
  ASSUME NEW b \in BlockSizes
  PROVE  /\ b \in Nat \ {0} /\ InFrames(b) \in Nat \ {0} /\ b * Ndown = InFrames(b)
         /\ (InFrames(b) - 1) + MaxLost + (FramesPerMs - 1) + 2 * MaxLag <= InFrames(MaxStep)
<1>1. b \in Nat \ {0} /\ Ndown \in Nat \ {0}
  BY DetectorAssumption
<1>2. \A a, c \in Nat \ {0} : a * c \in Nat \ {0}
  BY SMTT(30)
<1> QED BY <1>1, <1>2, AudioKeepsUp DEF InFrames

(* A step of write_i16's caller.                                           *)
LEMMA WriteStep ==
  ASSUME TypeInv, Write
  PROVE  /\ \E n \in 1..(now - heard), l \in Cell, rest \in Seq(Nat) :
              \E used \in Nat, acc \in 0..n :
              /\ WriteOutcome(KinAtWrite(WallClock), l, StagedAtWrite(WallClock), rest,
                              n, used, acc)
              /\ heard' = heard + n
         /\ ns' = SecondInPeriod(WallClock)
         /\ stats'.kinAfter = kin'
         /\ PeriodBegins \/ PeriodGoesOn(0)
         /\ prev = NotWriting /\ prev' = kin
         /\ astray' = (astray /\ ~(Wrapped(WallClock) /\ SecondInPeriod(WallClock) = 0))
         /\ UNCHANGED <<samplesPerFft, now, slip, troubles, cursor, window, polled>>
<1>1. PICK n \in 1..(now - heard) :
        /\ WriteI16(WallClock, [i \in 1..n |-> heard + i - 1])
        /\ heard' = heard + n
  BY DEF Write
<1>2. /\ samplesPerFft \in Nat \ {0} /\ heard \in Nat /\ kin \in Cell /\ staged \in Seq(Nat)
      /\ n \in Nat \ {0}
  BY BlockBounds DEF TypeInv
<1>3. /\ \E l, rest : \E used \in Nat, acc \in 0..n :
           WriteOutcome(KinAtWrite(WallClock), l, StagedAtWrite(WallClock), rest, n, used, acc)
      /\ ns' = SecondInPeriod(WallClock)
      /\ stats'.kinAfter = kin'
      /\ samplesPerFft' = samplesPerFft
  BY <1>1, <1>2, WriteEffect
<1>4. /\ PeriodBegins \/ PeriodGoesOn(0)
      /\ prev = NotWriting /\ prev' = kin
      /\ astray' = (astray /\ ~(Wrapped(WallClock) /\ SecondInPeriod(WallClock) = 0))
      /\ UNCHANGED <<now, slip, troubles, cursor, window, polled>>
  BY DEF Write, pollerVars
<1>5. \E l \in Cell, rest \in Seq(Nat) : \E used \in Nat, acc \in 0..n :
        WriteOutcome(KinAtWrite(WallClock), l, StagedAtWrite(WallClock), rest, n, used, acc)
  <2>1. PICK l, rest : \E used \in Nat, acc \in 0..n :
          WriteOutcome(KinAtWrite(WallClock), l, StagedAtWrite(WallClock), rest, n, used, acc)
    BY <1>3
  <2>2. l \in Cell /\ rest \in Seq(Nat)
    BY <2>1 DEF WriteOutcome
  <2> QED BY <2>1, <2>2
<1> QED BY <1>1, <1>3, <1>4, <1>5

(* A step of a caller who moves the count to where the clock is.           *)
LEMMA AlignStep ==
  ASSUME TypeInv, ClearDetector \/ ResetPosition
  PROVE  /\ kin' = ClockKin(WallClock) /\ ClockKin(WallClock) \in Cell
         /\ staged' = <<>> /\ ns' = SecondInPeriod(WallClock)
         /\ d2' = BlankBuffer \/ d2' = Rotated(d2, ClockKin(WallClock) - kin)
         /\ PeriodBegins \/ PeriodGoesOn(Len(staged))
         /\ slip = 0 /\ lost' \in 0..MaxLost
         /\ troubles' = troubles + 1
         /\ UNCHANGED <<samplesPerFft, stats, now, slip, astray, heard, prev, cursor, window, polled>>
<1>1. ClockKin(WallClock) \in Cell
  BY ClockCount DEF TypeInv
<1>2. Align
  BY DEF ClearDetector, ResetPosition
<1> QED BY <1>1, <1>2 DEF ClearDetector, ResetPosition, Clear, ResetBufferPosition,
              AlignToClock, Align, Trouble, Disturb, clockVars, pollerVars

(* Where a period begins or goes on, its first frame and its losses are    *)
(* frames that were heard.                                                 *)
LEMMA PeriodTypes ==
  ASSUME TypeInv, NEW missed \in Nat, PeriodBegins \/ PeriodGoesOn(missed)
  PROVE  began' \in Nat /\ began' <= heard /\ lost' \in Nat
<1>1. /\ heard \in Nat /\ began \in Nat /\ began <= heard /\ lost \in Nat
      /\ slip \in Int /\ PeriodStart(WallClock) \in Nat
  BY ClockBounds DEF TypeInv
<1>2. CASE PeriodBegins
  <2>1. began' = heard /\ lost' = MonusNat(heard + slip, PeriodStart(WallClock))
    BY <1>2 DEF PeriodBegins
  <2> QED BY <2>1, <1>1 DEF MonusNat
<1>3. CASE PeriodGoesOn(missed)
  BY <1>1, <1>3 DEF PeriodGoesOn
<1> QED BY <1>2, <1>3

(* The empty staging block, and a blank or rotated buffer.                 *)
LEMMA EmptyBlock ==
  ASSUME samplesPerFft \in BlockSizes
  PROVE  <<>> \in Seq(Nat) /\ Len(<<>>) = 0 /\ 0 < BlockFrames
<1>1. InFrames(samplesPerFft) \in Nat \ {0}
  BY BlockBounds
<1> QED BY <1>1, EmptySeq DEF BlockFrames, InFrames

LEMMA BufferTypes ==
  ASSUME d2 \in [Cell -> Nat \cup {Blank}], kin \in Cell, NEW l \in Cell
  PROVE  /\ BlankBuffer \in [Cell -> Nat \cup {Blank}]
         /\ Rotated(d2, l - kin) \in [Cell -> Nat \cup {Blank}]
<1>1. BlankBuffer \in [Cell -> Nat \cup {Blank}]
  BY DEF BlankBuffer, Cell
<1>2. \A i \in Cell : Rotated(d2, l - kin)[i] \in Nat \cup {Blank}
  <2> SUFFICES ASSUME NEW i \in Cell PROVE Rotated(d2, l - kin)[i] \in Nat \cup {Blank}
    OBVIOUS
  <2>1. PICK r \in Cell : Rotated(d2, l - kin)[i] = d2[r]
    BY RotationKeepsAge
  <2> QED BY <2>1
<1>3. Rotated(d2, l - kin) = [i \in Cell |-> Rotated(d2, l - kin)[i]]
  BY DEF Rotated, Cell
<1> QED BY <1>1, <1>2, <1>3

LEMMA InitType == Init => TypeInv
<1> SUFFICES ASSUME Init PROVE TypeInv
  OBVIOUS
<1>1. PICK b \in BlockSizes : InitDetector(0, b)
  BY DEF Init
<1>2. /\ now = 0 /\ slip = 0 /\ astray = FALSE /\ heard = 0 /\ began = 0 /\ lost = 0
      /\ troubles = 0 /\ prev = NotWriting /\ polled = Scheduler!Unpolled
  BY DEF Init, Scheduler!Init
<1>3. /\ samplesPerFft = b /\ d2 = BlankBuffer /\ kin = ClockKin(0) /\ staged = <<>>
      /\ ns = SecondInPeriod(0) /\ stats = NoStats
  BY <1>1 DEF InitDetector
<1>4. kin \in Cell /\ ns \in Nat /\ 0 \in Cell
  BY <1>3, ClockCount, ClockBounds, Units DEF Cell
<1>5. d2 \in [Cell -> Nat \cup {Blank}]
  BY <1>3 DEF BlankBuffer, Cell
<1>6. staged \in Seq(Nat) /\ Len(staged) < BlockFrames
  BY <1>3, EmptyBlock
<1>7. stats.kinAfter \in Cell
  BY <1>3, <1>4 DEF NoStats
<1>8. WallClock \in Nat /\ now - heard <= MaxLag
  BY <1>2, PipelineAssumption DEF WallClock
<1>9. prev \in Cell \cup {NotWriting} /\ polled \in Cell \cup {Scheduler!Unpolled}
  BY <1>2
<1>10. samplesPerFft \in BlockSizes
  BY <1>3
<1>11. /\ now \in Nat /\ heard \in Nat /\ heard <= now /\ slip \in Int
       /\ began \in Nat /\ began <= heard /\ lost \in Nat
  <2>1. now = 0 /\ heard = 0 /\ slip = 0 /\ began = 0 /\ lost = 0
    BY <1>2
  <2> QED BY ONLY <2>1
<1>13. astray \in BOOLEAN
  BY <1>2
<1>12. troubles \in Nat /\ (troubles = 0 => slip = 0 /\ ~astray)
  BY <1>2
<1> QED BY ONLY <1>4, <1>5, <1>6, <1>7, <1>8, <1>9, <1>10, <1>11, <1>12, <1>13 DEF TypeInv

LEMMA NextType == TypeInv /\ [Next]_vars => TypeInv'
<1> SUFFICES ASSUME TypeInv, [Next]_vars PROVE TypeInv'
  OBVIOUS
<1>0. MaxLag \in Nat /\ MaxTroubles \in Nat
  BY PipelineAssumption
<1>1. CASE Tick
  <2>1. /\ now' = now + 1 /\ now - heard < MaxLag
        /\ UNCHANGED <<samplesPerFft, d2, kin, staged, ns, stats, slip, astray, heard, began, lost,
                       troubles, prev, polled>>
    BY <1>1 DEF Tick, detectorVars, clockVars, periodVars, pollerVars
  <2>2. now' \in Nat /\ heard <= now' /\ now' - heard <= MaxLag /\ now' + slip \in Nat
    BY <2>1, <1>0 DEF TypeInv, WallClock
  <2> QED BY <2>1, <2>2 DEF TypeInv, WallClock, BlockFrames
<1>2. CASE Write
  <2>1. PICK n \in 1..(now - heard), l \in Cell, rest \in Seq(Nat) :
           \E used \in Nat, acc \in 0..n :
           /\ WriteOutcome(KinAtWrite(WallClock), l, StagedAtWrite(WallClock), rest, n, used, acc)
           /\ heard' = heard + n
    BY <1>2, WriteStep
  <2>2. /\ ns' = SecondInPeriod(WallClock) /\ stats'.kinAfter = kin'
        /\ PeriodBegins \/ PeriodGoesOn(0)
        /\ prev' = kin
        /\ astray' = (astray /\ ~(Wrapped(WallClock) /\ SecondInPeriod(WallClock) = 0))
        /\ UNCHANGED <<samplesPerFft, now, slip, troubles, cursor, window, polled>>
    BY <1>2, WriteStep
  <2>3. PICK used \in Nat, acc \in 0..n :
           WriteOutcome(KinAtWrite(WallClock), l, StagedAtWrite(WallClock), rest, n, used, acc)
    BY <2>1
  <2> DEFINE k == KinAtWrite(WallClock)
             st == StagedAtWrite(WallClock)
  <2>4. /\ kin' = l /\ l \in Cell /\ staged' = rest /\ rest \in Seq(Nat)
        /\ Len(rest) < BlockFrames
    BY <2>3 DEF WriteOutcome
  <2>5. d2' \in [Cell -> Nat \cup {Blank}]
    <3> DEFINE new(i) == IF i \in k..(l - 1) THEN Incoming(st, InFrames(i - k) + 1) ELSE d2[i]
    <3>1. d2' = [i \in Cell |-> new(i)]
      BY <2>3 DEF WriteOutcome
    <3>2. \A i \in k..(l - 1) : Incoming(st, InFrames(i - k) + 1) \in Nat
      BY <2>3 DEF WriteOutcome
    <3>3. d2 \in [Cell -> Nat \cup {Blank}]
      BY DEF TypeInv
    <3>4. \A i \in Cell : new(i) \in Nat \cup {Blank}
      <4> HIDE DEF k, st
      <4> QED BY <3>2, <3>3
    <3> HIDE DEF new
    <3> QED BY <3>1, <3>4
  <2>6. /\ heard + n \in Nat /\ heard + n <= now /\ now - (heard + n) <= MaxLag
        /\ heard <= heard + n
    BY <1>0 DEF TypeInv
  <2>7. began' \in Nat /\ began' <= heard + n /\ lost' \in Nat
    <3>1. began' \in Nat /\ began' <= heard /\ lost' \in Nat
      BY <2>2, PeriodTypes, 0 \in Nat
    <3> QED BY <3>1, <2>6 DEF TypeInv
  <2>8. ns' \in Nat
    BY <2>2, ClockBounds DEF TypeInv
  <2>9. astray' \in BOOLEAN /\ (astray' => astray)
    BY <2>2 DEF TypeInv
  <2>10. heard' = heard + n /\ BlockFrames' = BlockFrames
    BY <2>1, <2>2 DEF BlockFrames
  <2> QED BY <2>2, <2>4, <2>5, <2>6, <2>7, <2>8, <2>9, <2>10 DEF TypeInv, WallClock
<1>3. CASE Poll
  <2>1. /\ polled' = stats.kinAfter /\ prev' = NotWriting
        /\ UNCHANGED <<samplesPerFft, d2, kin, staged, ns, stats, now, slip, astray, heard, began,
                       lost, troubles>>
    BY <1>3 DEF Poll, detectorVars, clockVars, periodVars
  <2> QED BY <2>1 DEF TypeInv, WallClock, BlockFrames
<1>4. CASE LoseFrame
  <2>1. /\ heard < now /\ heard' = heard + 1 /\ lost' \in 0..MaxLost /\ troubles' = troubles + 1
        /\ UNCHANGED <<samplesPerFft, d2, kin, staged, ns, stats, now, slip, astray, began, prev,
                       polled>>
    BY <1>4 DEF LoseFrame, Trouble, Disturb, detectorVars, clockVars, pollerVars
  <2>2. /\ heard + 1 \in Nat /\ heard + 1 <= now /\ now - (heard + 1) <= MaxLag
        /\ began <= heard + 1
    BY <2>1, <1>0 DEF TypeInv
  <2>3. lost' \in Nat /\ troubles' \in Nat /\ troubles' # 0
    BY <2>1, PipelineAssumption DEF TypeInv
  <2> QED BY <2>1, <2>2, <2>3 DEF TypeInv, WallClock, BlockFrames
<1>5. CASE SetClock
  <2>1. /\ slip' \in {d \in Slips : now + d >= 0} /\ astray' = TRUE /\ troubles' = troubles + 1
        /\ UNCHANGED <<samplesPerFft, d2, kin, staged, ns, stats, now, heard, began, lost, prev,
                       polled>>
    BY <1>5 DEF SetClock, Disturb, detectorVars, periodVars, pollerVars
  <2>2. PICK d : slip' = d /\ d \in Int /\ now + d \in Nat
    <3>1. PICK d : slip' = d
      OBVIOUS
    <3>2. d \in Slips /\ now + d >= 0
      BY <2>1, <3>1
    <3>3. d \in Int /\ now \in Nat
      BY <3>2, PipelineAssumption DEF TypeInv
    <3> QED BY <3>1, <3>2, <3>3
  <2>3. troubles' \in Nat /\ troubles' # 0
    BY <2>1 DEF TypeInv
  <2> QED BY <2>1, <2>2, <2>3 DEF TypeInv, WallClock, BlockFrames
<1>6. CASE ClearDetector \/ ResetPosition
  <2>1. /\ kin' = ClockKin(WallClock) /\ ClockKin(WallClock) \in Cell
        /\ staged' = <<>> /\ ns' = SecondInPeriod(WallClock)
        /\ d2' = BlankBuffer \/ d2' = Rotated(d2, ClockKin(WallClock) - kin)
        /\ PeriodBegins \/ PeriodGoesOn(Len(staged))
        /\ troubles' = troubles + 1
        /\ UNCHANGED <<samplesPerFft, stats, now, slip, astray, heard, prev, polled>>
    BY <1>6, AlignStep
  <2>2. began' \in Nat /\ began' <= heard /\ lost' \in Nat
    <3>1. Len(staged) \in Nat
      BY DEF TypeInv
    <3> QED BY <3>1, <2>1, PeriodTypes
  <2>3. ns' \in Nat
    BY <2>1, ClockBounds DEF TypeInv
  <2>4. d2' \in [Cell -> Nat \cup {Blank}]
    BY <2>1, BufferTypes DEF TypeInv
  <2>5. staged' \in Seq(Nat) /\ Len(staged') < BlockFrames
    BY <2>1, EmptyBlock DEF TypeInv
  <2>6. troubles' \in Nat /\ troubles' # 0
    BY <2>1 DEF TypeInv
  <2>7. BlockFrames' = BlockFrames
    BY <2>1 DEF BlockFrames
  <2> QED BY <2>1, <2>2, <2>3, <2>4, <2>5, <2>6, <2>7 DEF TypeInv, WallClock
<1>7. CASE ResetContent
  <2>1. /\ d2' = BlankBuffer /\ troubles' = troubles + 1
        /\ UNCHANGED <<samplesPerFft, kin, staged, ns, stats, now, slip, astray, heard, began, lost,
                       prev, polled>>
    BY <1>7 DEF ResetContent, ResetBufferContent, Trouble, Disturb, clockVars, periodVars,
                pollerVars
  <2>2. d2' \in [Cell -> Nat \cup {Blank}]
    BY <2>1 DEF BlankBuffer, Cell
  <2>3. troubles' \in Nat /\ troubles' # 0
    BY <2>1 DEF TypeInv
  <2> QED BY <2>1, <2>2, <2>3 DEF TypeInv, WallClock, BlockFrames
<1>8. CASE ChangeBlockSize
  <2>1. PICK b \in BlockSizes : SetBlockSize(b)
    BY <1>8 DEF ChangeBlockSize
  <2>2. /\ samplesPerFft' = b /\ staged' = <<>> /\ lost' \in 0..MaxLost /\ troubles' = troubles + 1
        /\ UNCHANGED <<d2, kin, ns, stats, now, slip, astray, heard, began, prev, polled>>
    BY <1>8, <2>1 DEF ChangeBlockSize, SetBlockSize, Trouble, Disturb, clockVars, pollerVars
  <2>3. staged' \in Seq(Nat) /\ Len(staged') < BlockFrames'
    <3>1. InFrames(b) \in Nat \ {0} /\ InFrames(b) = b * Ndown
      BY BlockBounds
    <3> QED BY <3>1, <2>2, EmptySeq DEF BlockFrames
  <2>4. lost' \in Nat /\ troubles' \in Nat /\ troubles' # 0
    BY <2>2, PipelineAssumption DEF TypeInv
  <2> QED BY <2>2, <2>3, <2>4 DEF TypeInv, WallClock
<1>9. CASE UNCHANGED vars
  BY <1>9 DEF vars, TypeInv, WallClock, BlockFrames
<1> QED BY <1>1, <1>2, <1>3, <1>4, <1>5, <1>6, <1>7, <1>8, <1>9 DEF Next

(* The count stays in the buffer and the staging block below a full block, *)
(* which write_i16 (detector.rs) indexes both by: whatever is written,     *)
(* lost, cleared, reset or resized.                                        *)
THEOREM TypesHold == Spec => []TypeInv
BY InitType, NextType, PTL DEF Spec

-----------------------------------------------------------------------------
(* The order in which the samples were heard.                              *)

CellsHeard(b, h) == \A i \in Cell : b[i] # Blank => b[i] < h

StagedInOrder(b, st, h) ==
  \A y \in 1..Len(st) : /\ st[y] < h
                        /\ \A i \in Cell : b[i] # Blank => b[i] < st[y]
                        /\ \A z \in 1..Len(st) : y < z => st[y] < st[z]

(* A cell that was written later than one of the period was heard later:   *)
(* with the cells counted back from the count k, round the buffer's end.   *)
AgesInOrder(b, k, from) ==
  \A i, j \in Cell :
    b[i] # Blank /\ b[i] >= from /\ b[j] # Blank /\ AgeAt(k, j) < AgeAt(k, i) => b[i] < b[j]

OrderInv == /\ CellsHeard(d2, heard)
            /\ StagedInOrder(d2, staged, heard)
            /\ AgesInOrder(d2, kin, began)

(* Frames that come in follow all that were heard before them.             *)
LEMMA IncomingInOrder ==
  ASSUME TypeInv, NEW st \in Seq(Nat), NEW n \in Nat,
         CellsHeard(d2, heard), StagedInOrder(d2, st, heard),
         NEW y \in 1..(Len(st) + n)
  PROVE  /\ Incoming(st, y) \in Nat /\ Incoming(st, y) < heard + n
         /\ \A i \in Cell : d2[i] # Blank => d2[i] < Incoming(st, y)
         /\ \A z \in 1..(Len(st) + n) : y < z => Incoming(st, y) < Incoming(st, z)
<1>1. /\ heard \in Nat /\ Len(st) \in Nat /\ y \in Nat
      /\ \A i \in Cell : d2[i] # Blank => d2[i] \in Nat
  BY DEF TypeInv
<1>2. \A z \in 1..Len(st) : st[z] \in Nat
  BY ElementOfSeq
<1>3. CASE y <= Len(st)
  <2>1. y \in 1..Len(st) /\ Incoming(st, y) = st[y]
    BY <1>1, <1>3 DEF Incoming
  <2>2. st[y] \in Nat /\ st[y] < heard
    BY <2>1, <1>2 DEF StagedInOrder
  <2>3. ASSUME NEW z \in 1..(Len(st) + n), y < z PROVE Incoming(st, y) < Incoming(st, z)
    <3>1. CASE z <= Len(st)
      <4>1. z \in 1..Len(st) /\ Incoming(st, z) = st[z]
        BY <3>1, <1>1 DEF Incoming
      <4> QED BY <4>1, <2>1, <2>3 DEF StagedInOrder
    <3>2. CASE ~(z <= Len(st))
      <4>1. Incoming(st, z) = heard + (z - Len(st)) - 1
        BY <3>2 DEF Incoming
      <4> QED BY <4>1, <3>2, <2>1, <2>2, <1>1
    <3> QED BY <3>1, <3>2
  <2>4. \A i \in Cell : d2[i] # Blank => d2[i] < st[y]
    BY <2>1 DEF StagedInOrder
  <2> QED BY <2>1, <2>2, <2>3, <2>4, <1>1
<1>4. CASE ~(y <= Len(st))
  <2>1. Incoming(st, y) = heard + (y - Len(st)) - 1
    BY <1>4 DEF Incoming
  <2>2. ASSUME NEW z \in 1..(Len(st) + n), y < z PROVE Incoming(st, y) < Incoming(st, z)
    <3>1. Incoming(st, z) = heard + (z - Len(st)) - 1
      BY <1>1, <1>4, <2>2 DEF Incoming
    <3> QED BY <3>1, <2>1, <2>2, <1>1
  <2>3. /\ heard + (y - Len(st)) - 1 \in Nat /\ heard + (y - Len(st)) - 1 < heard + n
        /\ heard <= heard + (y - Len(st)) - 1
    BY <1>1, <1>4
  <2>4. \A i \in Cell : d2[i] # Blank => d2[i] < Incoming(st, y)
    BY <2>1, <2>3, <1>1 DEF CellsHeard
  <2> QED BY <2>1, <2>2, <2>3, <2>4
<1> QED BY <1>3, <1>4

(* The cells stored grow older by one for each that is stored after them.  *)
LEMMA StoringAges ==
  ASSUME NEW k \in Cell, NEW l \in Cell, k <= l, NEW i \in Cell
  PROVE  IF i \in k..(l - 1) THEN AgeAt(l, i) = l - i
                             ELSE AgeAt(l, i) = AgeAt(k, i) + (l - k)
BY Units DEF AgeAt, Cell

(* The frames that a write stores and stages.                              *)
LEMMA StoredFrame ==
  ASSUME NEW k \in Cell, NEW l, NEW st \in Seq(Nat), NEW rest, NEW n \in Nat,
         NEW used \in Nat, NEW acc \in 0..n, WriteOutcome(k, l, st, rest, n, used, acc)
  PROVE  /\ \A i \in k..(l - 1) : /\ InFrames(i - k) \in Nat
                                  /\ InFrames(i - k) + Ndown <= used
                                  /\ InFrames(i - k) + 1 \in 1..(Len(st) + n)
                                  /\ i \in Cell
                                  /\ d2'[i] = Incoming(st, InFrames(i - k) + 1)
         /\ \A i \in Cell : i \notin k..(l - 1) => d2'[i] = d2[i]
         /\ \A y \in 1..Len(rest) : used + y \in 1..(Len(st) + n)
<1>1. /\ l \in Cell /\ k <= l /\ Len(st) \in Nat /\ Len(rest) \in Nat
      /\ InFrames(l - k) <= used /\ Len(rest) = Len(st) + acc - used
  BY DEF WriteOutcome
<1>2. k \in Nat /\ l \in Nat
  BY <1>1 DEF Cell
<1>3. ASSUME NEW i, i \in k..(l - 1)
      PROVE  /\ InFrames(i - k) \in Nat
             /\ InFrames(i - k) + Ndown <= used
             /\ InFrames(i - k) + 1 \in 1..(Len(st) + n)
             /\ i \in Cell
             /\ d2'[i] = Incoming(st, InFrames(i - k) + 1)
  <2>1. i \in Cell /\ i - k \in Nat /\ i - k < l - k /\ l - k \in Int
    BY <1>1, <1>2, <1>3, Units DEF Cell
  <2>2. InFrames(i - k) \in Nat /\ InFrames(i - k) + Ndown <= InFrames(l - k)
        /\ InFrames(l - k) \in Int
    <3> DEFINE x == i - k
               y == l - k
    <3>1. x \in Nat /\ x < y /\ x \in Int /\ y \in Int
      BY <2>1
    <3> HIDE DEF x, y
    <3>2. InFrames(x) \in Nat /\ InFrames(x) + Ndown <= InFrames(y) /\ InFrames(y) \in Int
      BY <3>1, Frames
    <3> QED BY <3>2 DEF x, y
  <2>3. InFrames(i - k) + 1 \in 1..(Len(st) + acc)
    BY <1>3 DEF WriteOutcome
  <2>4. d2'[i] = Incoming(st, InFrames(i - k) + 1)
    BY <2>1, <1>3 DEF WriteOutcome
  <2> QED BY <2>1, <2>2, <2>3, <2>4, <1>1, Units
<1>4. \A i \in Cell : i \notin k..(l - 1) => d2'[i] = d2[i]
  BY DEF WriteOutcome
<1>5. \A y \in 1..Len(rest) : used + y \in 1..(Len(st) + n)
  BY <1>1
<1> QED BY <1>3, <1>4, <1>5

(* What write_i16 stores and stages is in order, if what it found was.     *)
LEMMA OrderAfterWrite ==
  ASSUME TypeInv, NEW k \in Cell, NEW l, NEW st \in Seq(Nat), NEW rest, NEW n \in Nat,
         NEW used \in Nat, NEW acc \in 0..n, WriteOutcome(k, l, st, rest, n, used, acc),
         NEW from \in Nat, NEW b, d2' = b,
         CellsHeard(d2, heard), StagedInOrder(d2, st, heard), AgesInOrder(d2, k, from)
  PROVE  /\ CellsHeard(b, heard + n)
         /\ StagedInOrder(b, rest, heard + n)
         /\ AgesInOrder(b, l, from)
<1> DEFINE new == k..(l - 1)
           at(i) == InFrames(i - k) + 1
           N == Len(st) + n
<1>1. /\ \A i \in new : /\ i \in Cell /\ InFrames(i - k) \in Nat
                        /\ InFrames(i - k) + Ndown <= used
                        /\ at(i) \in 1..N /\ b[i] = Incoming(st, at(i))
      /\ \A i \in Cell : i \notin new => b[i] = d2[i]
      /\ \A y \in 1..Len(rest) : used + y \in 1..N
  <2>1. /\ \A i \in k..(l - 1) : /\ InFrames(i - k) \in Nat
                                 /\ InFrames(i - k) + Ndown <= used
                                 /\ InFrames(i - k) + 1 \in 1..(Len(st) + n)
                                 /\ i \in Cell
                                 /\ d2'[i] = Incoming(st, InFrames(i - k) + 1)
        /\ \A i \in Cell : i \notin k..(l - 1) => d2'[i] = d2[i]
        /\ \A y \in 1..Len(rest) : used + y \in 1..(Len(st) + n)
    BY StoredFrame
  <2> QED BY <2>1
<1>2. /\ l \in Cell /\ k <= l /\ k \in Nat /\ l \in Nat /\ Len(rest) \in Nat
      /\ \A y \in 1..Len(rest) : rest[y] = Incoming(st, used + y)
      /\ heard \in Nat /\ Ndown \in Nat \ {0}
      /\ \A i \in Cell : d2[i] # Blank => d2[i] \in Nat
  BY Units DEF WriteOutcome, Cell, TypeInv
<1>3. \A y \in 1..N : /\ Incoming(st, y) \in Nat /\ Incoming(st, y) < heard + n
                      /\ \A i \in Cell : d2[i] # Blank => d2[i] < Incoming(st, y)
                      /\ \A z \in 1..N : y < z => Incoming(st, y) < Incoming(st, z)
  BY IncomingInOrder
<1> HIDE DEF new, N
<1>4. CellsHeard(b, heard + n)
  <2> SUFFICES ASSUME NEW i \in Cell, b[i] # Blank PROVE b[i] < heard + n
    BY DEF CellsHeard
  <2>1. CASE i \in new
    <3> HIDE DEF at
    <3> QED BY <2>1, <1>1, <1>3
  <2>2. CASE i \notin new
    <3>1. d2[i] < heard /\ d2[i] \in Nat
      BY <2>2, <1>1, <1>2 DEF CellsHeard
    <3> QED BY <3>1, <2>2, <1>1, <1>2
  <2> QED BY <2>1, <2>2
<1>5. StagedInOrder(b, rest, heard + n)
  <2> SUFFICES ASSUME NEW y \in 1..Len(rest)
               PROVE  /\ rest[y] < heard + n
                      /\ \A i \in Cell : b[i] # Blank => b[i] < rest[y]
                      /\ \A z \in 1..Len(rest) : y < z => rest[y] < rest[z]
    BY DEF StagedInOrder
  <2>1. used + y \in 1..N /\ rest[y] = Incoming(st, used + y)
    BY <1>1, <1>2
  <2>2. ASSUME NEW i \in Cell, b[i] # Blank PROVE b[i] < rest[y]
    <3>1. CASE i \in new
      <4>1. at(i) \in 1..N /\ b[i] = Incoming(st, at(i))
        BY <3>1, <1>1
      <4>2. at(i) < used + y
        BY <3>1, <1>1, <1>2
      <4> HIDE DEF at
      <4> QED BY <4>1, <4>2, <2>1, <1>3
    <3>2. CASE i \notin new
      BY <3>2, <2>1, <2>2, <1>1, <1>3
    <3> QED BY <3>1, <3>2
  <2>3. ASSUME NEW z \in 1..Len(rest), y < z PROVE rest[y] < rest[z]
    <3>1. used + z \in 1..N /\ rest[z] = Incoming(st, used + z)
      BY <1>1, <1>2
    <3>2. used + y < used + z
      BY <2>3, <1>2
    <3> QED BY <3>1, <3>2, <2>1, <1>3
  <2> QED BY <2>1, <2>2, <2>3, <1>3
<1>6. AgesInOrder(b, l, from)
  <2> SUFFICES ASSUME NEW i \in Cell, NEW j \in Cell, b[i] # Blank, b[i] >= from, b[j] # Blank,
                      AgeAt(l, j) < AgeAt(l, i)
               PROVE  b[i] < b[j]
    BY DEF AgesInOrder
  <2>1. /\ IF i \in new THEN AgeAt(l, i) = l - i ELSE AgeAt(l, i) = AgeAt(k, i) + (l - k)
        /\ IF j \in new THEN AgeAt(l, j) = l - j ELSE AgeAt(l, j) = AgeAt(k, j) + (l - k)
    BY <1>2, StoringAges DEF new
  <2>2. AgeAt(k, i) \in Nat /\ AgeAt(k, j) \in Nat /\ AgeAt(k, j) >= 1
    <3>1. AgeAt(k, i) \in 1..SampleSize /\ AgeAt(k, j) \in 1..SampleSize
      BY AgeBounds
    <3> QED BY <3>1
  <2>3. CASE i \in new /\ j \in new
    <3>1. i < j /\ i \in Int /\ j \in Int
      BY <2>1, <2>3, <1>2 DEF Cell
    <3>2. i - k \in Int /\ j - k \in Int /\ i - k < j - k
      BY <3>1, <1>2
    <3>3. InFrames(i - k) + Ndown <= InFrames(j - k)
      BY <3>2, Frames
    <3>4. at(i) < at(j)
      <4>1. InFrames(i - k) \in Nat /\ InFrames(j - k) \in Nat
        BY <2>3, <1>1
      <4>2. \A x, y \in Nat : x + Ndown <= y => x + 1 < y + 1
        BY <1>2
      <4> QED BY <4>1, <4>2, <3>3
    <3>5. at(i) \in 1..N /\ at(j) \in 1..N /\ b[i] = Incoming(st, at(i)) /\ b[j] = Incoming(st, at(j))
      BY <2>3, <1>1
    <3> HIDE DEF at
    <3> QED BY <3>4, <3>5, <1>3
  <2>4. CASE i \in new /\ j \notin new
    <3>1. i \in k..(l - 1) /\ AgeAt(l, i) = l - i /\ AgeAt(l, j) = AgeAt(k, j) + (l - k)
      BY <2>1, <2>4 DEF new
    <3> QED BY <3>1, <2>2, <1>2
  <2>5. CASE i \notin new /\ j \in new
    <3>1. b[i] = d2[i] /\ b[j] = Incoming(st, at(j)) /\ at(j) \in 1..N
      BY <2>5, <1>1
    <3> HIDE DEF at
    <3> QED BY <3>1, <1>3
  <2>6. CASE i \notin new /\ j \notin new
    <3>1. b[i] = d2[i] /\ b[j] = d2[j]
      BY <2>6, <1>1
    <3>2. AgeAt(k, j) < AgeAt(k, i)
      BY <2>1, <2>2, <2>6, <1>2
    <3> QED BY <3>1, <3>2 DEF AgesInOrder
  <2> QED BY <2>3, <2>4, <2>5, <2>6
<1> QED BY <1>4, <1>5, <1>6

(* What a write finds is in order, where a period begins too: no cell is   *)
(* of that period yet.                                                     *)
LEMMA OrderAtWrite ==
  ASSUME TypeInv, OrderInv, PeriodBegins \/ PeriodGoesOn(0)
  PROVE  /\ KinAtWrite(WallClock) \in Cell
         /\ StagedAtWrite(WallClock) \in Seq(Nat)
         /\ \E from \in Nat :
              /\ began' = from
              /\ StagedInOrder(d2, StagedAtWrite(WallClock), heard)
              /\ AgesInOrder(d2, KinAtWrite(WallClock), from)
<1>1. kin \in Cell /\ staged \in Seq(Nat) /\ heard \in Nat /\ began \in Nat
      /\ \A i \in Cell : d2[i] # Blank => d2[i] \in Nat
  BY DEF TypeInv
<1>2. CASE PeriodBegins
  <2>1. KinAtWrite(WallClock) = 0 /\ StagedAtWrite(WallClock) = <<>> /\ began' = heard
    BY <1>2 DEF PeriodBegins, KinAtWrite, StagedAtWrite
  <2>2. 0 \in Cell /\ <<>> \in Seq(Nat) /\ 1..Len(<<>>) = {}
    BY Units, EmptySeq DEF Cell
  <2>3. StagedInOrder(d2, <<>>, heard)
    BY <2>2 DEF StagedInOrder
  <2>4. \A i \in Cell : ~(d2[i] # Blank /\ d2[i] >= heard)
    BY <1>1 DEF OrderInv, CellsHeard
  <2>5. AgesInOrder(d2, 0, heard)
    BY <2>4 DEF AgesInOrder
  <2> QED BY <1>1, <2>1, <2>2, <2>3, <2>5
<1>3. CASE PeriodGoesOn(0)
  <2>1. KinAtWrite(WallClock) = kin /\ StagedAtWrite(WallClock) = staged /\ began' = began
    BY <1>3 DEF PeriodGoesOn, KinAtWrite, StagedAtWrite
  <2> QED BY <1>1, <2>1 DEF OrderInv
<1> QED BY <1>2, <1>3

(* A blank buffer is in order, and so is a rotated one: the ages of the    *)
(* cells go along, and the period may begin after all of them.             *)
LEMMA OrderAfterAlign ==
  ASSUME TypeInv, OrderInv, NEW l \in Cell, NEW b,
         b = BlankBuffer \/ b = Rotated(d2, l - kin),
         NEW from \in {began, heard}
  PROVE  CellsHeard(b, heard) /\ AgesInOrder(b, l, from)
<1>1. /\ kin \in Cell /\ heard \in Nat /\ began \in Nat /\ began <= heard
      /\ \A i \in Cell : d2[i] # Blank => d2[i] \in Nat
  BY DEF TypeInv
<1>2. CASE b = BlankBuffer
  <2>1. \A i \in Cell : b[i] = Blank
    BY <1>2 DEF BlankBuffer, Cell
  <2> QED BY <2>1 DEF CellsHeard, AgesInOrder
<1>3. CASE b = Rotated(d2, l - kin)
  <2>1. \A i \in Cell : \E r \in Cell : b[i] = d2[r] /\ AgeAt(l, i) = AgeAt(kin, r)
    BY <1>1, <1>3, RotationKeepsAge
  <2>2. CellsHeard(b, heard)
    BY <2>1 DEF OrderInv, CellsHeard
  <2>3. ASSUME NEW i \in Cell, NEW j \in Cell, b[i] # Blank, b[i] >= from, b[j] # Blank,
               AgeAt(l, j) < AgeAt(l, i)
        PROVE  b[i] < b[j]
    <3>1. PICK r \in Cell : b[i] = d2[r] /\ AgeAt(l, i) = AgeAt(kin, r)
      BY <2>1
    <3>2. PICK q \in Cell : b[j] = d2[q] /\ AgeAt(l, j) = AgeAt(kin, q)
      BY <2>1
    <3>3. d2[r] # Blank /\ d2[r] >= began /\ d2[q] # Blank /\ AgeAt(kin, q) < AgeAt(kin, r)
      BY <3>1, <3>2, <2>3, <1>1
    <3> QED BY <3>1, <3>2, <3>3 DEF OrderInv, AgesInOrder
  <2> QED BY <2>2, <2>3 DEF AgesInOrder
<1> QED BY <1>2, <1>3

LEMMA InitOrder == Init => OrderInv
<1> SUFFICES ASSUME Init PROVE OrderInv
  OBVIOUS
<1>1. d2 = BlankBuffer /\ staged = <<>>
  BY DEF Init, InitDetector
<1>2. \A i \in Cell : d2[i] = Blank
  BY <1>1 DEF BlankBuffer, Cell
<1>3. 1..Len(staged) = {}
  BY <1>1, EmptySeq
<1> QED BY <1>2, <1>3 DEF OrderInv, CellsHeard, StagedInOrder, AgesInOrder

LEMMA NextOrder == TypeInv /\ OrderInv /\ [Next]_vars => OrderInv'
<1> SUFFICES ASSUME TypeInv, OrderInv, [Next]_vars PROVE OrderInv'
  OBVIOUS
<1>0. /\ kin \in Cell /\ heard \in Nat /\ began \in Nat /\ staged \in Seq(Nat)
      /\ \A i \in Cell : d2[i] # Blank => d2[i] \in Nat
      /\ \A y \in 1..Len(staged) : staged[y] \in Nat
  BY ElementOfSeq DEF TypeInv
<1>1. ASSUME UNCHANGED <<d2, kin, staged, heard, began>> PROVE OrderInv'
  BY <1>1 DEF OrderInv, CellsHeard, StagedInOrder, AgesInOrder
<1>2. ASSUME NEW b, NEW l, NEW st, NEW h, NEW from,
             d2' = b, kin' = l, staged' = st, heard' = h, began' = from,
             CellsHeard(b, h), StagedInOrder(b, st, h), AgesInOrder(b, l, from)
      PROVE  OrderInv'
  BY <1>2 DEF OrderInv, CellsHeard, StagedInOrder, AgesInOrder
<1>3. CASE Write
  <2>1. PICK n \in 1..(now - heard), l \in Cell, rest \in Seq(Nat) :
           \E used \in Nat, acc \in 0..n :
           /\ WriteOutcome(KinAtWrite(WallClock), l, StagedAtWrite(WallClock), rest, n, used, acc)
           /\ heard' = heard + n
    BY <1>3, WriteStep
  <2>2. PICK used \in Nat, acc \in 0..n :
           WriteOutcome(KinAtWrite(WallClock), l, StagedAtWrite(WallClock), rest, n, used, acc)
    BY <2>1
  <2> DEFINE k == KinAtWrite(WallClock)
             st == StagedAtWrite(WallClock)
  <2>3. PeriodBegins \/ PeriodGoesOn(0)
    BY <1>3, WriteStep
  <2>4. PICK from \in Nat : /\ k \in Cell /\ st \in Seq(Nat) /\ began' = from
                            /\ StagedInOrder(d2, st, heard) /\ AgesInOrder(d2, k, from)
    BY <2>3, OrderAtWrite
  <2>5. PICK b : d2' = b
    OBVIOUS
  <2>6. n \in Nat /\ CellsHeard(d2, heard)
    BY DEF OrderInv
  <2>7. CellsHeard(b, heard + n) /\ StagedInOrder(b, rest, heard + n) /\ AgesInOrder(b, l, from)
    <3> HIDE DEF k, st
    <3>1. WriteOutcome(k, l, st, rest, n, used, acc)
      BY <2>2 DEF k, st
    <3> QED BY <3>1, <2>4, <2>5, <2>6, OrderAfterWrite
  <2>8. kin' = l /\ staged' = rest
    BY <2>2 DEF WriteOutcome
  <2> QED BY <1>2, <2>1, <2>4, <2>5, <2>7, <2>8
<1>4. CASE LoseFrame
  <2>1. heard' = heard + 1 /\ UNCHANGED <<d2, kin, staged, began>>
    BY <1>4 DEF LoseFrame, detectorVars
  <2>2. CellsHeard(d2, heard + 1)
    BY <1>0 DEF OrderInv, CellsHeard
  <2>3. StagedInOrder(d2, staged, heard + 1)
    BY <1>0 DEF OrderInv, StagedInOrder
  <2>4. AgesInOrder(d2, kin, began)
    BY DEF OrderInv
  <2> QED BY <1>2, <2>1, <2>2, <2>3, <2>4
<1>5. CASE ClearDetector \/ ResetPosition
  <2> DEFINE l == ClockKin(WallClock)
  <2>1. /\ kin' = l /\ l \in Cell /\ staged' = <<>>
        /\ d2' = BlankBuffer \/ d2' = Rotated(d2, l - kin)
        /\ PeriodBegins \/ PeriodGoesOn(Len(staged))
        /\ heard' = heard
    BY <1>5, AlignStep
  <2>2. PICK from \in {began, heard} : began' = from
    BY <2>1 DEF PeriodBegins, PeriodGoesOn
  <2>3. PICK b : d2' = b
    OBVIOUS
  <2>4. CellsHeard(b, heard) /\ AgesInOrder(b, l, from)
    <3> HIDE DEF l
    <3> QED BY <2>1, <2>3, OrderAfterAlign
  <2>5. StagedInOrder(b, <<>>, heard)
    BY EmptySeq DEF StagedInOrder
  <2> QED BY <1>2, <2>1, <2>2, <2>3, <2>4, <2>5
<1>6. CASE ResetContent
  <2>1. d2' = BlankBuffer /\ UNCHANGED <<kin, staged, heard, began>>
    BY <1>6 DEF ResetContent, ResetBufferContent, periodVars
  <2>2. \A i \in Cell : BlankBuffer[i] = Blank
    BY DEF BlankBuffer, Cell
  <2>3. CellsHeard(BlankBuffer, heard) /\ AgesInOrder(BlankBuffer, kin, began)
    BY <2>2 DEF CellsHeard, AgesInOrder
  <2>4. StagedInOrder(BlankBuffer, staged, heard)
    BY <2>2 DEF OrderInv, StagedInOrder
  <2> QED BY <1>2, <2>1, <2>3, <2>4
<1>7. CASE ChangeBlockSize
  <2>1. staged' = <<>> /\ UNCHANGED <<d2, kin, heard, began>>
    BY <1>7 DEF ChangeBlockSize, SetBlockSize
  <2>2. StagedInOrder(d2, <<>>, heard)
    BY EmptySeq DEF StagedInOrder
  <2> QED BY <1>2, <2>1, <2>2 DEF OrderInv
<1>8. CASE Tick \/ Poll \/ SetClock \/ UNCHANGED vars
  <2>1. UNCHANGED <<d2, kin, staged, heard, began>>
    BY <1>8 DEF Tick, Poll, SetClock, vars, detectorVars, periodVars
  <2> QED BY <2>1, <1>1
<1> QED BY <1>3, <1>4, <1>5, <1>6, <1>7, <1>8 DEF Next

(* Every block size, every loss, every clear, reset and setting of the     *)
(* clock leaves the audio of the period in the order it was captured.      *)
THEOREM PeriodStaysInOrder == Spec => []HeardInOrder
<1>1. Init => TypeInv /\ OrderInv
  BY InitType, InitOrder
<1>2. TypeInv /\ OrderInv /\ [Next]_vars => (TypeInv /\ OrderInv)'
  BY NextType, NextOrder
<1>3. TypeInv /\ OrderInv => HeardInOrder
  <2> SUFFICES ASSUME TypeInv, OrderInv, NEW i \in 0..(kin - 1), NEW j \in 0..(kin - 1),
                      i < j, d2[i] # Blank, d2[j] # Blank, d2[i] >= began
               PROVE  d2[i] < d2[j]
    BY DEF HeardInOrder
  <2>1. kin \in Cell /\ i \in Cell /\ j \in Cell /\ AgeAt(kin, j) < AgeAt(kin, i)
    BY Units DEF TypeInv, AgeAt, Cell
  <2> QED BY <2>1 DEF OrderInv, AgesInOrder
<1> QED BY <1>1, <1>2, <1>3, PTL DEF Spec

-----------------------------------------------------------------------------
(* The count and the clock.  With the wall clock left alone there is a     *)
(* time w, that of the last write or alignment, whose period the count is  *)
(* in: the frames heard since the start of that period are in the buffer,  *)
(* in the staging block, or counted as lost.                               *)
(* The lower bound holds until the last block of the buffer is reached;    *)
(* the scheduler's count keeps up in the same way, but for MaxStep.        *)

KeptUp(c, start, len, h, ls) == h - start <= InFrames(c) + len + ls + (FramesPerMs - 1)

NearEnd(k) == \E b \in BlockSizes : k + b >= SampleSize

CountTracked(start, k, len, h, ls) ==
  /\ ls <= MaxLost
  /\ InFrames(k) + len <= h - start + MaxLag
  /\ NearEnd(k) \/ KeptUp(k, start, len, h, ls)

SeenTracked(start, seen, len, h, ls) ==
  seen + MaxStep >= SampleSize \/ KeptUp(seen, start, len, h, ls)

(* The staged frames are the last ones heard, but for those lost; unless   *)
(* the last block was reached, since when frames may be left out.          *)
StagedTracked(k, block, st, h, ls) ==
  \A y \in 1..Len(st) :
    /\ st[y] <= h - (Len(st) - y + 1)
    /\ k + block >= SampleSize \/ st[y] >= h - (Len(st) - y + 1) - ls

(* A cell of the period is as old as the samples after it and the staged   *)
(* frames say, but for the frames lost; if any were left out at the end of *)
(* the buffer, it is at least where it should be.                          *)
CellsTracked(start, b, k, len, h, from, ls) ==
  \A i \in Cell : b[i] # Blank /\ b[i] >= from =>
    /\ b[i] + InFrames(AgeAt(k, i)) + len <= h
    /\ \/ h <= b[i] + InFrames(AgeAt(k, i)) + len + ls
       \/ \E s \in BlockSizes :
            start + InFrames(SampleSize - s) - MaxLag <= b[i] + InFrames(AgeAt(k, i)) + ls
    /\ i < k => b[i] <= start + InFrames(i) + MaxSkew

(* The count that the scheduler saw last, or will see at its next poll.    *)
CountSeen == IF prev # NotWriting THEN stats.kinAfter
             ELSE IF polled = Scheduler!Unpolled THEN 0 ELSE polled

ClockTracked(w, s, h, ls) == s = SecondInPeriod(w) /\ h <= w + ls

Tracked(w) ==
  /\ ClockTracked(w, ns, heard, lost)
  /\ CountTracked(PeriodStart(w), kin, Len(staged), heard, lost)
  /\ SeenTracked(PeriodStart(w), CountSeen, Len(staged), heard, lost)
  /\ StagedTracked(kin, samplesPerFft, staged, heard, lost)
  /\ CellsTracked(PeriodStart(w), d2, kin, Len(staged), heard, began, lost)

TrackInv == slip = 0 => \E w \in 0..now : Tracked(w)

(* The bounds on the callback, by name.                                    *)
LEMMA CallbackBounds ==
  /\ MaxLag \in Nat /\ MaxLost \in Nat /\ MaxSkew \in Nat /\ MaxStep \in Nat
  /\ PeriodFrames = InFrames(SampleSize)
  /\ 2 * MaxStep <= SampleSize
  /\ MaxLag + MaxLost + SecondFrames <= PeriodFrames
  /\ SecondFrames <= MaxSkew + 1
  /\ MaxLost + FramesPerMs <= MaxSkew + 1
  /\ \A b \in BlockSizes :
       /\ b <= MaxStep
       /\ InFrames(b) <= MaxSkew + 1
       /\ MaxLag + MaxLost + InFrames(b - 1) <= MaxSkew
<1>1. MaxLag \in Nat \ {0} /\ MaxLost \in Nat /\ MaxSkew \in Nat
  BY PipelineAssumption
<1>2. MaxStep \in Nat
  BY PollAssumption DEF Scheduler!SchedulerAssumption
<1>3. /\ PeriodFrames = InFrames(SampleSize)
      /\ 2 * MaxStep <= SampleSize
      /\ MaxLag + MaxLost + SecondFrames <= PeriodFrames
  BY AudioKeepsUp DEF InFrames, SecondFrames
<1>4. /\ SecondFrames <= MaxSkew + 1
      /\ MaxLost + FramesPerMs <= MaxSkew + 1
      /\ \A b \in BlockSizes : /\ InFrames(b) <= MaxSkew + 1
                               /\ MaxLag + MaxLost + InFrames(b - 1) <= MaxSkew
  BY SkewAssumption DEF InFrames, SecondFrames
<1>5. ASSUME NEW b \in BlockSizes PROVE b <= MaxStep
  <2>1. /\ b \in Nat \ {0} /\ InFrames(b) \in Nat /\ FramesPerMs \in Nat \ {0}
        /\ InFrames(b) - 1 + MaxLost + (FramesPerMs - 1) + 2 * MaxLag <= InFrames(MaxStep)
        /\ InFrames(MaxStep) \in Nat /\ Ndown \in Nat \ {0}
    BY <1>2, BlockBounds, Frames, Units
  <2>2. InFrames(b) <= InFrames(MaxStep)
    BY <2>1, <1>1
  <2>3. MaxStep < b => InFrames(MaxStep) + Ndown <= InFrames(b)
    BY <2>1, <1>2, Frames
  <2> QED BY <2>1, <2>2, <2>3, <1>2
<1> QED BY <1>1, <1>2, <1>3, <1>4, <1>5

(* The wall clock is in the period of the count, or the next has begun and *)
(* write_i16 notices.                                                      *)
LEMMA ClockMoves ==
  ASSUME TypeInv, slip = 0, NEW w \in 0..now, ClockTracked(w, ns, heard, lost), lost <= MaxLost
  PROVE  /\ WallClock = now /\ PeriodStart(now) \in Nat /\ PeriodStart(now) <= now
         /\ PeriodStart(w) \in Nat /\ now < PeriodStart(now) + PeriodFrames
         /\ \/ PeriodStart(now) = PeriodStart(w) /\ ~Wrapped(WallClock)
            \/ /\ PeriodStart(now) = PeriodStart(w) + PeriodFrames /\ Wrapped(WallClock)
               /\ w < PeriodStart(now)
<1>1. /\ now \in Nat /\ w \in Nat /\ w <= now /\ heard \in Nat /\ lost \in Nat
      /\ now - heard <= MaxLag /\ WallClock = now
  BY DEF TypeInv, WallClock
<1>2. now <= w + lost + MaxLag
  BY <1>1, CallbackBounds DEF ClockTracked
<1>3. now + SecondFrames <= w + PeriodFrames
  BY <1>1, <1>2, CallbackBounds, Units
<1>4. /\ PeriodStart(now) \in Nat /\ PeriodStart(now) <= now
      /\ now < PeriodStart(now) + PeriodFrames /\ PeriodStart(w) \in Nat
  BY <1>1, ClockBounds
<1>5. Wrapped(WallClock) <=> SecondInPeriod(now) < SecondInPeriod(w)
  BY <1>1 DEF Wrapped, ClockTracked
<1> QED BY <1>1, <1>3, <1>4, <1>5, ClockOrder

(* Where a period begins, what was heard of it before counts as lost.      *)
LEMMA PeriodLosses ==
  ASSUME TypeInv, slip = 0, NEW w \in 0..now, ClockTracked(w, ns, heard, lost), lost <= MaxLost,
         PeriodBegins
  PROVE  /\ \E ls \in Nat : lost' = ls /\ ls <= MaxLost /\ heard - PeriodStart(now) <= ls
         /\ began' = heard
         /\ PeriodStart(now) <= heard + MaxLag
<1> DEFINE start == PeriodStart(now)
<1>1. /\ WallClock = now /\ start \in Nat /\ start <= now /\ w < start
      /\ now - heard <= MaxLag /\ now \in Nat /\ heard \in Nat /\ lost \in Nat /\ w \in Nat
  <2>1. Wrapped(WallClock)
    BY DEF PeriodBegins
  <2> QED BY <2>1, ClockMoves DEF TypeInv
<1>2. heard < start + lost
  BY <1>1 DEF ClockTracked
<1>3. lost' = MonusNat(heard, start) /\ began' = heard
  <2>1. heard + slip = heard
    BY <1>1
  <2> QED BY <2>1, <1>1 DEF PeriodBegins
<1> HIDE DEF start
<1>4. /\ MonusNat(heard, start) \in Nat /\ MonusNat(heard, start) <= lost
      /\ heard - start <= MonusNat(heard, start)
  BY <1>1, <1>2 DEF MonusNat
<1>5. start <= heard + MaxLag
  BY <1>1, CallbackBounds
<1> QED BY <1>1, <1>3, <1>4, <1>5, CallbackBounds DEF start

(* What a write finds is tracked from the period it is in.                 *)
LEMMA TrackedAtWrite ==
  ASSUME TypeInv, OrderInv, slip = 0, NEW w \in 0..now, Tracked(w),
         PeriodBegins \/ PeriodGoesOn(0)
  PROVE  LET start == PeriodStart(now)
             k == KinAtWrite(WallClock)
             st == StagedAtWrite(WallClock)
         IN  \E ls \in Nat, from \in Nat :
               /\ lost' = ls /\ began' = from
               /\ CountTracked(start, k, Len(st), heard, ls)
               /\ StagedTracked(k, samplesPerFft, st, heard, ls)
               /\ CellsTracked(start, d2, k, Len(st), heard, from, ls)
<1> DEFINE start == PeriodStart(now)
           k == KinAtWrite(WallClock)
           st == StagedAtWrite(WallClock)
<1>1. /\ ClockTracked(w, ns, heard, lost) /\ lost <= MaxLost
      /\ heard \in Nat /\ began \in Nat /\ lost \in Nat
      /\ \A i \in Cell : d2[i] # Blank => d2[i] \in Nat
  BY DEF Tracked, CountTracked, TypeInv
<1>2. CASE PeriodBegins
  <2>1. PICK ls \in Nat : lost' = ls /\ ls <= MaxLost /\ heard - PeriodStart(now) <= ls
    BY <1>1, <1>2, PeriodLosses
  <2>2. began' = heard /\ start <= heard + MaxLag
    BY <1>1, <1>2, PeriodLosses
  <2>3. k = 0 /\ st = <<>> /\ Len(st) = 0
    BY <1>2, EmptySeq DEF PeriodBegins, KinAtWrite, StagedAtWrite
  <2>4. start \in Nat /\ InFrames(0) = 0 /\ FramesPerMs \in Nat \ {0} /\ MaxLag \in Nat
    BY <1>1, ClockMoves, Frames, Units, CallbackBounds
  <2> HIDE DEF start, k, st
  <2>5. CountTracked(start, k, Len(st), heard, ls)
    <3>1. heard - start <= ls
      BY <2>1 DEF start
    <3>2. KeptUp(0, start, 0, heard, ls)
      BY <3>1, <2>4, <1>1 DEF KeptUp
    <3>3. InFrames(0) + 0 <= heard - start + MaxLag
      BY <2>2, <2>4, <1>1
    <3> QED BY <3>2, <3>3, <2>1, <2>3 DEF CountTracked
  <2>6. StagedTracked(k, samplesPerFft, st, heard, ls)
    BY <2>3 DEF StagedTracked
  <2>7. CellsTracked(start, d2, k, Len(st), heard, heard, ls)
    <3>1. \A i \in Cell : ~(d2[i] # Blank /\ d2[i] >= heard)
      BY <1>1 DEF OrderInv, CellsHeard
    <3> QED BY <3>1 DEF CellsTracked
  <2> QED BY <2>1, <2>2, <2>5, <2>6, <2>7, <1>1 DEF start, k, st
<1>3. CASE PeriodGoesOn(0)
  <2>1. ~Wrapped(WallClock) /\ began' = began /\ lost' = lost + 0
    BY <1>3 DEF PeriodGoesOn
  <2>2. k = kin /\ st = staged /\ lost' = lost
    BY <2>1, <1>1 DEF KinAtWrite, StagedAtWrite
  <2>3. PeriodStart(now) = PeriodStart(w)
    BY <2>1, <1>1, ClockMoves
  <2> HIDE DEF k, st
  <2>4. /\ CountTracked(start, k, Len(st), heard, lost)
        /\ StagedTracked(k, samplesPerFft, st, heard, lost)
        /\ CellsTracked(start, d2, k, Len(st), heard, began, lost)
    BY <2>2, <2>3 DEF Tracked
  <2> QED BY <2>1, <2>2, <2>4, <1>1 DEF k, st
<1> QED BY <1>2, <1>3

(* The frames that come in are the last ones that were heard.              *)
LEMMA IncomingTracked ==
  ASSUME heard \in Nat, NEW k, NEW st \in Seq(Nat), NEW n \in Nat, NEW ls \in Nat,
         StagedTracked(k, samplesPerFft, st, heard, ls), NEW y \in 1..(Len(st) + n)
  PROVE  /\ Incoming(st, y) <= heard - Len(st) + y - 1
         /\ k + samplesPerFft >= SampleSize \/ Incoming(st, y) >= heard - Len(st) + y - 1 - ls
<1>1. Len(st) \in Nat /\ y \in Nat
  OBVIOUS
<1>2. CASE y <= Len(st)
  <2>1. y \in 1..Len(st) /\ Incoming(st, y) = st[y] /\ st[y] \in Nat
    BY <1>1, <1>2, ElementOfSeq DEF Incoming
  <2>2. /\ st[y] <= heard - (Len(st) - y + 1)
        /\ k + samplesPerFft >= SampleSize \/ st[y] >= heard - (Len(st) - y + 1) - ls
    BY <2>1 DEF StagedTracked
  <2>3. heard - (Len(st) - y + 1) = heard - Len(st) + y - 1
    BY <1>1
  <2> QED BY <2>1, <2>2, <2>3
<1>3. CASE ~(y <= Len(st))
  <2>1. Incoming(st, y) = heard + (y - Len(st)) - 1
    BY <1>3 DEF Incoming
  <2>2. heard + (y - Len(st)) - 1 = heard - Len(st) + y - 1
    BY <1>1
  <2> QED BY <2>1, <2>2, <1>1
<1> QED BY <1>2, <1>3

(* What a write adds to the buffer and the staging block, in frames: no    *)
(* more than it was given, and all of it before the last block is reached. *)
Balanced(k, l, m, r, n, used, acc) ==
  /\ InFrames(k) \in Nat /\ InFrames(l) \in Nat /\ m \in Nat /\ r \in Nat
  /\ l \in Cell /\ k <= l /\ InFrames(k) <= InFrames(l)
  /\ InFrames(l) + r <= InFrames(k) + m + n
  /\ InFrames(l) - InFrames(k) <= used /\ r = m + acc - used
  /\ \/ l + samplesPerFft >= SampleSize
     \/ /\ InFrames(l) + r = InFrames(k) + m + n
        /\ InFrames(l) - InFrames(k) = used /\ acc = n

LEMMA WriteBalance ==
  ASSUME NEW k \in Cell, NEW l, NEW st \in Seq(Nat), NEW rest, NEW n \in Nat,
         NEW used \in Nat, NEW acc \in 0..n, WriteOutcome(k, l, st, rest, n, used, acc)
  PROVE  Balanced(k, l, Len(st), Len(rest), n, used, acc)
<1>1. /\ l \in Cell /\ k <= l /\ Len(st) \in Nat /\ Len(rest) \in Nat
      /\ InFrames(l - k) <= used /\ Len(rest) = Len(st) + acc - used
      /\ l + samplesPerFft >= SampleSize \/ (acc = n /\ InFrames(l - k) = used)
  BY DEF WriteOutcome
<1>2. k \in Nat /\ l \in Nat /\ k \in Int /\ l \in Int
  BY <1>1 DEF Cell
<1>3. /\ InFrames(k) \in Nat /\ InFrames(l) \in Nat /\ InFrames(k) <= InFrames(l)
      /\ InFrames(l - k) = InFrames(l) - InFrames(k)
  BY <1>1, <1>2, Frames
<1> DEFINE K == InFrames(k)
           L == InFrames(l)
           d == InFrames(l - k)
           m == Len(st)
           r == Len(rest)
<1>4. /\ K \in Nat /\ L \in Nat /\ K <= L /\ d = L - K /\ m \in Nat /\ r \in Nat
      /\ d <= used /\ r = m + acc - used
      /\ l + samplesPerFft >= SampleSize \/ (acc = n /\ d = used)
  BY <1>1, <1>3
<1> HIDE DEF K, L, d, m, r
<1>5. L + r <= K + m + n /\ L - K <= used
  BY <1>4
<1>6. l + samplesPerFft >= SampleSize \/ (L + r = K + m + n /\ L - K = used /\ acc = n)
  BY <1>4
<1> QED BY <1>1, <1>4, <1>5, <1>6 DEF K, L, m, r, Balanced

LEMMA CountAfterWrite ==
  ASSUME samplesPerFft \in BlockSizes, heard \in Nat,
         NEW k \in Cell, NEW l, NEW st \in Seq(Nat), NEW rest, NEW n \in Nat,
         NEW used \in Nat, NEW acc \in 0..n, WriteOutcome(k, l, st, rest, n, used, acc),
         NEW ls \in Nat, NEW start \in Nat, CountTracked(start, k, Len(st), heard, ls)
  PROVE  /\ CountTracked(start, l, Len(rest), heard + n, ls)
         /\ SeenTracked(start, l, Len(rest), heard + n, ls)
<1> DEFINE K == InFrames(k)
           L == InFrames(l)
           m == Len(st)
           r == Len(rest)
<1>1. /\ K \in Nat /\ L \in Nat /\ m \in Nat /\ r \in Nat /\ l \in Cell /\ k <= l
      /\ L + r <= K + m + n
      /\ l + samplesPerFft >= SampleSize \/ L + r = K + m + n
  <2>1. Balanced(k, l, m, r, n, used, acc)
    BY WriteBalance
  <2> HIDE DEF m, r
  <2> QED BY <2>1 DEF Balanced
<1>2. /\ SampleSize \in Nat /\ FramesPerMs \in Nat /\ MaxLag \in Nat /\ MaxStep \in Nat
      /\ \A b \in BlockSizes : b \in Nat /\ b <= MaxStep
      /\ samplesPerFft \in Nat /\ k \in Nat /\ l \in Nat
  BY <1>1, Units, CallbackBounds, BlockBounds DEF Cell
<1>3. ls <= MaxLost /\ K + m <= heard - start + MaxLag
      /\ (NearEnd(k) \/ heard - start <= K + m + ls + (FramesPerMs - 1))
  BY DEF CountTracked, KeptUp
<1> HIDE DEF K, L, m, r
<1>4. L + r <= heard + n - start + MaxLag
  BY <1>1, <1>2, <1>3
<1>5. NearEnd(l) \/ heard + n - start <= L + r + ls + (FramesPerMs - 1)
  <2>1. CASE l + samplesPerFft >= SampleSize
    <3>1. NearEnd(l)
      BY <2>1, <1>2 DEF NearEnd
    <3> QED BY <3>1
  <2>2. CASE NearEnd(k)
    <3>1. PICK s \in BlockSizes : k + s >= SampleSize
      BY <2>2 DEF NearEnd
    <3>2. l + s >= SampleSize
      BY <3>1, <1>1, <1>2
    <3> QED BY <3>2 DEF NearEnd
  <2>3. CASE L + r = K + m + n /\ heard - start <= K + m + ls + (FramesPerMs - 1)
    BY <2>3, <1>1, <1>2
  <2> QED BY <2>1, <2>2, <2>3, <1>1, <1>3
<1>6. NearEnd(l) => l + MaxStep >= SampleSize
  BY <1>1, <1>2 DEF NearEnd
<1> QED BY <1>3, <1>4, <1>5, <1>6 DEF CountTracked, SeenTracked, KeptUp, L, r

LEMMA StagedAfterWrite ==
  ASSUME samplesPerFft \in BlockSizes, heard \in Nat,
         NEW k \in Cell, NEW l, NEW st \in Seq(Nat), NEW rest, NEW n \in Nat,
         NEW used \in Nat, NEW acc \in 0..n, WriteOutcome(k, l, st, rest, n, used, acc),
         NEW ls \in Nat, StagedTracked(k, samplesPerFft, st, heard, ls)
  PROVE  StagedTracked(l, samplesPerFft, rest, heard + n, ls)
<1> SUFFICES ASSUME NEW y \in 1..Len(rest)
             PROVE  /\ rest[y] <= heard + n - (Len(rest) - y + 1)
                    /\ \/ l + samplesPerFft >= SampleSize
                       \/ rest[y] >= heard + n - (Len(rest) - y + 1) - ls
  BY DEF StagedTracked
<1>1. /\ Len(st) \in Nat /\ Len(rest) \in Nat /\ l \in Cell /\ k <= l
      /\ Len(rest) = Len(st) + acc - used
      /\ l + samplesPerFft >= SampleSize \/ acc = n
      /\ k \in Nat /\ l \in Nat /\ samplesPerFft \in Nat /\ SampleSize \in Nat
  <2>1. l \in Cell /\ k <= l
    BY DEF WriteOutcome
  <2>2. k \in Nat /\ l \in Nat /\ samplesPerFft \in Nat /\ SampleSize \in Nat
    BY <2>1, Units, BlockBounds DEF Cell
  <2> QED BY <2>1, <2>2 DEF WriteOutcome
<1>2. used + y \in 1..(Len(st) + n)
  BY StoredFrame
<1>3. rest[y] = Incoming(st, used + y)
  BY DEF WriteOutcome
<1>4. /\ Incoming(st, used + y) <= heard - Len(st) + (used + y) - 1
      /\ \/ k + samplesPerFft >= SampleSize
         \/ Incoming(st, used + y) >= heard - Len(st) + (used + y) - 1 - ls
  BY <1>2, IncomingTracked
<1>5. heard + n - (Len(rest) - y + 1) = heard - Len(st) + (used + y) - 1 + (n - acc)
  BY <1>1
<1>6. rest[y] \in Nat
  BY ElementOfSeq DEF WriteOutcome
<1>7. rest[y] <= heard + n - (Len(rest) - y + 1)
  BY <1>1, <1>3, <1>4, <1>5, <1>6
<1>8. l + samplesPerFft >= SampleSize \/ k + samplesPerFft < SampleSize
  BY <1>1
<1>9. ASSUME ~(l + samplesPerFft >= SampleSize)
      PROVE  rest[y] >= heard + n - (Len(rest) - y + 1) - ls
  <2>1. acc = n /\ ~(k + samplesPerFft >= SampleSize)
    BY <1>1, <1>8, <1>9
  <2>2. rest[y] >= heard - Len(st) + (used + y) - 1 - ls
    BY <2>1, <1>3, <1>4
  <2> QED BY <2>1, <2>2, <1>1, <1>5, <1>6
<1> QED BY <1>7, <1>9

LEMMA CellsAfterWrite ==
  ASSUME TypeInv,
         NEW k \in Cell, NEW l, NEW st \in Seq(Nat), NEW rest, NEW n \in Nat,
         NEW used \in Nat, NEW acc \in 0..n, WriteOutcome(k, l, st, rest, n, used, acc),
         NEW ls \in Nat, NEW start \in Nat, NEW from \in Nat, NEW b, d2' = b,
         CountTracked(start, k, Len(st), heard, ls),
         StagedTracked(k, samplesPerFft, st, heard, ls),
         CellsTracked(start, d2, k, Len(st), heard, from, ls),
         heard < start + PeriodFrames
  PROVE  CellsTracked(start, b, l, Len(rest), heard + n, from, ls)
<1> DEFINE K == InFrames(k)
           L == InFrames(l)
           m == Len(st)
           r == Len(rest)
           Late(x) == \E s \in BlockSizes : start + InFrames(SampleSize - s) - MaxLag <= x + ls
<1>1. /\ K \in Nat /\ L \in Nat /\ m \in Nat /\ r \in Nat /\ used \in Nat /\ acc \in 0..n
      /\ l \in Cell /\ k <= l /\ K <= L
      /\ L + r <= K + m + n /\ L - K <= used /\ r = m + acc - used
      /\ l + samplesPerFft >= SampleSize \/ L + r = K + m + n
  <2>1. Balanced(k, l, m, r, n, used, acc)
    BY WriteBalance
  <2> HIDE DEF m, r
  <2> QED BY <2>1 DEF Balanced
<1>2. /\ heard \in Nat /\ samplesPerFft \in BlockSizes /\ samplesPerFft \in Nat
      /\ FramesPerMs \in Nat \ {0} /\ MaxLag \in Nat /\ MaxSkew \in Nat /\ MaxLost \in Nat
      /\ MaxLost + FramesPerMs <= MaxSkew + 1 /\ SampleSize \in Nat /\ Ndown \in Nat \ {0}
      /\ k \in Nat /\ l \in Nat
      /\ \A i \in Cell : d2[i] # Blank => d2[i] \in Nat
  BY <1>1, Units, CallbackBounds, BlockBounds DEF TypeInv, Cell
<1>3. /\ ls <= MaxLost /\ K + m <= heard - start + MaxLag
      /\ NearEnd(k) \/ KeptUp(k, start, m, heard, ls)
  BY DEF CountTracked
<1>4. /\ \A i \in k..(l - 1) : /\ InFrames(i - k) \in Nat
                               /\ InFrames(i - k) + 1 \in 1..(m + n)
                               /\ i \in Cell
                               /\ b[i] = Incoming(st, InFrames(i - k) + 1)
      /\ \A i \in Cell : i \notin k..(l - 1) => b[i] = d2[i]
  <2>1. /\ \A i \in k..(l - 1) : /\ InFrames(i - k) \in Nat
                                 /\ InFrames(i - k) + Ndown <= used
                                 /\ InFrames(i - k) + 1 \in 1..(Len(st) + n)
                                 /\ i \in Cell
                                 /\ d2'[i] = Incoming(st, InFrames(i - k) + 1)
        /\ \A i \in Cell : i \notin k..(l - 1) => d2'[i] = d2[i]
        /\ \A y \in 1..Len(rest) : used + y \in 1..(Len(st) + n)
    BY StoredFrame
  <2> QED BY <2>1
<1> HIDE DEF K, L, m, r
(* At the end of the buffer a cell is at least where it should be.         *)
<1>5. ASSUME NEW x \in Int, heard <= x + K - L + m + ls, l + samplesPerFft >= SampleSize
      PROVE  Late(x)
  <2>1. SampleSize - samplesPerFft \in Int /\ l \in Int /\ SampleSize - samplesPerFft <= l
    BY <1>5, <1>2
  <2>2. InFrames(SampleSize - samplesPerFft) \in Int /\ InFrames(SampleSize - samplesPerFft) <= L
    BY <2>1, Frames DEF L
  <2>3. start + InFrames(SampleSize - samplesPerFft) - MaxLag <= x + ls
    BY <2>2, <1>1, <1>2, <1>3, <1>5
  <2> QED BY <2>3, <1>2
(* Nothing is far ahead of its place when it is stored.                    *)
<1>6. heard - m - start <= K + MaxSkew
  <2>1. CASE KeptUp(k, start, m, heard, ls)
    <3>1. heard - start <= K + m + ls + (FramesPerMs - 1)
      BY <2>1 DEF KeptUp, K
    <3>2. m \in Nat /\ K \in Nat /\ ls <= MaxLost
      BY <1>1, <1>3
    <3>3. (heard - start) - m <= K + (MaxLost + FramesPerMs - 1)
      BY <3>1, <3>2, <1>2
    <3>4. (heard - start) - m = heard - m - start
      BY <3>2, <1>2
    <3> QED BY <3>2, <3>3, <3>4, <1>2
  <2>2. CASE NearEnd(k)
    <3>1. PICK s \in BlockSizes : k + s >= SampleSize
      BY <2>2 DEF NearEnd
    <3>2. s \in Int /\ k \in Int /\ SampleSize \in Int /\ SampleSize <= k + s
      BY <3>1, <1>2, BlockBounds
    <3>3. InFrames(SampleSize) <= InFrames(k) + InFrames(s) /\ InFrames(SampleSize) \in Int
      <4>1. k + s \in Int
        BY <3>2
      <4>2. InFrames(SampleSize) <= InFrames(k + s) /\ InFrames(k + s) = InFrames(k) + InFrames(s)
        BY <4>1, <3>2, Frames
      <4> QED BY <4>2, <3>2, Frames
    <3>4. PeriodFrames = InFrames(SampleSize) /\ InFrames(s) <= MaxSkew + 1 /\ InFrames(s) \in Nat
      BY CallbackBounds, BlockBounds
    <3>5. PeriodFrames <= K + InFrames(s)
      BY <3>3, <3>4 DEF K
    <3>6. PICK F \in Nat : F = InFrames(s)
      BY <3>4
    <3>7. PICK P \in Nat : P = PeriodFrames
      BY Units
    <3>8. P <= K + F /\ heard < start + P /\ F <= MaxSkew + 1
      BY <3>4, <3>5, <3>6, <3>7
    <3>9. K \in Nat /\ m \in Nat /\ heard \in Nat /\ MaxSkew \in Nat
      BY <1>1, <1>2
    <3> QED BY <3>8, <3>9
  <2> QED BY <2>1, <2>2, <1>3
<1> SUFFICES ASSUME NEW i \in Cell, b[i] # Blank, b[i] >= from
             PROVE  /\ b[i] + InFrames(AgeAt(l, i)) + r <= heard + n
                    /\ \/ heard + n <= b[i] + InFrames(AgeAt(l, i)) + r + ls
                       \/ Late(b[i] + InFrames(AgeAt(l, i)))
                    /\ i < l => b[i] <= start + InFrames(i) + MaxSkew
  BY DEF CellsTracked, r
<1>7. CASE i \in k..(l - 1)
  <2> DEFINE y == InFrames(i - k) + 1
             v == Incoming(st, y)
             A == InFrames(AgeAt(l, i))
             I == InFrames(i)
  <2>1. i \in Nat /\ i < l /\ k <= i /\ AgeAt(l, i) = l - i
    BY <1>1, <1>2, <1>7 DEF AgeAt
  <2>2. k + samplesPerFft < SampleSize
    <3>1. k # l
      BY <2>1, <1>2
    <3> QED BY <3>1 DEF WriteOutcome
  <2>3. I \in Nat /\ InFrames(i - k) = I - K /\ A = L - I
    <3>1. i \in Int /\ k \in Int /\ l \in Int /\ i \in Nat
      BY <2>1, <1>2
    <3> QED BY <3>1, <2>1, Frames DEF K, L
  <2>4. /\ y \in 1..(m + n) /\ b[i] = v
        /\ v \in Int
    <3>1. y \in 1..(m + n) /\ b[i] = v
      BY <1>4, <1>7
    <3>2. v \in Nat
      BY <1>7 DEF WriteOutcome
    <3> QED BY <3>1, <3>2
  <2>5. v <= heard - m + y - 1 /\ v >= heard - m + y - 1 - ls
    <3>1. /\ v <= heard - Len(st) + y - 1
          /\ k + samplesPerFft >= SampleSize \/ v >= heard - Len(st) + y - 1 - ls
      <4>1. y \in 1..(Len(st) + n)
        BY <2>4 DEF m
      <4> HIDE DEF y
      <4> QED BY <4>1, <1>2, IncomingTracked
    <3> QED BY <3>1, <2>2, <1>2 DEF m
  <2>6. y = I - K + 1
    BY <2>3
  <2> HIDE DEF y, v, A, I
  <2>7. v <= heard - m + I - K /\ v >= heard - m + I - K - ls
    BY <2>3, <2>4, <2>5, <2>6, <1>1, <1>2
  <2>8. v + A + r <= heard + n
    BY <2>3, <2>4, <2>7, <1>1, <1>2
  <2>9. heard + n <= v + A + r + ls \/ Late(v + A)
    <3>1. CASE L + r = K + m + n
      BY <3>1, <2>3, <2>4, <2>7, <1>1, <1>2
    <3>2. CASE l + samplesPerFft >= SampleSize
      <4>1. v + A \in Int /\ heard <= (v + A) + K - L + m + ls
        BY <2>3, <2>4, <2>7, <1>1, <1>2
      <4> QED BY <4>1, <3>2, <1>5
    <3> QED BY <3>1, <3>2, <1>1
  <2>10. v <= start + I + MaxSkew
    BY <2>3, <2>4, <2>7, <1>1, <1>2, <1>6
  <2> QED BY <2>4, <2>8, <2>9, <2>10 DEF A, I
<1>8. CASE i \notin k..(l - 1)
  <2> DEFINE A == InFrames(AgeAt(k, i))
             B == InFrames(AgeAt(l, i))
             v == d2[i]
  <2>1. b[i] = v /\ v \in Nat
    BY <1>4, <1>8, <1>2
  <2>2. AgeAt(l, i) = AgeAt(k, i) + (l - k) /\ AgeAt(k, i) \in 1..SampleSize
    BY <1>1, <1>8, StoringAges, AgeBounds
  <2>3. B = A + (L - K) /\ A \in Nat
    <3>1. AgeAt(k, i) \in Nat /\ AgeAt(k, i) \in Int /\ l - k \in Int /\ l \in Int /\ k \in Int
      BY <2>2, <1>2
    <3>2. B = A + InFrames(l - k) /\ InFrames(l - k) = L - K /\ A \in Nat
      BY <2>2, <3>1, Frames DEF K, L
    <3> QED BY <3>2
  <2>4. /\ v + A + m <= heard
        /\ heard <= v + A + m + ls \/ Late(v + A)
        /\ i < k => v <= start + InFrames(i) + MaxSkew
    <3>1. d2[i] # Blank /\ d2[i] >= from
      BY <2>1
    <3> QED BY <3>1 DEF CellsTracked, m
  <2>5. i < l => i < k
    BY <1>8, <1>1, <1>2 DEF Cell
  <2> HIDE DEF A, B, v
  <2>6. v + B + r <= heard + n
    BY <2>1, <2>3, <2>4, <1>1, <1>2
  <2>7. heard + n <= v + B + r + ls \/ Late(v + B)
    <3>1. CASE Late(v + A)
      <4>1. PICK s \in BlockSizes : start + InFrames(SampleSize - s) - MaxLag <= v + A + ls
        BY <3>1
      <4>2. InFrames(SampleSize - s) \in Int
        <5>1. SampleSize - s \in Int
          BY <1>2, BlockBounds
        <5> QED BY <5>1, Frames
      <4>3. start + InFrames(SampleSize - s) - MaxLag <= v + B + ls
        <5> DEFINE E == InFrames(SampleSize - s)
        <5>1. E \in Int /\ start + E - MaxLag <= v + A + ls
          BY <4>1, <4>2
        <5>2. v + A + ls <= v + B + ls /\ v + A + ls \in Int /\ v + B + ls \in Int
          BY <2>1, <2>3, <1>1
        <5> HIDE DEF E
        <5>3. start + E - MaxLag \in Int
          BY <5>1, <1>2
        <5>4. start + E - MaxLag <= v + B + ls
          BY <5>1, <5>2, <5>3
        <5> QED BY <5>4 DEF E
      <4> QED BY <4>3
    <3>2. CASE heard <= v + A + m + ls /\ L + r = K + m + n
      BY <3>2, <2>1, <2>3, <1>1, <1>2
    <3>3. CASE heard <= v + A + m + ls /\ l + samplesPerFft >= SampleSize
      <4>1. v + B \in Int /\ heard <= (v + B) + K - L + m + ls
        BY <3>3, <2>1, <2>3, <1>1, <1>2
      <4> QED BY <4>1, <3>3, <1>5
    <3> QED BY <3>1, <3>2, <3>3, <2>4, <1>1
  <2> QED BY <2>1, <2>4, <2>5, <2>6, <2>7 DEF B
<1> QED BY <1>7, <1>8

LEMMA InitTrack == Init => TrackInv
<1> SUFFICES ASSUME Init PROVE TrackInv
  OBVIOUS
<1>1. /\ heard = 0 /\ lost = 0 /\ prev = NotWriting /\ polled = Scheduler!Unpolled
  BY DEF Init, Scheduler!Init
<1>2. d2 = BlankBuffer /\ kin = ClockKin(0) /\ staged = <<>> /\ ns = SecondInPeriod(0)
  BY DEF Init, InitDetector
<1>3. /\ PeriodStart(0) \in Nat /\ PeriodStart(0) <= 0
      /\ InFrames(ClockKin(0)) <= 0 - PeriodStart(0)
      /\ ClockKin(0) \in Nat /\ InFrames(ClockKin(0)) \in Nat
  <2>1. ClockKin(0) \in Nat
    BY ClockCount, Units DEF Cell
  <2> QED BY <2>1, ClockBounds, ClockCount, Frames
<1>4. PeriodStart(0) = 0 /\ InFrames(ClockKin(0)) = 0 /\ InFrames(0) = 0
  <2>1. PICK s \in Nat : s = PeriodStart(0)
    BY <1>3
  <2>2. PICK k \in Nat : k = InFrames(ClockKin(0))
    BY <1>3
  <2>3. s <= 0 /\ k <= 0 - s
    BY <2>1, <2>2, <1>3
  <2>4. s = 0 /\ k = 0
    BY <2>1, <2>2, <2>3
  <2>5. InFrames(0) = 0
    BY Frames
  <2> QED BY <2>1, <2>2, <2>4, <2>5
<1>5. MaxLost \in Nat /\ MaxLag \in Nat /\ FramesPerMs \in Nat \ {0} /\ Len(staged) = 0
  BY <1>2, CallbackBounds, Units, EmptySeq
<1>6. ClockTracked(0, ns, heard, lost)
  BY <1>1, <1>2 DEF ClockTracked
<1>7. CountTracked(PeriodStart(0), kin, Len(staged), heard, lost)
  <2>1. InFrames(kin) = 0
    BY <1>2, <1>4
  <2>2. KeptUp(kin, 0, 0, 0, 0)
    BY <2>1, <1>5 DEF KeptUp
  <2> QED BY <2>1, <2>2, <1>1, <1>4, <1>5 DEF CountTracked
<1>8. SeenTracked(PeriodStart(0), CountSeen, Len(staged), heard, lost)
  <2>1. CountSeen = 0
    BY <1>1 DEF CountSeen
  <2>2. KeptUp(0, 0, 0, 0, 0)
    BY <1>4, <1>5 DEF KeptUp
  <2> QED BY <2>1, <2>2, <1>1, <1>4, <1>5 DEF SeenTracked
<1>9. StagedTracked(kin, samplesPerFft, staged, heard, lost)
  BY <1>5 DEF StagedTracked
<1>10. CellsTracked(PeriodStart(0), d2, kin, Len(staged), heard, began, lost)
  <2>1. \A i \in Cell : d2[i] = Blank
    BY <1>2 DEF BlankBuffer, Cell
  <2> QED BY <2>1 DEF CellsTracked
<1>11. Tracked(0)
  BY <1>6, <1>7, <1>8, <1>9, <1>10 DEF Tracked
<1>12. now = 0
  BY DEF Init
<1>13. 0 \in 0..0
  OBVIOUS
<1> QED BY <1>11, <1>12, <1>13 DEF TrackInv

(* The next state is tracked, in terms of its values.                      *)
LEMMA TrackedNext ==
  ASSUME NEW w, NEW s, NEW h, NEW ls, NEW k, NEW st, NEW seen, NEW b, NEW from, NEW block,
         ns' = s, heard' = h, lost' = ls, kin' = k, staged' = st, CountSeen' = seen, d2' = b,
         began' = from, samplesPerFft' = block,
         ClockTracked(w, s, h, ls),
         CountTracked(PeriodStart(w), k, Len(st), h, ls),
         SeenTracked(PeriodStart(w), seen, Len(st), h, ls),
         StagedTracked(k, block, st, h, ls),
         CellsTracked(PeriodStart(w), b, k, Len(st), h, from, ls)
  PROVE  Tracked(w)'
BY DEF Tracked

LEMMA CountSeenType ==
  ASSUME TypeInv PROVE CountSeen \in Nat
BY Units DEF TypeInv, CountSeen, Cell

(* Moving the count to where the clock is, with a blank or rotated buffer. *)
LEMMA CellsAfterRotation ==
  ASSUME TypeInv, NEW start \in Nat, NEW l \in Cell, NEW ls \in Nat,
         CellsTracked(start, d2, kin, Len(staged), heard, began, lost),
         ls = lost + Len(staged), now - start <= InFrames(l) + (FramesPerMs - 1)
  PROVE  CellsTracked(start, Rotated(d2, l - kin), l, 0, heard, began, ls)
<1> DEFINE b == Rotated(d2, l - kin)
           m == Len(staged)
<1>1. /\ heard \in Nat /\ now \in Nat /\ heard <= now /\ lost \in Nat /\ m \in Nat
      /\ kin \in Cell /\ MaxSkew \in Nat /\ MaxLost \in Nat /\ MaxLag \in Nat
      /\ FramesPerMs \in Nat \ {0} /\ MaxLost + FramesPerMs <= MaxSkew + 1
      /\ \A i \in Cell : d2[i] # Blank => d2[i] \in Nat
      /\ SampleSize \in Nat /\ \A s \in BlockSizes : s \in Nat
  <2>1. \A s \in BlockSizes : s \in Nat
    BY BlockBounds
  <2>2. /\ heard \in Nat /\ now \in Nat /\ heard <= now /\ lost \in Nat /\ m \in Nat
        /\ kin \in Cell /\ \A i \in Cell : d2[i] # Blank => d2[i] \in Nat
    BY DEF TypeInv
  <2>3. /\ MaxSkew \in Nat /\ MaxLost \in Nat /\ MaxLag \in Nat /\ SampleSize \in Nat
        /\ FramesPerMs \in Nat \ {0} /\ MaxLost + FramesPerMs <= MaxSkew + 1
    BY Units, CallbackBounds
  <2> QED BY <2>1, <2>2, <2>3
<1> HIDE DEF b, m
<1> SUFFICES ASSUME NEW i \in Cell, b[i] # Blank, b[i] >= began
             PROVE  /\ b[i] + InFrames(AgeAt(l, i)) + 0 <= heard
                    /\ \/ heard <= b[i] + InFrames(AgeAt(l, i)) + 0 + ls
                       \/ \E s \in BlockSizes :
                            start + InFrames(SampleSize - s) - MaxLag
                              <= b[i] + InFrames(AgeAt(l, i)) + ls
                    /\ i < l => b[i] <= start + InFrames(i) + MaxSkew
  BY DEF CellsTracked, b
<1>2. PICK r \in Cell : b[i] = d2[r] /\ AgeAt(l, i) = AgeAt(kin, r)
  BY <1>1, RotationKeepsAge DEF b
<1> DEFINE v == d2[r]
           A == InFrames(AgeAt(l, i))
<1>3. v \in Nat /\ b[i] = v
  BY <1>1, <1>2
<1>4. A \in Nat
  <2>1. AgeAt(l, i) \in 1..SampleSize
    BY AgeBounds
  <2>2. AgeAt(l, i) \in Nat
    BY <2>1
  <2> QED BY <2>2, Frames
<1>5. /\ v + A + m <= heard
      /\ \/ heard <= v + A + m + lost
         \/ \E s \in BlockSizes : start + InFrames(SampleSize - s) - MaxLag <= v + A + lost
  BY <1>2 DEF CellsTracked, m
<1>6. i < l => A = InFrames(l) - InFrames(i) /\ InFrames(l) \in Nat /\ InFrames(i) \in Nat
  <2>1. i \in Nat /\ l \in Nat /\ i \in Int /\ l \in Int
    BY DEF Cell
  <2>2. /\ InFrames(l - i) = InFrames(l) - InFrames(i)
        /\ InFrames(l) \in Nat /\ InFrames(i) \in Nat
    BY <2>1, Frames
  <2>3. i < l => AgeAt(l, i) = l - i
    BY DEF AgeAt
  <2> QED BY <2>2, <2>3
<1>7. ls = lost + m
  BY DEF m
<1> HIDE DEF v, A
<1>8. v + A + 0 <= heard
  BY <1>1, <1>3, <1>4, <1>5
<1>9. \/ heard <= v + A + 0 + ls
      \/ \E s \in BlockSizes : start + InFrames(SampleSize - s) - MaxLag <= v + A + ls
  <2>1. CASE heard <= v + A + m + lost
    BY <2>1, <1>1, <1>3, <1>4, <1>7
  <2>2. CASE \E s \in BlockSizes : start + InFrames(SampleSize - s) - MaxLag <= v + A + lost
    <3>1. PICK s \in BlockSizes : start + InFrames(SampleSize - s) - MaxLag <= v + A + lost
      BY <2>2
    <3>2. SampleSize - s \in Int
      BY <1>1
    <3>3. InFrames(SampleSize - s) \in Int
      BY <3>2, Frames
    <3>4. start + InFrames(SampleSize - s) - MaxLag <= v + A + ls
      BY <3>1, <3>3, <1>1, <1>3, <1>4, <1>7
    <3> QED BY <3>4
  <2> QED BY <2>1, <2>2, <1>5
<1>10. i < l => v <= start + InFrames(i) + MaxSkew
  <2> DEFINE I == InFrames(i)
             L == InFrames(l)
  <2>1. now - start <= L + (FramesPerMs - 1)
    OBVIOUS
  <2>2. i < l => A = L - I /\ L \in Nat /\ I \in Nat
    BY <1>6
  <2> HIDE DEF I, L
  <2>3. v + A + m <= heard
    BY <1>5
  <2>4. ASSUME i < l PROVE v <= start + I + MaxSkew
    <3>1. A = L - I /\ L \in Nat /\ I \in Nat
      BY <2>2, <2>4
    <3>2. v + (L - I) <= now
      BY <3>1, <2>3, <1>1, <1>3
    <3>3. now <= start + L + MaxSkew
      BY <3>1, <2>1, <1>1
    <3> QED BY <3>1, <3>2, <3>3, <1>1, <1>3
  <2> QED BY <2>4 DEF I
<1> QED BY <1>3, <1>8, <1>9, <1>10 DEF A

LEMMA TrackedAfterAlign ==
  ASSUME TypeInv, OrderInv, slip = 0, NEW w \in 0..now, Tracked(w),
         PeriodBegins \/ PeriodGoesOn(Len(staged)), lost' \in 0..MaxLost,
         NEW l, l = ClockKin(now),
         NEW b, b = BlankBuffer \/ b = Rotated(d2, l - kin)
  PROVE  \E ls \in Nat, from \in Nat :
           /\ lost' = ls /\ began' = from
           /\ ClockTracked(now, SecondInPeriod(now), heard, ls)
           /\ CountTracked(PeriodStart(now), l, 0, heard, ls)
           /\ SeenTracked(PeriodStart(now), CountSeen, 0, heard, ls)
           /\ CellsTracked(PeriodStart(now), b, l, 0, heard, from, ls)
<1> DEFINE start == PeriodStart(now)
           m == Len(staged)
<1>1. /\ ClockTracked(w, ns, heard, lost) /\ lost <= MaxLost
      /\ heard \in Nat /\ began \in Nat /\ lost \in Nat /\ now \in Nat /\ m \in Nat
      /\ heard <= now /\ now - heard <= MaxLag
      /\ MaxLag \in Nat /\ FramesPerMs \in Nat \ {0} /\ MaxLost \in Nat
      /\ \A i \in Cell : d2[i] # Blank => d2[i] \in Nat
  BY CallbackBounds, Units DEF Tracked, CountTracked, TypeInv
<1>2. /\ l \in Cell /\ l \in Nat /\ InFrames(l) \in Nat
      /\ InFrames(l) <= now - start /\ now - start <= InFrames(l) + (FramesPerMs - 1)
      /\ start \in Nat
  <2>1. l \in Cell /\ l \in Nat
    BY <1>1, ClockCount DEF Cell
  <2> QED BY <2>1, <1>1, ClockCount, ClockBounds, Frames
<1> HIDE DEF m
<1>3. ASSUME NEW ls \in Nat, ls <= MaxLost
      PROVE  /\ ClockTracked(now, SecondInPeriod(now), heard, ls)
             /\ CountTracked(start, l, 0, heard, ls)
  <2> HIDE DEF start
  <2>1. ClockTracked(now, SecondInPeriod(now), heard, ls)
    BY <1>1 DEF ClockTracked
  <2>2. KeptUp(l, start, 0, heard, ls)
    BY <1>1, <1>2 DEF KeptUp
  <2>3. InFrames(l) + 0 <= heard - start + MaxLag
    BY <1>1, <1>2
  <2> QED BY <2>1, <2>2, <2>3, <1>3 DEF CountTracked
<1>4. CellsHeard(b, heard)
  BY <1>2, OrderAfterAlign
<1>5. ASSUME NEW from, \A i \in Cell : ~(b[i] # Blank /\ b[i] >= from), NEW ls
      PROVE  CellsTracked(start, b, l, 0, heard, from, ls)
  BY <1>5 DEF CellsTracked
<1>6. CountSeen \in Nat /\ InFrames(CountSeen) \in Nat
  BY CountSeenType, Frames
<1>7. CASE PeriodBegins
  <2>1. PICK ls \in Nat : lost' = ls /\ ls <= MaxLost /\ heard - PeriodStart(now) <= ls
    BY <1>1, <1>7, PeriodLosses
  <2>2. began' = heard
    BY <1>1, <1>7, PeriodLosses
  <2>3. SeenTracked(start, CountSeen, 0, heard, ls)
    <3>1. heard - start <= ls
      BY <2>1
    <3> HIDE DEF start
    <3>2. KeptUp(CountSeen, start, 0, heard, ls)
      BY <3>1, <1>1, <1>2, <1>6 DEF KeptUp
    <3> QED BY <3>2 DEF SeenTracked
  <2>4. \A i \in Cell : ~(b[i] # Blank /\ b[i] >= heard)
    <3>1. \A i \in Cell : b[i] # Blank => b[i] \in Nat
      <4>1. kin \in Cell /\ d2 \in [Cell -> Nat \cup {Blank}]
        BY DEF TypeInv
      <4>2. b \in [Cell -> Nat \cup {Blank}]
        BY <4>1, <1>2, BufferTypes
      <4> QED BY <4>2
    <3> QED BY <3>1, <1>1, <1>4 DEF CellsHeard
  <2> QED BY <2>1, <2>2, <2>3, <2>4, <1>1, <1>3, <1>5
<1>8. CASE PeriodGoesOn(Len(staged))
  <2> DEFINE ls == lost + m
  <2>1. ~Wrapped(WallClock) /\ began' = began /\ lost' = ls
    BY <1>8 DEF PeriodGoesOn, m
  <2>2. PeriodStart(now) = PeriodStart(w)
    BY <2>1, <1>1, ClockMoves
  <2>3. ls \in Nat /\ ls <= MaxLost
    BY <2>1, <1>1
  <2>4. SeenTracked(start, CountSeen, 0, heard, ls)
    <3>1. SeenTracked(start, CountSeen, m, heard, lost)
      BY <2>2 DEF Tracked, m
    <3> HIDE DEF start
    <3>2. CountSeen + MaxStep >= SampleSize
             \/ heard - start <= InFrames(CountSeen) + m + lost + (FramesPerMs - 1)
      BY <3>1 DEF SeenTracked, KeptUp
    <3>3. CountSeen + MaxStep >= SampleSize
             \/ heard - start <= InFrames(CountSeen) + 0 + ls + (FramesPerMs - 1)
      BY <3>2, <1>1, <1>2, <1>6
    <3> QED BY <3>3 DEF SeenTracked, KeptUp
  <2>5. CellsTracked(start, b, l, 0, heard, began, ls)
    <3>1. CASE b = BlankBuffer
      <4>1. \A i \in Cell : b[i] = Blank
        BY <3>1 DEF BlankBuffer, Cell
      <4> QED BY <4>1, <1>5
    <3>2. CASE b = Rotated(d2, l - kin)
      <4>1. CellsTracked(start, d2, kin, Len(staged), heard, began, lost)
        BY <2>2 DEF Tracked
      <4>2. ls = lost + Len(staged)
        BY DEF m
      <4> HIDE DEF start, ls
      <4>3. CellsTracked(start, Rotated(d2, l - kin), l, 0, heard, began, ls)
        BY <4>1, <4>2, <2>3, <1>2, CellsAfterRotation
      <4> QED BY <4>3, <3>2
    <3> QED BY <3>1, <3>2
  <2> QED BY <2>1, <2>3, <2>4, <2>5, <1>1, <1>3
<1> QED BY <1>7, <1>8

LEMMA WriteTracked ==
  ASSUME TypeInv, OrderInv, slip = 0, NEW w \in 0..now, Tracked(w), Write, NEW v, v = now
  PROVE  Tracked(v)'
<1>1. PICK n \in 1..(now - heard), l \in Cell, rest \in Seq(Nat) :
         \E used \in Nat, acc \in 0..n :
         /\ WriteOutcome(KinAtWrite(WallClock), l, StagedAtWrite(WallClock), rest, n, used, acc)
         /\ heard' = heard + n
  BY WriteStep
<1>2. PICK used \in Nat, acc \in 0..n :
         WriteOutcome(KinAtWrite(WallClock), l, StagedAtWrite(WallClock), rest, n, used, acc)
  BY <1>1
<1>3. /\ ns' = SecondInPeriod(WallClock) /\ stats'.kinAfter = kin'
      /\ PeriodBegins \/ PeriodGoesOn(0)
      /\ prev' = kin /\ samplesPerFft' = samplesPerFft
  BY WriteStep
<1> DEFINE k == KinAtWrite(WallClock)
           st == StagedAtWrite(WallClock)
           start == PeriodStart(now)
<1>4. PICK ls \in Nat, from \in Nat :
        /\ lost' = ls /\ began' = from
        /\ CountTracked(start, k, Len(st), heard, ls)
        /\ StagedTracked(k, samplesPerFft, st, heard, ls)
        /\ CellsTracked(start, d2, k, Len(st), heard, from, ls)
  BY <1>3, TrackedAtWrite
<1>5. k \in Cell /\ st \in Seq(Nat)
  BY <1>3, OrderAtWrite
<1>6. /\ samplesPerFft \in BlockSizes /\ heard \in Nat /\ n \in Nat /\ now \in Nat
      /\ heard + n <= now /\ kin \in Cell
  BY DEF TypeInv
<1>7. start \in Nat /\ heard < start + PeriodFrames /\ WallClock = now
  <2>1. start \in Nat /\ now < start + PeriodFrames
    BY <1>6, ClockBounds
  <2>2. PeriodFrames \in Nat /\ heard < now
    BY <1>6, Units
  <2> HIDE DEF start
  <2> QED BY <2>1, <2>2, <1>6 DEF WallClock
<1>8. PICK b : d2' = b
  OBVIOUS
<1>9. WriteOutcome(k, l, st, rest, n, used, acc)
  BY <1>2
<1> HIDE DEF k, st, start
<1>10. /\ CountTracked(start, l, Len(rest), heard + n, ls)
       /\ SeenTracked(start, l, Len(rest), heard + n, ls)
  BY <1>4, <1>5, <1>6, <1>7, <1>9, CountAfterWrite
<1>11. StagedTracked(l, samplesPerFft, rest, heard + n, ls)
  BY <1>4, <1>5, <1>6, <1>9, StagedAfterWrite
<1>12. CellsTracked(start, b, l, Len(rest), heard + n, from, ls)
  BY <1>4, <1>5, <1>6, <1>7, <1>8, <1>9, CellsAfterWrite
<1>13. ClockTracked(now, SecondInPeriod(now), heard + n, ls)
  BY <1>6 DEF ClockTracked
<1>14. kin' = l /\ staged' = rest
  BY <1>9 DEF WriteOutcome
<1>15. CountSeen' = l
  <2>1. prev' # NotWriting
    BY <1>3, <1>6, Units DEF Cell, NotWriting
  <2> QED BY <2>1, <1>3, <1>14 DEF CountSeen
<1>16. ns' = SecondInPeriod(now) /\ heard' = heard + n
  BY <1>1, <1>3, <1>7
<1>17. /\ ClockTracked(v, SecondInPeriod(now), heard + n, ls)
       /\ CountTracked(PeriodStart(v), l, Len(rest), heard + n, ls)
       /\ SeenTracked(PeriodStart(v), l, Len(rest), heard + n, ls)
       /\ CellsTracked(PeriodStart(v), b, l, Len(rest), heard + n, from, ls)
  BY <1>10, <1>12, <1>13 DEF start
<1> QED BY <1>3, <1>4, <1>8, <1>11, <1>14, <1>15, <1>16, <1>17, TrackedNext

LEMMA AlignTracked ==
  ASSUME TypeInv, OrderInv, slip = 0, NEW w \in 0..now, Tracked(w),
         ClearDetector \/ ResetPosition, NEW v, v = now
  PROVE  Tracked(v)'
<1> DEFINE l == ClockKin(now)
<1>1. WallClock = now
  BY DEF TypeInv, WallClock
<1>2. /\ kin' = l /\ staged' = <<>> /\ ns' = SecondInPeriod(now)
      /\ d2' = BlankBuffer \/ d2' = Rotated(d2, l - kin)
      /\ PeriodBegins \/ PeriodGoesOn(Len(staged))
      /\ lost' \in 0..MaxLost
      /\ UNCHANGED <<samplesPerFft, stats, heard, prev, polled>>
  BY <1>1, AlignStep
<1>3. PICK b : d2' = b
  OBVIOUS
<1>4. l = ClockKin(now)
  OBVIOUS
<1> HIDE DEF l
<1>5. PICK ls \in Nat, from \in Nat :
        /\ lost' = ls /\ began' = from
        /\ ClockTracked(now, SecondInPeriod(now), heard, ls)
        /\ CountTracked(PeriodStart(now), l, 0, heard, ls)
        /\ SeenTracked(PeriodStart(now), CountSeen, 0, heard, ls)
        /\ CellsTracked(PeriodStart(now), b, l, 0, heard, from, ls)
  <2>1. b = BlankBuffer \/ b = Rotated(d2, l - kin)
    BY <1>2, <1>3
  <2> QED BY <2>1, <1>2, <1>4, TrackedAfterAlign
<1>6. Len(<<>>) = 0 /\ StagedTracked(l, samplesPerFft, <<>>, heard, ls)
  BY EmptySeq DEF StagedTracked
<1>7. CountSeen' = CountSeen
  BY <1>2 DEF CountSeen
<1>8. /\ ClockTracked(v, SecondInPeriod(now), heard, ls)
      /\ CountTracked(PeriodStart(v), l, Len(<<>>), heard, ls)
      /\ SeenTracked(PeriodStart(v), CountSeen, Len(<<>>), heard, ls)
      /\ CellsTracked(PeriodStart(v), b, l, Len(<<>>), heard, from, ls)
  BY <1>5, <1>6
<1> QED BY <1>2, <1>3, <1>5, <1>6, <1>7, <1>8, TrackedNext

(* A lost frame counts as heard and as lost, and a staging block that is   *)
(* thrown out as lost.                                                     *)
LEMMA LossTracked ==
  ASSUME TypeInv, slip = 0, NEW w \in 0..now, Tracked(w), LoseFrame \/ ChangeBlockSize
  PROVE  Tracked(w)'
<1> DEFINE start == PeriodStart(w)
           m == Len(staged)
           c == CountSeen
           K == InFrames(kin)
           C == InFrames(c)
<1>1. /\ heard \in Nat /\ lost \in Nat /\ now \in Nat /\ w \in Nat /\ m \in Nat
      /\ kin \in Cell /\ began \in Nat
      /\ \A i \in Cell : d2[i] # Blank => d2[i] \in Nat
      /\ \A y \in 1..m : staged[y] \in Nat
  BY ElementOfSeq DEF TypeInv
<1>2. /\ start \in Nat /\ FramesPerMs \in Nat \ {0} /\ MaxLag \in Nat /\ MaxLost \in Nat
      /\ \A s \in BlockSizes : InFrames(SampleSize - s) \in Int
  <2>1. \A s \in BlockSizes : SampleSize - s \in Int
    BY BlockBounds, Units
  <2> QED BY <2>1, <1>1, ClockBounds, CallbackBounds, Units, Frames
<1>3. K \in Nat /\ C \in Nat
  <2>1. kin \in Nat /\ c \in Nat
    BY <1>1, CountSeenType DEF Cell
  <2> QED BY <2>1, Frames
<1>4. \A i \in Cell : InFrames(AgeAt(kin, i)) \in Nat
  <2>1. \A i \in Cell : AgeAt(kin, i) \in Nat
    <3>1. \A i \in Cell : AgeAt(kin, i) \in 1..SampleSize
      BY <1>1, AgeBounds
    <3> QED BY <3>1
  <2> QED BY <2>1, Frames
<1>5. /\ ns = SecondInPeriod(w) /\ heard <= w + lost
      /\ K + m <= heard - start + MaxLag
      /\ NearEnd(kin) \/ heard - start <= K + m + lost + (FramesPerMs - 1)
      /\ c + MaxStep >= SampleSize \/ heard - start <= C + m + lost + (FramesPerMs - 1)
  BY DEF Tracked, ClockTracked, CountTracked, SeenTracked, KeptUp
<1>6. \A y \in 1..m :
        /\ staged[y] <= heard - (m - y + 1)
        /\ kin + samplesPerFft >= SampleSize \/ staged[y] >= heard - (m - y + 1) - lost
  BY DEF Tracked, StagedTracked
<1>7. \A i \in Cell : d2[i] # Blank /\ d2[i] >= began =>
        /\ d2[i] + InFrames(AgeAt(kin, i)) + m <= heard
        /\ \/ heard <= d2[i] + InFrames(AgeAt(kin, i)) + m + lost
           \/ \E s \in BlockSizes :
                start + InFrames(SampleSize - s) - MaxLag
                  <= d2[i] + InFrames(AgeAt(kin, i)) + lost
        /\ i < kin => d2[i] <= start + InFrames(i) + MaxSkew
  BY DEF Tracked, CellsTracked
(* The new values: one more frame heard and lost, or m more lost.          *)
<1>8. PICK h, ls, st, block :
        /\ heard' = h /\ lost' = ls /\ staged' = st /\ samplesPerFft' = block
        /\ ls <= MaxLost
        /\ \/ h = heard + 1 /\ ls = lost + 1 /\ st = staged /\ block = samplesPerFft
           \/ h = heard /\ ls = lost + m /\ st = <<>>
        /\ UNCHANGED <<d2, kin, ns, began, stats, prev, polled>>
  <2>1. CASE LoseFrame
    <3>1. /\ heard' = heard + 1 /\ lost' = lost + 1 /\ staged' = staged
          /\ samplesPerFft' = samplesPerFft /\ lost' \in 0..MaxLost
          /\ UNCHANGED <<d2, kin, ns, began, stats, prev, polled>>
      BY <2>1 DEF LoseFrame, Trouble, Disturb, detectorVars, pollerVars
    <3>2. lost + 1 <= MaxLost
      BY <3>1
    <3> QED BY <3>1, <3>2
  <2>2. CASE ChangeBlockSize
    <3>1. PICK s \in BlockSizes : SetBlockSize(s)
      BY <2>2 DEF ChangeBlockSize
    <3>2. /\ heard' = heard /\ lost' = lost + m /\ staged' = <<>>
          /\ samplesPerFft' = s /\ lost' \in 0..MaxLost
          /\ UNCHANGED <<d2, kin, ns, began, stats, prev, polled>>
      BY <2>2, <3>1 DEF ChangeBlockSize, SetBlockSize, Trouble, Disturb, pollerVars
    <3>3. lost + m <= MaxLost
      BY <3>2
    <3> QED BY <3>2, <3>3
  <2> QED BY <2>1, <2>2
<1> DEFINE r == Len(st)
<1>9. /\ h \in Nat /\ ls \in Nat /\ r \in Nat
      /\ h - r - ls = heard - m - lost /\ r - h <= m - heard
      /\ lost <= ls /\ h - ls <= heard - lost
  <2>1. st = staged => r = m
    OBVIOUS
  <2>2. st = <<>> => r = 0
    BY EmptySeq
  <2> HIDE DEF r, m
  <2>3. CASE h = heard + 1 /\ ls = lost + 1 /\ st = staged
    BY <2>1, <2>3, <1>1
  <2>4. CASE h = heard /\ ls = lost + m /\ st = <<>>
    BY <2>2, <2>4, <1>1
  <2> QED BY <2>3, <2>4, <1>8
<1>10. StagedTracked(kin, block, st, h, ls)
  <2>1. CASE h = heard + 1 /\ ls = lost + 1 /\ st = staged /\ block = samplesPerFft
    <3>1. ASSUME NEW y \in 1..m
          PROVE  /\ staged[y] <= (heard + 1) - (m - y + 1)
                 /\ \/ kin + samplesPerFft >= SampleSize
                    \/ staged[y] >= (heard + 1) - (m - y + 1) - (lost + 1)
      <4>1. y \in Nat /\ staged[y] \in Nat
        BY <1>1
      <4> QED BY <4>1, <1>1, <1>6
    <3>2. StagedTracked(kin, samplesPerFft, staged, heard + 1, lost + 1)
      BY <3>1 DEF StagedTracked
    <3> QED BY <3>2, <2>1
  <2>2. CASE st = <<>>
    BY <2>2, EmptySeq DEF StagedTracked
  <2> QED BY <2>1, <2>2, <1>8
<1> HIDE DEF r, m, K, C, c, start
<1>11. CountTracked(start, kin, r, h, ls) /\ SeenTracked(start, c, r, h, ls)
  <2>1. K + r <= h - start + MaxLag
    BY <1>1, <1>2, <1>3, <1>5, <1>9
  <2>2. ASSUME NEW x \in Nat, heard - start <= x + m + lost + (FramesPerMs - 1)
        PROVE  h - start <= x + r + ls + (FramesPerMs - 1)
    BY <2>2, <1>1, <1>2, <1>9
  <2>3. /\ NearEnd(kin) \/ h - start <= K + r + ls + (FramesPerMs - 1)
        /\ c + MaxStep >= SampleSize \/ h - start <= C + r + ls + (FramesPerMs - 1)
    BY <2>2, <1>3, <1>5
  <2> QED BY <2>1, <2>3, <1>8 DEF CountTracked, SeenTracked, KeptUp, K, C
<1>12. CellsTracked(start, d2, kin, r, h, began, ls)
  <2> SUFFICES ASSUME NEW i \in Cell, d2[i] # Blank, d2[i] >= began
               PROVE  /\ d2[i] + InFrames(AgeAt(kin, i)) + r <= h
                      /\ \/ h <= d2[i] + InFrames(AgeAt(kin, i)) + r + ls
                         \/ \E s \in BlockSizes :
                              start + InFrames(SampleSize - s) - MaxLag
                                <= d2[i] + InFrames(AgeAt(kin, i)) + ls
                      /\ i < kin => d2[i] <= start + InFrames(i) + MaxSkew
    BY DEF CellsTracked
  <2> DEFINE x == d2[i]
             A == InFrames(AgeAt(kin, i))
  <2>1. /\ x + A + m <= heard
        /\ \/ heard <= x + A + m + lost
           \/ \E s \in BlockSizes : start + InFrames(SampleSize - s) - MaxLag <= x + A + lost
        /\ i < kin => x <= start + InFrames(i) + MaxSkew
        /\ x \in Nat /\ A \in Nat
    BY <1>1, <1>4, <1>7
  <2> HIDE DEF x, A
  <2>2. x + A + r <= h
    BY <2>1, <1>1, <1>9
  <2>3. heard <= x + A + m + lost => h <= x + A + r + ls
    BY <2>1, <1>1, <1>9
  <2>4. ASSUME NEW s \in BlockSizes, start + InFrames(SampleSize - s) - MaxLag <= x + A + lost
        PROVE  start + InFrames(SampleSize - s) - MaxLag <= x + A + ls
    BY <2>1, <2>4, <1>1, <1>2, <1>9
  <2> QED BY <2>1, <2>2, <2>3, <2>4 DEF x, A
<1>13. ClockTracked(w, ns, h, ls)
  BY <1>1, <1>5, <1>9 DEF ClockTracked
<1>14. CountSeen' = c
  BY <1>8 DEF CountSeen, c
<1> QED BY <1>8, <1>10, <1>11, <1>12, <1>13, <1>14, TrackedNext DEF start, r

LEMMA ResetTracked ==
  ASSUME TypeInv, slip = 0, NEW w \in 0..now, Tracked(w), ResetContent
  PROVE  Tracked(w)'
<1>1. d2' = BlankBuffer
      /\ UNCHANGED <<samplesPerFft, kin, staged, ns, stats, heard, began, lost, prev, polled>>
  BY DEF ResetContent, ResetBufferContent, Trouble, Disturb, periodVars, pollerVars
<1>2. CountSeen' = CountSeen
  BY <1>1 DEF CountSeen
<1>3. CellsTracked(PeriodStart(w), BlankBuffer, kin, Len(staged), heard, began, lost)
  BY DEF CellsTracked, BlankBuffer, Cell
<1> QED BY <1>1, <1>2, <1>3, TrackedNext DEF Tracked

LEMMA UndisturbedTracked ==
  ASSUME TypeInv, NEW w, Tracked(w), Tick \/ Poll \/ SetClock \/ UNCHANGED vars
  PROVE  Tracked(w)'
<1>1. UNCHANGED <<samplesPerFft, d2, kin, staged, ns, stats, heard, began, lost>>
  BY DEF Tick, Poll, SetClock, vars, detectorVars, periodVars
<1>2. CountSeen' = CountSeen
  <2>1. CASE Poll
    <3>1. prev # NotWriting /\ prev' = NotWriting /\ polled' = stats.kinAfter
      BY <2>1 DEF Poll
    <3>2. stats.kinAfter # Scheduler!Unpolled
      BY Units DEF TypeInv, Cell, Scheduler!Unpolled
    <3> QED BY <3>1, <3>2 DEF CountSeen
  <2>2. CASE Tick \/ SetClock \/ UNCHANGED vars
    <3>1. UNCHANGED <<prev, polled, stats>>
      BY <2>2 DEF Tick, SetClock, Disturb, vars, detectorVars, pollerVars
    <3> QED BY <3>1 DEF CountSeen
  <2> QED BY <2>1, <2>2
<1> QED BY <1>1, <1>2, TrackedNext DEF Tracked

LEMMA NextTrack == TypeInv /\ OrderInv /\ TrackInv /\ [Next]_vars => TrackInv'
<1> SUFFICES ASSUME TypeInv, OrderInv, TrackInv, [Next]_vars, slip' = 0
             PROVE  (\E w \in 0..now : Tracked(w))'
  BY DEF TrackInv
<1>1. slip = 0
  <2>1. SetClock => slip = 0
    BY DEF SetClock, TypeInv
  <2>2. ~SetClock => slip' = slip
    BY DEF Next, Tick, Write, Poll, LoseFrame, ClearDetector, ResetPosition, ResetContent,
           ChangeBlockSize, Align, Trouble, clockVars, vars
  <2> QED BY <2>1, <2>2
<1>2. PICK w \in 0..now : Tracked(w)
  BY <1>1 DEF TrackInv
<1>3. PICK v : v = now
  OBVIOUS
<1>4. v \in Nat /\ w \in 0..v /\ (now' = v \/ now' = v + 1)
  BY <1>2, <1>3 DEF TypeInv, Next, Tick, Write, Poll, LoseFrame, SetClock, ClearDetector,
           ResetPosition, ResetContent, ChangeBlockSize, Align, Trouble, Disturb, vars
<1>5. Tracked(v)' \/ Tracked(w)'
  <2>1. CASE Write
    BY <2>1, <1>1, <1>2, <1>3, WriteTracked
  <2>2. CASE ClearDetector \/ ResetPosition
    BY <2>2, <1>1, <1>2, <1>3, AlignTracked
  <2>3. CASE LoseFrame \/ ChangeBlockSize
    BY <2>3, <1>1, <1>2, LossTracked
  <2>4. CASE ResetContent
    BY <2>4, <1>1, <1>2, ResetTracked
  <2>5. CASE Tick \/ Poll \/ SetClock \/ UNCHANGED vars
    BY <2>5, <1>2, UndisturbedTracked
  <2> QED BY <2>1, <2>2, <2>3, <2>4, <2>5 DEF Next
<1>6. w \in 0..now' /\ v \in 0..now'
  BY <1>4
<1> QED BY <1>5, <1>6

LEMMA Tracking == Spec => [](TypeInv /\ OrderInv /\ TrackInv)
<1>1. Init => TypeInv /\ OrderInv /\ TrackInv
  BY InitType, InitOrder, InitTrack
<1>2. TypeInv /\ OrderInv /\ TrackInv /\ [Next]_vars => (TypeInv /\ OrderInv /\ TrackInv)'
  BY NextType, NextOrder, NextTrack
<1> QED BY <1>1, <1>2, PTL DEF Spec

-----------------------------------------------------------------------------
(* The scheduler is polled as it expects.                                  *)

(* No audio was lost and no caller interfered, but for someone who set the *)
(* wall clock: the count only moves in writes.                             *)
Untouched == troubles = 0 \/ slip # 0

(* Then the scheduler has seen the count of the last write but for the one *)
(* that waits for its poll.                                                *)
SeenInv ==
  Untouched => IF prev = NotWriting THEN polled \in {kin, Scheduler!Unpolled}
               ELSE polled \in {prev, Scheduler!Unpolled} /\ stats.kinAfter = kin

(* The count that waits for its poll is one the scheduler can be shown.    *)
PollInv ==
  prev # NotWriting =>
    \/ polled = Scheduler!Unpolled
    \/ stats.kinAfter < polled
    \/ /\ stats.kinAfter <= polled + MaxStep
       /\ prev <= stats.kinAfter /\ stats.kinAfter <= prev + MaxStep

(* Someone who interferes leaves the wall clock alone, and is counted.     *)
LEMMA Touched ==
  ASSUME TypeInv, LoseFrame \/ ClearDetector \/ ResetPosition \/ ResetContent \/ ChangeBlockSize
  PROVE  slip = 0 /\ slip' = 0 /\ troubles' # 0 /\ ~Untouched'
<1>1. slip = 0 /\ slip' = slip /\ troubles' = troubles + 1
  BY DEF LoseFrame, ClearDetector, ResetPosition, ResetContent, ChangeBlockSize, Align, Trouble,
         Disturb, clockVars
<1>2. troubles' # 0
  BY <1>1 DEF TypeInv
<1> QED BY <1>1, <1>2 DEF Untouched

LEMMA NextSeen == TypeInv /\ SeenInv /\ [Next]_vars => SeenInv'
<1> SUFFICES ASSUME TypeInv, SeenInv, [Next]_vars, Untouched' PROVE SeenInv'
  BY DEF SeenInv
<1>1. CASE Write
  <2>1. /\ stats'.kinAfter = kin' /\ prev = NotWriting /\ prev' = kin
        /\ UNCHANGED <<slip, troubles, polled>>
    BY <1>1, WriteStep
  <2>2. prev' # NotWriting
    BY <2>1, Units DEF TypeInv, Cell, NotWriting
  <2> QED BY <2>1, <2>2 DEF SeenInv, Untouched
<1>2. CASE Poll
  <2>1. /\ prev # NotWriting /\ prev' = NotWriting /\ polled' = stats.kinAfter
        /\ UNCHANGED <<kin, slip, troubles>>
    BY <1>2 DEF Poll, detectorVars, clockVars
  <2> QED BY <2>1 DEF SeenInv, Untouched
<1>3. CASE Tick \/ SetClock \/ UNCHANGED vars
  <2>1. UNCHANGED <<kin, stats, prev, polled>> /\ Untouched
    BY <1>3 DEF Tick, SetClock, Disturb, vars, detectorVars, clockVars, pollerVars, Untouched
  <2> QED BY <2>1 DEF SeenInv
<1>4. CASE LoseFrame \/ ClearDetector \/ ResetPosition \/ ResetContent \/ ChangeBlockSize
  BY <1>4, Touched
<1> QED BY <1>1, <1>2, <1>3, <1>4 DEF Next

(* How far a write moves the count.                                        *)
LEMMA WriteGain ==
  ASSUME TypeInv, NEW k \in Cell, NEW l, NEW st \in Seq(Nat), NEW rest, NEW n \in Nat,
         NEW used \in Nat, NEW acc \in 0..n, WriteOutcome(k, l, st, rest, n, used, acc),
         n <= MaxLag, Len(st) < BlockFrames
  PROVE  /\ l \in Cell /\ k <= l /\ l <= k + MaxStep
         /\ Len(st) = 0 => InFrames(l) - InFrames(k) <= MaxLag /\ l < k + MaxStep
<1>1. Balanced(k, l, Len(st), Len(rest), n, used, acc)
  BY WriteBalance
<1>2. samplesPerFft \in BlockSizes /\ BlockFrames = InFrames(samplesPerFft)
  BY DEF TypeInv, BlockFrames, InFrames
<1>3. /\ MaxLag \in Nat \ {0} /\ MaxLost \in Nat /\ MaxStep \in Nat /\ FramesPerMs \in Nat \ {0}
      /\ InFrames(samplesPerFft) \in Nat \ {0} /\ InFrames(MaxStep) \in Nat
      /\ (InFrames(samplesPerFft) - 1) + MaxLost + (FramesPerMs - 1) + 2 * MaxLag
            <= InFrames(MaxStep)
  BY <1>2, CallbackBounds, PipelineAssumption, Units, BlockBounds, Frames
<1> DEFINE m == Len(st)
           r == Len(rest)
           K == InFrames(k)
           L == InFrames(l)
           M == InFrames(MaxStep)
           B == InFrames(samplesPerFft)
<1>4. /\ l \in Cell /\ k <= l /\ k \in Nat /\ l \in Nat
      /\ K \in Nat /\ L \in Nat /\ m \in Nat /\ r \in Nat /\ L - K <= used /\ r = m + acc - used
  BY <1>1 DEF Balanced, Cell
<1>5. M \in Nat /\ B \in Nat \ {0} /\ (B - 1) + MaxLost + (FramesPerMs - 1) + 2 * MaxLag <= M
      /\ m < B
  BY <1>2, <1>3
<1>6. l > k + MaxStep => K + M + Ndown <= L
  <2>1. InFrames(k + MaxStep) = K + M /\ k + MaxStep \in Int /\ l \in Int
    BY <1>3, <1>4, Frames
  <2>2. k + MaxStep < l => K + M + Ndown <= L
    BY <2>1, Frames
  <2> QED BY <2>1, <2>2, <1>3, <1>4
<1>7. l >= k + MaxStep => K + M <= L
  <2>1. InFrames(k + MaxStep) = K + M /\ k + MaxStep \in Int /\ l \in Int
    BY <1>3, <1>4, Frames
  <2>2. k + MaxStep <= l => K + M <= L
    BY <2>1, Frames
  <2> QED BY <2>1, <2>2, <1>3, <1>4
<1> HIDE DEF m, r, K, L, M, B
<1>8. L - K <= m + n
  BY <1>4
<1>9. l <= k + MaxStep
  BY <1>3, <1>4, <1>5, <1>6, <1>8, Units
<1>10. m = 0 => L - K <= MaxLag /\ l < k + MaxStep
  BY <1>3, <1>4, <1>5, <1>7, <1>8
<1> QED BY <1>4, <1>9, <1>10 DEF m, K, L

(* When the period wraps at a write, the scheduler has seen all of it but  *)
(* the last MaxStep samples: it wraps only once a period of audio was      *)
(* heard, less what lags, what is staged and what was lost.                *)
LEMMA WrapSeen ==
  ASSUME TypeInv, slip = 0, NEW w \in 0..now, Tracked(w), prev = NotWriting, Wrapped(WallClock)
  PROVE  polled \in Cell /\ polled + MaxStep >= SampleSize
<1> DEFINE start == PeriodStart(w)
           m == Len(staged)
           c == CountSeen
           C == InFrames(c)
           S == InFrames(SampleSize)
           M == InFrames(MaxStep)
           B == InFrames(samplesPerFft)
<1>1. /\ ClockTracked(w, ns, heard, lost) /\ lost <= MaxLost
      /\ c + MaxStep >= SampleSize \/ heard - start <= C + m + lost + (FramesPerMs - 1)
  BY DEF Tracked, CountTracked, SeenTracked, KeptUp
<1>2. /\ heard \in Nat /\ lost \in Nat /\ now \in Nat /\ now - heard <= MaxLag /\ m \in Nat
      /\ c \in Nat /\ samplesPerFft \in BlockSizes /\ m < B
  BY CountSeenType DEF TypeInv, BlockFrames, InFrames
<1>3. /\ MaxLag \in Nat \ {0} /\ MaxLost \in Nat /\ MaxStep \in Nat /\ FramesPerMs \in Nat \ {0}
      /\ SampleSize \in Nat \ {0} /\ 2 * MaxStep <= SampleSize
  BY CallbackBounds, PipelineAssumption, Units
<1>4. /\ C \in Nat /\ S \in Nat /\ M \in Nat /\ B \in Nat \ {0}
      /\ (B - 1) + MaxLost + (FramesPerMs - 1) + 2 * MaxLag <= M
      /\ C < S - M => c + MaxStep < SampleSize
      /\ c + MaxStep < SampleSize => C + M < S
  <2>1. /\ B \in Nat \ {0} /\ (B - 1) + MaxLost + (FramesPerMs - 1) + 2 * MaxLag <= M
    BY <1>2, BlockBounds
  <2>2. c \in Int /\ MaxStep \in Int /\ SampleSize \in Int /\ c + MaxStep \in Int
    BY <1>2, <1>3
  <2>3. C \in Nat /\ S \in Nat /\ M \in Nat /\ InFrames(c + MaxStep) = C + M
    BY <2>2, <1>2, <1>3, Frames
  <2>4. /\ c + MaxStep < SampleSize => C + M + Ndown <= S
        /\ SampleSize <= c + MaxStep => S <= C + M
    BY <2>2, <2>3, Frames
  <2> HIDE DEF C, S, M, B, c
  <2> QED BY <2>1, <2>2, <2>3, <2>4, Units
<1>5. /\ start + S <= now /\ start \in Nat
  <2>1. PeriodStart(now) = start + PeriodFrames /\ PeriodStart(now) <= now /\ start \in Nat
    BY <1>1, ClockMoves
  <2> QED BY <2>1, CallbackBounds
<1> HIDE DEF start, m, c, C, S, M, B
<1>6. c + MaxStep >= SampleSize
  <2>1. heard - start <= C + m + lost + (FramesPerMs - 1) => S <= C + M
    BY <1>1, <1>2, <1>3, <1>4, <1>5
  <2> QED BY <2>1, <1>1, <1>2, <1>3, <1>4
<1>7. c # 0
  BY <1>3, <1>6
<1>8. polled # Scheduler!Unpolled /\ c = polled
  BY <1>7 DEF c, CountSeen
<1> QED BY <1>6, <1>8 DEF TypeInv

(* While the period goes on, a write takes the count no further than       *)
(* MaxStep beyond what the scheduler has seen.                             *)
LEMMA ForwardSeen ==
  ASSUME TypeInv, slip = 0, NEW w \in 0..now, Tracked(w), prev = NotWriting,
         polled # Scheduler!Unpolled, NEW l, NEW rest, NEW n \in Nat, n <= MaxLag,
         NEW used \in Nat, NEW acc \in 0..n, WriteOutcome(kin, l, staged, rest, n, used, acc)
  PROVE  l <= polled + MaxStep
<1> DEFINE start == PeriodStart(w)
           m == Len(staged)
           r == Len(rest)
           K == InFrames(kin)
           L == InFrames(l)
           C == InFrames(polled)
           M == InFrames(MaxStep)
           B == InFrames(samplesPerFft)
<1>1. /\ lost <= MaxLost /\ K + m <= heard - start + MaxLag
      /\ polled + MaxStep >= SampleSize \/ heard - start <= C + m + lost + (FramesPerMs - 1)
  BY DEF Tracked, CountTracked, SeenTracked, KeptUp, CountSeen
<1>2. /\ heard \in Nat /\ lost \in Nat /\ m \in Nat /\ kin \in Cell /\ staged \in Seq(Nat)
      /\ polled \in Nat /\ samplesPerFft \in BlockSizes /\ m < B /\ w \in Nat
  BY DEF TypeInv, BlockFrames, InFrames, Cell
<1>3. /\ K \in Nat /\ L \in Nat /\ r \in Nat /\ L + r <= K + m + n /\ l \in Cell
  <2>1. Balanced(kin, l, m, r, n, used, acc)
    BY <1>2, WriteBalance
  <2> HIDE DEF m, r
  <2> QED BY <2>1 DEF Balanced
<1>4. /\ MaxLag \in Nat /\ MaxLost \in Nat /\ MaxStep \in Nat /\ FramesPerMs \in Nat \ {0}
      /\ SampleSize \in Nat /\ Ndown \in Nat \ {0} /\ start \in Nat /\ l \in Nat /\ l < SampleSize
  BY <1>2, <1>3, CallbackBounds, ClockBounds, Units DEF Cell
<1>5. /\ B \in Nat \ {0} /\ (B - 1) + MaxLost + (FramesPerMs - 1) + 2 * MaxLag <= M
      /\ C \in Nat /\ M \in Nat
      /\ l > polled + MaxStep => C + M + Ndown <= L
  <2>1. B \in Nat \ {0} /\ (B - 1) + MaxLost + (FramesPerMs - 1) + 2 * MaxLag <= M
    BY <1>2, BlockBounds
  <2>2. C \in Nat /\ M \in Nat /\ InFrames(polled + MaxStep) = C + M
    <3>1. polled \in Nat /\ MaxStep \in Nat /\ polled \in Int /\ MaxStep \in Int
      BY <1>2, <1>4
    <3> QED BY ONLY <3>1, Frames
  <2>3. polled + MaxStep < l => C + M + Ndown <= L
    BY <2>2, <1>2, <1>4, Frames
  <2> HIDE DEF C, M, L, B
  <2> QED BY <2>1, <2>2, <2>3, <1>2, <1>4
<1> HIDE DEF start, m, r, K, L, C, M, B
<1>6. CASE polled + MaxStep >= SampleSize
  BY <1>6, <1>2, <1>4
<1>7. CASE heard - start <= C + m + lost + (FramesPerMs - 1)
  <2>1. L <= C + M
    BY <1>7, <1>1, <1>2, <1>3, <1>4, <1>5
  <2> QED BY <2>1, <1>2, <1>3, <1>4, <1>5
<1> QED BY <1>1, <1>6, <1>7

LEMMA WritePolls ==
  ASSUME TypeInv, OrderInv, TrackInv, SeenInv, Write
  PROVE  PollInv'
<1>1. PICK n \in 1..(now - heard), l \in Cell, rest \in Seq(Nat) :
         \E used \in Nat, acc \in 0..n :
         /\ WriteOutcome(KinAtWrite(WallClock), l, StagedAtWrite(WallClock), rest, n, used, acc)
         /\ heard' = heard + n
  BY WriteStep
<1>2. PICK used \in Nat, acc \in 0..n :
         WriteOutcome(KinAtWrite(WallClock), l, StagedAtWrite(WallClock), rest, n, used, acc)
  BY <1>1
<1>3. /\ stats'.kinAfter = l
      /\ PeriodBegins \/ PeriodGoesOn(0)
      /\ prev = NotWriting /\ prev' = kin /\ polled' = polled
  <2>1. kin' = l
    BY <1>2 DEF WriteOutcome
  <2>2. /\ stats'.kinAfter = kin'
        /\ PeriodBegins \/ PeriodGoesOn(0)
        /\ prev = NotWriting /\ prev' = kin /\ polled' = polled
    BY WriteStep
  <2> QED BY <2>1, <2>2
<1> DEFINE k == KinAtWrite(WallClock)
           st == StagedAtWrite(WallClock)
<1>4. k \in Cell /\ st \in Seq(Nat)
  BY <1>3, OrderAtWrite
<1>5. /\ n <= MaxLag /\ n \in Nat /\ kin \in Cell /\ MaxStep \in Nat
      /\ polled \in Cell \cup {Scheduler!Unpolled} /\ SampleSize \in Nat
      /\ Len(staged) < BlockFrames /\ samplesPerFft \in BlockSizes
      /\ 2 * MaxStep <= SampleSize
  BY CallbackBounds, Units DEF TypeInv
<1>6. Len(st) < BlockFrames
  BY <1>5, EmptyBlock DEF StagedAtWrite
<1>7. /\ l \in Cell /\ k <= l /\ l <= k + MaxStep
      /\ Len(st) = 0 => InFrames(l) - InFrames(k) <= MaxLag /\ l < k + MaxStep
  <2>1. WriteOutcome(k, l, st, rest, n, used, acc)
    BY <1>2
  <2> HIDE DEF k, st
  <2> QED BY <2>1, <1>4, <1>5, <1>6, WriteGain
<1>8. SeenInv /\ Untouched => polled \in {kin, Scheduler!Unpolled}
  BY <1>3 DEF SeenInv
(* The period goes on.                                                     *)
<1>9. ASSUME ~Wrapped(WallClock)
      PROVE  \/ polled = Scheduler!Unpolled \/ l < polled
             \/ l <= polled + MaxStep /\ kin <= l /\ l <= kin + MaxStep
  <2>1. k = kin /\ st = staged
    BY <1>9 DEF KinAtWrite, StagedAtWrite
  <2>2. kin <= l /\ l <= kin + MaxStep
    BY <2>1, <1>7
  <2>3. CASE slip # 0
    BY <2>2, <2>3, <1>8 DEF Untouched
  <2>4. CASE slip = 0
    <3>1. PICK w \in 0..now : Tracked(w)
      BY <2>4 DEF TrackInv
    <3>2. WriteOutcome(kin, l, staged, rest, n, used, acc)
      BY <2>1, <1>2
    <3>3. polled # Scheduler!Unpolled => l <= polled + MaxStep
      BY <3>1, <3>2, <2>4, <1>3, <1>5, ForwardSeen
    <3> QED BY <3>3, <2>2
  <2> QED BY <2>3, <2>4
(* The period wraps.                                                       *)
<1>10. ASSUME Wrapped(WallClock)
       PROVE  \/ polled = Scheduler!Unpolled \/ l < polled
              \/ l <= polled + MaxStep /\ kin <= l /\ l <= kin + MaxStep
  <2>1. k = 0 /\ Len(st) = 0
    BY <1>10, EmptySeq DEF KinAtWrite, StagedAtWrite
  <2>2. l < MaxStep
    BY <2>1, <1>5, <1>7
  <2>3. CASE slip = 0
    <3>1. PICK w \in 0..now : Tracked(w)
      BY <2>3 DEF TrackInv
    <3>2. polled \in Cell /\ polled + MaxStep >= SampleSize
      BY <3>1, <2>3, <1>3, <1>10, WrapSeen
    <3>3. l < polled
      BY <3>2, <2>2, <1>5, <1>7 DEF Cell
    <3> QED BY <3>3
  <2>4. CASE slip # 0
    <3>1. polled \in {kin, Scheduler!Unpolled}
      BY <2>4, <1>8 DEF Untouched
    <3> HIDE DEF k, st
    <3>2. kin \in Nat /\ l \in Nat
      BY <1>5, <1>7 DEF Cell
    <3>3. CASE polled = kin
      BY <3>2, <3>3, <2>2, <1>5
    <3> QED BY <3>1, <3>3
  <2> QED BY <2>3, <2>4
<1>11. stats'.kinAfter = l /\ prev' = kin /\ polled' = polled
  BY <1>3
<1> HIDE DEF k, st
<1> QED BY <1>9, <1>10, <1>11 DEF PollInv

LEMMA NextPolls == TypeInv /\ OrderInv /\ TrackInv /\ SeenInv /\ PollInv /\ [Next]_vars => PollInv'
<1> SUFFICES ASSUME TypeInv, OrderInv, TrackInv, SeenInv, PollInv, [Next]_vars PROVE PollInv'
  OBVIOUS
<1>1. CASE Write
  BY <1>1, WritePolls
<1>2. CASE Poll
  BY <1>2 DEF Poll, PollInv
<1>3. CASE ~Write /\ ~Poll
  <2>1. UNCHANGED <<prev, polled, stats>>
    BY <1>3 DEF Next, Tick, LoseFrame, SetClock, ClearDetector, ResetPosition, ResetContent,
           ChangeBlockSize, Clear, ResetBufferPosition, ResetBufferContent, AlignToClock,
           SetBlockSize, Align, Trouble, Disturb, detectorVars, pollerVars, vars
  <2> QED BY <2>1 DEF PollInv
<1> QED BY <1>1, <1>2, <1>3

(* A poll shows the scheduler a count and an earlier one as its            *)
(* specification allows: a first poll, a step forward, or a step back.     *)
LEMMA PollIsExpected ==
  ASSUME TypeInv, PollInv, Poll PROVE Scheduler!Next
<1> DEFINE k == stats.kinAfter
<1>1. /\ prev # NotWriting /\ Scheduler!NextWindow(k, prev) /\ polled' = k
      /\ k \in Scheduler!Count /\ prev \in Scheduler!Count
  BY DEF Poll, TypeInv, Cell, Scheduler!Count
<1>2. /\ k \in Nat /\ prev \in Nat /\ MaxStep \in Nat
      /\ polled \in Nat \/ polled = Scheduler!Unpolled
  BY <1>1, CallbackBounds DEF TypeInv, Cell, Scheduler!Count
<1>3. \/ polled = Scheduler!Unpolled \/ k < polled
      \/ k <= polled + MaxStep /\ prev <= k /\ k <= prev + MaxStep
  BY <1>1 DEF PollInv
<1> HIDE DEF k
<1>4. CASE polled = Scheduler!Unpolled
  <2>1. Scheduler!FirstPoll(k, prev)
    BY <1>1, <1>4 DEF Scheduler!FirstPoll
  <2> QED BY <2>1, <1>1 DEF Scheduler!Next
<1>5. CASE polled \in Nat /\ k < polled
  <2>1. polled # Scheduler!Unpolled
    BY <1>5 DEF Scheduler!Unpolled
  <2>2. Scheduler!PollBackward(k, prev)
    BY <2>1, <1>1, <1>5 DEF Scheduler!PollBackward
  <2> QED BY <2>2, <1>1 DEF Scheduler!Next
<1>6. CASE /\ polled \in Nat /\ ~(k < polled)
           /\ k <= polled + MaxStep /\ prev <= k /\ k <= prev + MaxStep
  <2>1. polled # Scheduler!Unpolled
    BY <1>6 DEF Scheduler!Unpolled
  <2>2. k \in polled..(polled + MaxStep) /\ prev \in (k - MaxStep)..k
    BY <1>2, <1>6
  <2>3. Scheduler!PollForward(k, prev)
    BY <2>1, <2>2, <1>1 DEF Scheduler!PollForward
  <2> QED BY <2>3, <1>1 DEF Scheduler!Next
<1> QED BY <1>2, <1>3, <1>4, <1>5, <1>6

(* However the audio comes in, is lost, and whatever else the callers do   *)
(* to the detector, the scheduler is polled as its specification expects.  *)
THEOREM SchedulerIsPolledRight == Spec => PolledAsExpected
<1> DEFINE Inv == TypeInv /\ OrderInv /\ TrackInv /\ SeenInv /\ PollInv
<1>1. Init => Inv
  <2>1. Init => SeenInv /\ PollInv
    BY DEF Init, Scheduler!Init, SeenInv, PollInv
  <2> QED BY <2>1, InitType, InitOrder, InitTrack
<1>2. Inv /\ [Next]_vars => Inv'
  BY NextType, NextOrder, NextTrack, NextSeen, NextPolls
<1>3. Init => Scheduler!Init
  BY DEF Init
<1>4. Inv /\ [Next]_vars => [Scheduler!Next]_(Scheduler!vars)
  <2> SUFFICES ASSUME Inv, [Next]_vars PROVE Scheduler!Next \/ UNCHANGED Scheduler!vars
    OBVIOUS
  <2>1. CASE Poll
    BY <2>1, PollIsExpected
  <2>2. CASE ~Poll
    <3>1. UNCHANGED <<cursor, window, polled>>
      BY <2>2 DEF Next, Tick, Write, LoseFrame, SetClock, ClearDetector, ResetPosition,
             ResetContent, ChangeBlockSize, Align, Trouble, Disturb, pollerVars, vars
    <3> QED BY <3>1 DEF Scheduler!vars
  <2> QED BY <2>1, <2>2
<1> HIDE DEF Inv
<1> QED BY <1>1, <1>2, <1>3, <1>4, PTL DEF Spec, PolledAsExpected, Scheduler!Spec

(* Unless the clock was set, no period wraps at a write before the poll    *)
(* that decodes the last slot of every submode.                            *)
THEOREM NoPeriodCutShort == Spec => PeriodHeardOut
<1> DEFINE HeardOut == Write /\ Wrapped(WallClock) /\ slip = 0
                         => \A m \in Submode : polled >= LastReadyPoint(m)
<1>1. ASSUME TypeInv, TrackInv, Write, Wrapped(WallClock), slip = 0, NEW m \in Submode
      PROVE  polled >= LastReadyPoint(m)
  <2>1. PICK w \in 0..now : Tracked(w)
    BY <1>1 DEF TrackInv
  <2>2. prev = NotWriting
    BY <1>1 DEF Write
  <2>3. polled \in Cell /\ polled + MaxStep >= SampleSize
    BY <1>1, <2>1, <2>2, WrapSeen
  <2>4. /\ SamplesPerPeriod[m] \in Nat /\ SamplesNeeded[m] \in 1..(SamplesPerPeriod[m] - 1)
        /\ MaxStep <= SamplesPerPeriod[m] - SamplesNeeded[m]
    BY PollAssumption DEF Scheduler!SchedulerAssumption
  <2> QED BY <2>3, <2>4, CallbackBounds, Units DEF LastReadyPoint, Cell
<1>2. TypeInv /\ TrackInv => [HeardOut]_vars
  BY <1>1
<1> HIDE DEF HeardOut
<1>3. Spec => [][HeardOut]_vars
  BY <1>2, Tracking, PTL DEF Spec
<1> QED BY <1>3 DEF PeriodHeardOut, HeardOut

-----------------------------------------------------------------------------
(* What is known of the scheduler holds of the one that is polled here:    *)
(* SlotSearchProofs, for frames of no length, as nothing is searched.      *)

Anywhere == [m \in Submode |-> 0]

Polls == INSTANCE SlotSearchProofs WITH kin <- polled, StartDelay <- Anywhere,
           SymbolSamples <- Anywhere, SearchFirst <- Anywhere, SearchLast <- Anywhere,
           ClockError <- 0

LEMMA PollsAssumptions ==
  Polls!SchedulerAssumption /\ Polls!SearchAssumption /\ Polls!FrameAssumption
<1>1. Scheduler!SchedulerAssumption
  BY PollAssumption
<1>2. Polls!SchedulerAssumption
  BY <1>1 DEF Scheduler!SchedulerAssumption, Polls!SchedulerAssumption
<1>3. Polls!SearchAssumption
  BY Units DEF Polls!SearchAssumption, Anywhere
<1>4. Polls!FrameAssumption
  BY <1>1 DEF Scheduler!SchedulerAssumption, Polls!FrameAssumption, Anywhere
<1> QED BY <1>2, <1>3, <1>4

LEMMA SamePolls ==
  /\ Scheduler!Init => Polls!Init
  /\ [Scheduler!Next]_(Scheduler!vars) => [Polls!Next]_(Polls!vars)
<1>1. Scheduler!Init => Polls!Init
  BY DEF Scheduler!Init, Polls!Init, Scheduler!NewCursor, Polls!NewCursor, Scheduler!NoWindow,
         Polls!NoWindow, Scheduler!None, Polls!None, Scheduler!Unpolled, Polls!Unpolled
<1>2. ASSUME NEW k, NEW k0, Scheduler!NextWindow(k, k0)
      PROVE  Polls!NextWindow(k, k0)
  <2>1. ASSUME NEW m, NEW c
        PROVE  /\ Scheduler!CursorAfter(m, k, k0, c) = Polls!CursorAfter(m, k, k0, c)
               /\ Scheduler!WindowAfter(m, k, k0, c) = Polls!WindowAfter(m, k, k0, c)
    BY DEF Scheduler!CursorAfter, Polls!CursorAfter, Scheduler!WindowAfter, Polls!WindowAfter,
           Scheduler!Rewound, Polls!Rewound, Scheduler!MustRewind, Polls!MustRewind,
           Scheduler!DeadAir, Polls!DeadAir, Scheduler!OrZero, Polls!OrZero,
           Scheduler!SaturatingSub, Polls!SaturatingSub, Scheduler!AbsDiff, Polls!AbsDiff,
           Scheduler!CursorAt, Polls!CursorAt, Scheduler!CycleStart, Polls!CycleStart,
           Scheduler!CycleOfCount, Polls!CycleOfCount, Scheduler!Ready, Polls!Ready,
           Scheduler!Advanced, Polls!Advanced, Scheduler!WindowOf, Polls!WindowOf,
           Scheduler!Larger, Polls!Larger, Scheduler!NoWindow, Polls!NoWindow,
           Scheduler!None, Polls!None
  <2> QED BY <1>2, <2>1 DEF Scheduler!NextWindow, Polls!NextWindow
<1>3. [Scheduler!Next]_(Scheduler!vars) => [Polls!Next]_(Polls!vars)
  BY <1>2 DEF Scheduler!Next, Polls!Next, Scheduler!vars, Polls!vars, Scheduler!FirstPoll,
     Polls!FirstPoll, Scheduler!PollForward, Polls!PollForward, Scheduler!PollBackward,
     Polls!PollBackward, Scheduler!PollLeap, Polls!PollLeap, Scheduler!Unpolled,
     Polls!Unpolled, Scheduler!Count, Polls!Count
<1> QED BY <1>1, <1>3

LEMMA WindowsFound == Spec => []Polls!IInv
<1>1. Polls!Init => Polls!IInv
  BY PollsAssumptions, Polls!InitIInv
<1>2. Polls!IInv /\ [Polls!Next]_(Polls!vars) => Polls!IInv'
  BY PollsAssumptions, Polls!NextIInv
<1>3. Scheduler!Spec => []Polls!IInv
  BY <1>1, <1>2, SamePolls, PTL DEF Scheduler!Spec
<1> QED BY <1>3, SchedulerIsPolledRight DEF PolledAsExpected

-----------------------------------------------------------------------------
(* Undisturbed audio.  While no audio is lost and no caller interferes,    *)
(* the samples below the count are one run of frames, from the first frame *)
(* of the period; and so are those staged, until the last block of the     *)
(* buffer is reached.                                                      *)

CellsRun(b, k, from) == \A i \in 0..(k - 1) : b[i] = from + InFrames(i)

NothingLeftOut(k, st, h, from) ==
  /\ h = from + InFrames(k) + Len(st)
  /\ \A y \in 1..Len(st) : st[y] = from + InFrames(k) + y - 1

StagedRun(k, block, st, h, from) == k + block >= SampleSize \/ NothingLeftOut(k, st, h, from)

(* A run begins at most MaxLag before a period of the wall clock, or, where *)
(* the clock was set, within the first second of one.                      *)
AtPeriodStart(from, s, t, late) ==
  \E p \in 0..(t \div PeriodFrames) : from + s - p * PeriodFrames \in (-MaxLag)..late

Late == IF troubles = 0 THEN 0 ELSE SecondFrames - 1

(* The clock that the last write read, when nobody set it since.           *)
ClockSettled(h, t, s, sec) == \E w \in h..t : w + s \in Nat /\ sec = SecondInPeriod(w + s)

RunInv ==
  Untouched =>
    /\ CellsRun(d2, kin, began)
    /\ StagedRun(kin, samplesPerFft, staged, heard, began)
    /\ troubles = 0 => lost = 0
    /\ ~astray => AtPeriodStart(began, slip, WallClock, Late)
    /\ slip # 0 /\ ~astray => ClockSettled(heard, now, slip, ns)

(* Later the wall clock has no fewer periods behind it.                    *)
LEMMA PeriodsPass ==
  ASSUME NEW t \in Nat, NEW u \in Nat, t <= u
  PROVE  /\ t \div PeriodFrames \in Nat /\ t \div PeriodFrames <= u \div PeriodFrames
         /\ PeriodStart(t) = (t \div PeriodFrames) * PeriodFrames
<1>1. PeriodFrames \in Nat \ {0}
  BY Units
<1> DEFINE P == PeriodFrames
           p == t \div P
           q == u \div P
<1>2. p \in Nat /\ q \in Nat
  BY <1>1
<1>3. p * P <= t /\ u < (q + 1) * P
  BY <1>1
<1>4. ~(q + 1 <= p)
  <2>1. q + 1 <= p => (q + 1) * P <= p * P
    BY <1>1, <1>2
  <2> HIDE DEF p, q
  <2>2. (q + 1) * P \in Int /\ p * P \in Int
    BY <1>1, <1>2
  <2> QED BY <2>1, <2>2, <1>3
<1> HIDE DEF p, q
<1>5. p <= q
  BY <1>2, <1>4
<1> QED BY <1>2, <1>5 DEF PeriodStart, p, q

(* The staged frames and those that come in are one run.                   *)
LEMMA IncomingRun ==
  ASSUME heard \in Nat, NEW k \in Cell, NEW st \in Seq(Nat), NEW n \in Nat, NEW from \in Nat,
         NothingLeftOut(k, st, heard, from), NEW y \in 1..(Len(st) + n)
  PROVE  Incoming(st, y) = from + InFrames(k) + y - 1
<1> DEFINE K == InFrames(k)
<1>1. K \in Nat /\ Len(st) \in Nat
  BY Units, Frames DEF Cell
<1> HIDE DEF K
<1>2. heard = from + K + Len(st) /\ \A z \in 1..Len(st) : st[z] = from + K + z - 1
  BY DEF K, NothingLeftOut
<1>3. CASE y <= Len(st)
  BY <1>1, <1>2, <1>3 DEF Incoming, K
<1>4. CASE ~(y <= Len(st))
  <2>1. Incoming(st, y) = heard + (y - Len(st)) - 1
    BY <1>4 DEF Incoming
  <2>2. heard + (y - Len(st)) - 1 = from + K + y - 1
    BY <1>1, <1>2
  <2> QED BY <2>1, <2>2 DEF K
<1> QED BY <1>3, <1>4

LEMMA RunAfterWrite ==
  ASSUME TypeInv, NEW k \in Cell, NEW l, NEW st \in Seq(Nat), NEW rest, NEW n \in Nat,
         NEW used \in Nat, NEW acc \in 0..n, WriteOutcome(k, l, st, rest, n, used, acc),
         NEW from \in Nat, NEW b, d2' = b,
         CellsRun(d2, k, from), StagedRun(k, samplesPerFft, st, heard, from)
  PROVE  CellsRun(b, l, from) /\ StagedRun(l, samplesPerFft, rest, heard + n, from)
<1>1. /\ \A i \in k..(l - 1) : /\ InFrames(i - k) \in Nat
                               /\ InFrames(i - k) + Ndown <= used
                               /\ InFrames(i - k) + 1 \in 1..(Len(st) + n)
                               /\ i \in Cell
                               /\ d2'[i] = Incoming(st, InFrames(i - k) + 1)
      /\ \A i \in Cell : i \notin k..(l - 1) => d2'[i] = d2[i]
      /\ \A y \in 1..Len(rest) : used + y \in 1..(Len(st) + n)
  BY StoredFrame
<1> DEFINE exact == NothingLeftOut(k, st, heard, from)
           K == InFrames(k)
           L == InFrames(l)
           m == Len(st)
           r == Len(rest)
<1>2. /\ l \in Cell /\ k <= l /\ heard \in Nat /\ k \in Nat /\ l \in Nat
      /\ samplesPerFft \in Nat /\ SampleSize \in Nat
  BY Units, BlockBounds DEF WriteOutcome, TypeInv, Cell
<1>3. /\ K \in Nat /\ L \in Nat /\ m \in Nat /\ r \in Nat
      /\ r = m + acc - used
      /\ \/ l + samplesPerFft >= SampleSize
         \/ L - K = used /\ acc = n
  <2>1. Balanced(k, l, Len(st), Len(rest), n, used, acc)
    BY WriteBalance
  <2> QED BY <2>1 DEF Balanced
<1>4. k + samplesPerFft < SampleSize => exact
  <2>1. k + samplesPerFft < SampleSize => ~(k + samplesPerFft >= SampleSize)
    BY <1>2
  <2> QED BY <2>1 DEF StagedRun
<1>5. exact => \A y \in 1..(Len(st) + n) : Incoming(st, y) = from + InFrames(k) + y - 1
  BY <1>2, IncomingRun
<1>6. CellsRun(b, l, from)
  <2> SUFFICES ASSUME NEW i \in 0..(l - 1) PROVE b[i] = from + InFrames(i)
    BY DEF CellsRun
  <2>1. CASE i < k
    <3>1. i \in 0..(k - 1) /\ i \in Cell /\ i \notin k..(l - 1)
      BY <2>1, <1>2, Units DEF Cell
    <3> QED BY <3>1, <1>1 DEF CellsRun
  <2>2. CASE ~(i < k)
    <3>1. i \in k..(l - 1) /\ k # l /\ i \in Int
      BY <2>2, <1>2
    <3>2. exact
      BY <3>1, <1>4 DEF WriteOutcome
    <3>3. /\ InFrames(i - k) + 1 \in 1..(Len(st) + n)
          /\ b[i] = Incoming(st, InFrames(i - k) + 1)
          /\ InFrames(i - k) \in Nat
      BY <1>1, <3>1
    <3>4. b[i] = from + InFrames(k) + (InFrames(i - k) + 1) - 1
      <4>1. \A y \in 1..(Len(st) + n) : Incoming(st, y) = from + InFrames(k) + y - 1
        BY <3>2, <1>5
      <4> HIDE DEF exact, K, L, m, r
      <4> QED BY <4>1, <3>3
    <3>5. InFrames(i - k) = InFrames(i) - InFrames(k) /\ InFrames(i) \in Int
      <4>1. i \in Int /\ k \in Int
        BY <3>1, <1>2
      <4> QED BY <4>1, Frames
    <3> DEFINE I == InFrames(i)
               J == InFrames(i - k)
    <3>6. I \in Int /\ J \in Nat /\ J = I - K /\ b[i] = from + K + (J + 1) - 1
      BY <3>3, <3>4, <3>5
    <3> HIDE DEF I, J, K
    <3>7. b[i] = from + I
      BY <3>6, <1>3
    <3> QED BY <3>7 DEF I
  <2> QED BY <2>1, <2>2
<1>7. ASSUME ~(l + samplesPerFft >= SampleSize)
      PROVE  /\ heard + n = from + L + r
             /\ \A y \in 1..r : rest[y] = from + L + y - 1
  <2>1. exact /\ L - K = used /\ acc = n
    BY <1>2, <1>3, <1>4, <1>7
  <2>2. heard = from + K + m
    BY <2>1 DEF NothingLeftOut
  <2>3. heard + n = from + L + r
    <3> HIDE DEF K, L, m, r
    <3> QED BY <2>1, <2>2, <1>2, <1>3
  <2>4. ASSUME NEW y \in 1..r PROVE rest[y] = from + L + y - 1
    <3>1. used + y \in 1..(Len(st) + n) /\ rest[y] = Incoming(st, used + y)
      BY <1>1 DEF WriteOutcome
    <3>2. rest[y] = from + InFrames(k) + (used + y) - 1
      <4>1. \A z \in 1..(Len(st) + n) : Incoming(st, z) = from + InFrames(k) + z - 1
        BY <2>1, <1>5
      <4> HIDE DEF exact, K, L, m, r
      <4> QED BY <4>1, <3>1
    <3>3. rest[y] = from + K + (used + y) - 1
      BY <3>2
    <3> HIDE DEF K, L, m, r, exact
    <3> QED BY <3>3, <2>1, <1>2, <1>3
  <2> QED BY <2>3, <2>4
<1> QED BY <1>6, <1>7 DEF StagedRun, NothingLeftOut

(* Where a write begins a period, its run begins with the frames that come *)
(* in; where the period goes on, the run does.                             *)
LEMMA RunAtWrite ==
  ASSUME TypeInv, PeriodBegins \/ PeriodGoesOn(0), CellsRun(d2, kin, began),
         StagedRun(kin, samplesPerFft, staged, heard, began)
  PROVE  \E from \in Nat :
           /\ began' = from
           /\ CellsRun(d2, KinAtWrite(WallClock), from)
           /\ StagedRun(KinAtWrite(WallClock), samplesPerFft, StagedAtWrite(WallClock), heard, from)
<1>1. began \in Nat /\ heard \in Nat
  BY DEF TypeInv
<1>2. CASE Wrapped(WallClock)
  <2>1. began' = heard /\ KinAtWrite(WallClock) = 0 /\ StagedAtWrite(WallClock) = <<>>
    BY <1>2 DEF PeriodBegins, PeriodGoesOn, KinAtWrite, StagedAtWrite
  <2>2. CellsRun(d2, 0, heard)
    BY DEF CellsRun
  <2>3. NothingLeftOut(0, <<>>, heard, heard)
    BY <1>1, Frames, EmptySeq DEF NothingLeftOut
  <2> QED BY <2>1, <2>2, <2>3, <1>1 DEF StagedRun
<1>3. CASE ~Wrapped(WallClock)
  <2>1. began' = began /\ KinAtWrite(WallClock) = kin /\ StagedAtWrite(WallClock) = staged
    BY <1>3 DEF PeriodBegins, PeriodGoesOn, KinAtWrite, StagedAtWrite
  <2> QED BY <2>1, <1>1
<1> QED BY <1>2, <1>3

LEMMA InitRun == Init => RunInv
<1> SUFFICES ASSUME Init PROVE RunInv
  OBVIOUS
<1>1. /\ slip = 0 /\ heard = 0 /\ began = 0 /\ lost = 0 /\ now = 0 /\ troubles = 0
      /\ kin = ClockKin(0) /\ staged = <<>>
  BY DEF Init, InitDetector
<1>2. ClockKin(0) = 0
  <2>1. ClockKin(0) \in Nat /\ PeriodStart(0) \in Nat /\ PeriodStart(0) <= 0
    BY ClockCount, ClockBounds, Units DEF Cell
  <2>2. InFrames(ClockKin(0)) <= 0
    BY <2>1, ClockCount
  <2> DEFINE k == ClockKin(0)
  <2>3. k \in Nat /\ InFrames(k) <= 0
    BY <2>1, <2>2
  <2> HIDE DEF k
  <2>4. 0 < k => InFrames(0) + Ndown <= InFrames(k)
    BY <2>3, Frames
  <2>5. InFrames(0) = 0 /\ Ndown \in Nat \ {0} /\ InFrames(k) \in Int
    BY <2>3, Frames, Units
  <2>6. k = 0
    BY <2>3, <2>4, <2>5
  <2> QED BY <2>6 DEF k
<1>3. CellsRun(d2, kin, began)
  BY <1>1, <1>2 DEF CellsRun
<1>4. NothingLeftOut(kin, staged, heard, began)
  BY <1>1, <1>2, Frames, EmptySeq DEF NothingLeftOut
<1>5. AtPeriodStart(0, 0, 0, 0)
  <2>1. 0 \div PeriodFrames \in Nat /\ PeriodFrames \in Nat /\ MaxLag \in Nat
    BY PeriodsPass, Units, CallbackBounds
  <2>2. 0 \in 0..(0 \div PeriodFrames) /\ 0 + 0 - 0 * PeriodFrames \in (-MaxLag)..0
    BY <2>1
  <2> QED BY <2>2 DEF AtPeriodStart
<1>6. AtPeriodStart(began, slip, WallClock, Late)
  BY <1>1, <1>5 DEF WallClock, Late
<1> QED BY <1>1, <1>3, <1>4, <1>6 DEF RunInv, StagedRun

(* Where a period begins at a write, its run begins near the start of a    *)
(* period of the wall clock: the write follows the last one in an earlier  *)
(* period, or, where the clock was set, in the first second of one.        *)
LEMMA PlaceAtWrite ==
  ASSUME TypeInv, TrackInv, RunInv, Untouched, ~astray \/ SecondInPeriod(WallClock) = 0,
         Wrapped(WallClock)
  PROVE  /\ AtPeriodStart(heard, slip, WallClock, Late)
         /\ troubles = 0 => heard + slip <= PeriodStart(WallClock)
<1>1. /\ now \in Nat /\ heard \in Nat /\ heard <= now /\ now - heard <= MaxLag /\ slip \in Int
      /\ WallClock \in Nat /\ WallClock = now + slip /\ troubles \in Nat
      /\ troubles = 0 => slip = 0 /\ ~astray
  BY DEF TypeInv, WallClock
<1>2. MaxLag \in Nat /\ SecondFrames \in Nat \ {0} /\ PeriodFrames \in Nat
  BY Units, CallbackBounds
<1>3. PICK s \in Nat : s = PeriodStart(WallClock)
  BY <1>1, ClockBounds
<1>4. s <= WallClock
  BY <1>1, <1>3, ClockBounds
<1>5. Late \in Nat /\ (troubles = 0 => Late = 0) /\ (troubles # 0 => Late = SecondFrames - 1)
  BY <1>2 DEF Late
<1>6. heard + slip - s <= Late
  <2>1. CASE slip = 0
    <3>1. troubles = 0 /\ lost = 0
      BY <2>1 DEF Untouched, RunInv
    <3>2. PICK w \in 0..now : Tracked(w)
      BY <2>1 DEF TrackInv
    <3>3. ClockTracked(w, ns, heard, lost) /\ lost <= MaxLost /\ w \in Int
      BY <3>2, <1>1 DEF Tracked, CountTracked
    <3>4. WallClock = now /\ w < PeriodStart(now)
      BY <2>1, <3>3, ClockMoves
    <3>5. heard <= w + 0
      BY <3>1, <3>3 DEF ClockTracked
    <3> QED BY <3>1, <3>3, <3>4, <3>5, <2>1, <1>1, <1>3, <1>5
  <2>2. CASE slip # 0 /\ astray
    <3>1. troubles # 0 /\ SecondInPeriod(WallClock) = 0
      BY <2>2, <1>1
    <3>2. WallClock - PeriodStart(WallClock) < 0 * SecondFrames + SecondFrames
      BY <3>1, <1>1, ClockBounds
    <3>3. WallClock - s < SecondFrames
      BY <3>2, <1>2, <1>3
    <3> QED BY <3>1, <3>3, <1>1, <1>2, <1>5
  <2>3. CASE slip # 0 /\ ~astray
    <3>1. ClockSettled(heard, now, slip, ns)
      BY <2>3 DEF RunInv
    <3>2. PICK w \in heard..now : w + slip \in Nat /\ ns = SecondInPeriod(w + slip)
      BY <3>1 DEF ClockSettled
    <3>3. w \in Int /\ heard <= w /\ w + slip <= WallClock
      BY <3>2, <1>1
    <3>4. SecondInPeriod(WallClock) < SecondInPeriod(w + slip)
      BY <3>2 DEF Wrapped
    <3>5. w + slip < PeriodStart(WallClock)
      BY <3>2, <3>3, <3>4, <1>1, ClockOrder
    <3> QED BY <3>3, <3>5, <1>1, <1>3, <1>5
  <2> QED BY <2>1, <2>2, <2>3
<1>7. -MaxLag <= heard + slip - s
  BY <1>1, <1>2, <1>4
<1>8. AtPeriodStart(heard, slip, WallClock, Late)
  <2> DEFINE p == WallClock \div PeriodFrames
  <2>1. p \in 0..p /\ s = p * PeriodFrames
    BY <1>1, <1>3, PeriodsPass
  <2>2. heard + slip - s \in (-MaxLag)..Late
    BY <1>1, <1>2, <1>5, <1>6, <1>7
  <2> QED BY <2>1, <2>2 DEF AtPeriodStart
<1> QED BY <1>1, <1>3, <1>5, <1>6, <1>8

LEMMA WriteRun ==
  ASSUME TypeInv, OrderInv, TrackInv, RunInv, Untouched, Write
  PROVE  RunInv'
<1>1. PICK n \in 1..(now - heard), l \in Cell, rest \in Seq(Nat) :
         \E used \in Nat, acc \in 0..n :
         /\ WriteOutcome(KinAtWrite(WallClock), l, StagedAtWrite(WallClock), rest, n, used, acc)
         /\ heard' = heard + n
  BY WriteStep
<1>2. PICK used \in Nat, acc \in 0..n :
         WriteOutcome(KinAtWrite(WallClock), l, StagedAtWrite(WallClock), rest, n, used, acc)
  BY <1>1
<1>3. /\ ns' = SecondInPeriod(WallClock)
      /\ PeriodBegins \/ PeriodGoesOn(0)
      /\ astray' = (astray /\ ~(Wrapped(WallClock) /\ SecondInPeriod(WallClock) = 0))
      /\ UNCHANGED <<samplesPerFft, now, slip, troubles>>
  BY WriteStep
<1>4. CellsRun(d2, kin, began) /\ StagedRun(kin, samplesPerFft, staged, heard, began)
  BY DEF RunInv
<1>5. PICK from \in Nat :
        /\ began' = from
        /\ CellsRun(d2, KinAtWrite(WallClock), from)
        /\ StagedRun(KinAtWrite(WallClock), samplesPerFft, StagedAtWrite(WallClock), heard, from)
  BY <1>3, <1>4, RunAtWrite
<1>6. KinAtWrite(WallClock) \in Cell /\ StagedAtWrite(WallClock) \in Seq(Nat) /\ n \in Nat
  BY <1>3, OrderAtWrite DEF TypeInv
<1>7. PICK b : d2' = b
  OBVIOUS
<1>8. CellsRun(b, l, from) /\ StagedRun(l, samplesPerFft, rest, heard + n, from)
  BY <1>2, <1>5, <1>6, <1>7, RunAfterWrite
<1>9. kin' = l /\ staged' = rest /\ heard' = heard + n
  BY <1>1, <1>2 DEF WriteOutcome
<1>10. (CellsRun(d2, kin, began) /\ StagedRun(kin, samplesPerFft, staged, heard, began))'
  BY <1>3, <1>5, <1>7, <1>8, <1>9 DEF CellsRun, StagedRun, NothingLeftOut
<1>11. /\ troubles = 0 => slip = 0 /\ ~astray
       /\ now \in Nat /\ heard \in Nat /\ heard + n <= now /\ slip \in Int /\ WallClock \in Nat
  BY DEF TypeInv
<1>12. /\ troubles = 0 => lost' = 0
       /\ ~astray' => AtPeriodStart(from, slip, WallClock, Late)
  <2>1. CASE Wrapped(WallClock)
    <3>1. from = heard /\ lost' = MonusNat(heard + slip, PeriodStart(WallClock))
      BY <1>3, <1>5, <2>1 DEF PeriodBegins, PeriodGoesOn
    <3>2. ASSUME troubles = 0 PROVE lost' = 0
      <4>1. heard + slip <= PeriodStart(WallClock)
        BY <1>11, <2>1, <3>2, PlaceAtWrite
      <4>2. PeriodStart(WallClock) \in Nat
        BY <1>11, ClockBounds
      <4> QED BY <4>1, <4>2, <3>1, <1>11 DEF MonusNat
    <3>3. ASSUME ~astray' PROVE AtPeriodStart(heard, slip, WallClock, Late)
      <4>1. ~astray \/ SecondInPeriod(WallClock) = 0
        BY <1>3, <2>1, <3>3
      <4> QED BY <4>1, <2>1, PlaceAtWrite
    <3> QED BY <3>1, <3>2, <3>3
  <2>2. CASE ~Wrapped(WallClock)
    <3>1. from = began /\ lost' = lost + 0 /\ astray' = astray
      <4>1. PeriodGoesOn(0) /\ astray \in BOOLEAN
        BY <1>3, <2>2 DEF PeriodBegins, TypeInv
      <4> QED BY <4>1, <1>3, <1>5, <2>2 DEF PeriodGoesOn
    <3>2. lost = 0 => lost + 0 = 0
      OBVIOUS
    <3> QED BY <3>1, <3>2 DEF RunInv
  <2> QED BY <2>1, <2>2
<1>13. ClockSettled(heard + n, now, slip, SecondInPeriod(WallClock))
  <2>1. now \in (heard + n)..now /\ now + slip \in Nat
    BY <1>6, <1>11 DEF WallClock
  <2> QED BY <2>1 DEF ClockSettled, WallClock
<1>14. WallClock' = WallClock /\ Late' = Late
  BY <1>3 DEF WallClock, Late
<1>15. (~astray => AtPeriodStart(began, slip, WallClock, Late))'
  BY <1>3, <1>5, <1>12, <1>14 DEF AtPeriodStart
<1>16. ClockSettled(heard, now, slip, ns)'
  BY <1>3, <1>9, <1>13 DEF ClockSettled
<1> QED BY <1>3, <1>10, <1>12, <1>15, <1>16 DEF RunInv

(* As time passes the run stays at the start of a period, and the clock at *)
(* the last write stays where it was.                                      *)
LEMMA TickRun ==
  ASSUME TypeInv, RunInv, Untouched, Tick
  PROVE  RunInv'
<1>1. /\ now' = now + 1
      /\ UNCHANGED <<samplesPerFft, d2, kin, staged, ns, slip, astray, heard, began, lost, troubles>>
  BY DEF Tick, detectorVars, clockVars, periodVars
<1>2. /\ now \in Nat /\ heard \in Nat /\ slip \in Int /\ WallClock \in Nat /\ WallClock = now + slip
  BY DEF TypeInv, WallClock
<1>3. (CellsRun(d2, kin, began) /\ StagedRun(kin, samplesPerFft, staged, heard, began)
       /\ (troubles = 0 => lost = 0))'
  BY <1>1 DEF RunInv, CellsRun, StagedRun, NothingLeftOut
<1>4. PICK u \in Nat : u = WallClock + 1
  BY <1>2
<1>5. WallClock' = u /\ Late' = Late
  BY <1>1, <1>2, <1>4 DEF WallClock, Late
<1>6. AtPeriodStart(began, slip, WallClock, Late) => AtPeriodStart(began, slip, u, Late)
  <2> SUFFICES ASSUME NEW p, p \in 0..(WallClock \div PeriodFrames),
                      began + slip - p * PeriodFrames \in (-MaxLag)..Late
               PROVE  AtPeriodStart(began, slip, u, Late)
    BY DEF AtPeriodStart
  <2>1. p \in 0..(u \div PeriodFrames)
    <3> DEFINE a == WallClock \div PeriodFrames
               b == u \div PeriodFrames
    <3>1. a \in Nat /\ a <= b /\ b \in Nat
      BY <1>2, <1>4, PeriodsPass
    <3>2. p \in 0..a
      OBVIOUS
    <3> HIDE DEF a, b
    <3>3. p \in 0..b
      BY <3>1, <3>2
    <3> QED BY <3>3 DEF b
  <2> QED BY <2>1 DEF AtPeriodStart
<1>7. (~astray => AtPeriodStart(began, slip, WallClock, Late))'
  BY <1>1, <1>5, <1>6 DEF RunInv, AtPeriodStart
<1>8. ClockSettled(heard, now, slip, ns) => ClockSettled(heard, now + 1, slip, ns)
  <2> SUFFICES ASSUME NEW w, w \in heard..now, w + slip \in Nat, ns = SecondInPeriod(w + slip)
               PROVE  ClockSettled(heard, now + 1, slip, ns)
    BY DEF ClockSettled
  <2>1. w \in heard..(now + 1)
    BY <1>2
  <2> QED BY <2>1 DEF ClockSettled
<1>9. (slip # 0 /\ ~astray => ClockSettled(heard, now, slip, ns))'
  BY <1>1, <1>8 DEF RunInv, ClockSettled
<1> QED BY <1>3, <1>7, <1>9 DEF RunInv

LEMMA NextRun == TypeInv /\ OrderInv /\ TrackInv /\ RunInv /\ [Next]_vars => RunInv'
<1> SUFFICES ASSUME TypeInv, OrderInv, TrackInv, RunInv, [Next]_vars, Untouched' PROVE RunInv'
  BY DEF RunInv
<1>1. CASE Write
  <2>1. Untouched
    <3>1. UNCHANGED <<slip, troubles>>
      BY <1>1, WriteStep
    <3> QED BY <3>1 DEF Untouched
  <2> QED BY <2>1, <1>1, WriteRun
<1>2. CASE Tick
  <2>1. Untouched
    BY <1>2 DEF Tick, clockVars, Untouched
  <2> QED BY <2>1, <1>2, TickRun
<1>3. CASE SetClock
  <2>1. /\ Untouched /\ astray' /\ (troubles' = 0 => troubles = 0)
        /\ UNCHANGED <<samplesPerFft, d2, kin, staged, heard, began, lost>>
    BY <1>3 DEF SetClock, Disturb, detectorVars, periodVars, Untouched
  <2> QED BY <2>1 DEF RunInv, CellsRun, StagedRun, NothingLeftOut
<1>4. CASE Poll \/ UNCHANGED vars
  <2>1. UNCHANGED <<samplesPerFft, d2, kin, staged, ns, now, slip, astray, heard, began, lost, troubles>>
    BY <1>4 DEF Poll, detectorVars, clockVars, periodVars, vars
  <2>2. WallClock' = WallClock /\ Late' = Late /\ Untouched
    BY <2>1 DEF WallClock, Late, Untouched
  <2> QED BY <2>1, <2>2 DEF RunInv, CellsRun, StagedRun, NothingLeftOut, AtPeriodStart, ClockSettled
<1>5. CASE LoseFrame \/ ClearDetector \/ ResetPosition \/ ResetContent \/ ChangeBlockSize
  BY <1>5, Touched
<1> QED BY <1>1, <1>2, <1>3, <1>4, <1>5 DEF Next

(* What interferes puts no sample that the period heard further than       *)
(* MaxSkew from its place: it is early by what was lost before it, or by   *)
(* what the end of the buffer leaves out.                                  *)
LEMMA DisturbedInPlace ==
  ASSUME TypeInv, slip = 0, NEW w \in 0..now, Tracked(w), NEW i \in 0..(kin - 1),
         d2[i] # Blank, d2[i] >= began
  PROVE  d2[i] - (PeriodStart(w) + InFrames(i)) \in (-MaxSkew)..MaxSkew
<1>1. i \in Cell /\ i < kin /\ kin \in Cell /\ i \in Nat /\ kin \in Nat
  BY Units DEF TypeInv, Cell
<1>2. d2[i] \in Nat /\ heard \in Nat /\ lost \in Nat /\ began \in Nat /\ samplesPerFft \in BlockSizes
  BY <1>1 DEF TypeInv
<1>3. PeriodStart(w) \in Nat
  BY ClockBounds DEF TypeInv
<1>4. AgeAt(kin, i) = kin - i
  BY <1>1 DEF AgeAt
<1> DEFINE d == d2[i]
           I == InFrames(i)
           K == InFrames(kin)
           len == Len(staged)
           s == PeriodStart(w)
           A == InFrames(kin - i)
<1>5. /\ I \in Nat /\ K \in Nat /\ A = K - I /\ len \in Nat
      /\ MaxLag \in Nat /\ MaxLost \in Nat /\ MaxSkew \in Nat
  BY <1>1, Frames, CallbackBounds DEF TypeInv
<1>6. lost <= MaxLost /\ K + len <= heard - s + MaxLag
  BY DEF Tracked, CountTracked
<1>7. /\ \/ heard <= d + A + len + lost
         \/ \E b \in BlockSizes : s + InFrames(SampleSize - b) - MaxLag <= d + A + lost
      /\ d <= s + I + MaxSkew
  BY <1>1, <1>4 DEF Tracked, CellsTracked
<1>8. ASSUME NEW b \in BlockSizes PROVE MaxLag + MaxLost <= MaxSkew
  <2>1. b - 1 \in Nat /\ MaxLag + MaxLost + InFrames(b - 1) <= MaxSkew
    BY BlockBounds, CallbackBounds
  <2>2. InFrames(b - 1) \in Nat
    BY <2>1, Frames
  <2> QED BY <2>1, <2>2, <1>5
<1>9. CASE heard <= d + A + len + lost
  <2>1. MaxLag + MaxLost <= MaxSkew
    BY <1>2, <1>8
  <2> HIDE DEF d, I, K, len, s, A
  <2>2. d \in Int /\ s \in Int
    BY <1>2, <1>3 DEF d, s
  <2>3. s + I - MaxSkew <= d
    BY <2>1, <2>2, <1>2, <1>5, <1>6, <1>9
  <2>4. d - (s + I) \in (-MaxSkew)..MaxSkew
    BY <2>2, <2>3, <1>5, <1>7
  <2> QED BY <2>4 DEF d, s, I
<1>10. ASSUME NEW b \in BlockSizes, s + InFrames(SampleSize - b) - MaxLag <= d + A + lost
       PROVE  d - (s + I) \in (-MaxSkew)..MaxSkew
  <2>1. b \in Nat /\ MaxLag + MaxLost + InFrames(b - 1) <= MaxSkew
    BY BlockBounds, CallbackBounds
  <2>2. kin <= SampleSize - 1 /\ SampleSize - b \in Int /\ b - 1 \in Int /\ kin \in Int
    BY <1>1, <2>1, Units DEF Cell
  <2>3. K <= InFrames(SampleSize - b) + InFrames(b - 1)
    <3>1. kin <= (SampleSize - b) + (b - 1)
      BY <2>1, <2>2, Units
    <3>2. (SampleSize - b) + (b - 1) \in Int
      BY <2>2
    <3>3. InFrames(kin) <= InFrames((SampleSize - b) + (b - 1))
      BY <3>1, <3>2, <2>2, Frames
    <3>4. InFrames((SampleSize - b) + (b - 1)) = InFrames(SampleSize - b) + InFrames(b - 1)
      BY <2>2, Frames
    <3> QED BY <3>3, <3>4
  <2> DEFINE B == InFrames(SampleSize - b)
             C == InFrames(b - 1)
  <2>4. /\ B \in Int /\ C \in Int /\ K <= B + C /\ MaxLag + MaxLost + C <= MaxSkew
        /\ s + B - MaxLag <= d + A + lost
    BY <2>1, <2>2, <2>3, <1>10, Frames
  <2>5. d \in Int /\ s \in Int
    BY <1>2, <1>3
  <2> HIDE DEF d, I, K, len, s, A, B, C
  <2>6. s + I - MaxSkew <= d
    BY <2>4, <2>5, <1>2, <1>5, <1>6
  <2> QED BY <2>5, <2>6, <1>5, <1>7
<1> QED BY <1>7, <1>9, <1>10

(* What the decoder finds in a window is the audio of that slot, however   *)
(* the audio and the caller interfere (Detector, detector.rs).             *)
THEOREM WindowsHoldTheirAudio == Spec => []WindowHoldsItsAudio
<1> DEFINE Inv == TypeInv /\ OrderInv /\ TrackInv /\ RunInv
<1>1. Init => Inv
  BY InitType, InitOrder, InitTrack, InitRun
<1>2. Inv /\ [Next]_vars => Inv'
  BY NextType, NextOrder, NextTrack, NextRun
<1>3. ASSUME Inv, Polls!IInv PROVE WindowHoldsItsAudio
  <2> SUFFICES ASSUME NEW m \in Submode, window[m] # Scheduler!NoWindow, kin = polled, ~astray
               PROVE  \E p \in 0..(WallClock \div PeriodFrames) :
                        \A i \in window[m].start..(polled - 1) : Displaced(i) \/ InPlace(i, p)
    BY DEF WindowHoldsItsAudio
  <2>1. window[m].start \in Nat
    <3>1. window[m] \in Polls!Window /\ window[m] # Polls!NoWindow
      BY <1>3 DEF Polls!IInv, Polls!TypeOK, Scheduler!NoWindow, Polls!NoWindow, Scheduler!None,
                  Polls!None
    <3> QED BY <3>1, Units DEF Polls!Window, Polls!Start
  <2>2. /\ slip \in Int /\ WallClock \in Nat /\ WallClock = now + slip /\ kin \in Cell
        /\ troubles \in Nat /\ samplesPerFft \in BlockSizes /\ now \in Nat
        /\ d2 \in [Cell -> Nat \cup {Blank}] /\ began \in Nat
    BY <1>3 DEF TypeInv, WallClock
  <2>3. ASSUME NEW i, i \in window[m].start..(polled - 1)
        PROVE  /\ i \in 0..(kin - 1) /\ i \in Cell
               /\ InFrames(i) \in Nat /\ i * Ndown = InFrames(i)
    <3>1. i \in 0..(kin - 1) /\ i \in Cell /\ i \in Nat
      BY <2>1, <2>2, <2>3, Units DEF Cell
    <3> QED BY <3>1, Frames DEF InFrames
  <2>4. /\ MaxLag \in Nat /\ MaxSkew \in Nat /\ MaxLag <= MaxSkew
        /\ SecondFrames \in Nat \ {0} /\ SecondFrames - 1 <= MaxSkew
    <3>1. samplesPerFft - 1 \in Nat /\ MaxLag + MaxLost + InFrames(samplesPerFft - 1) <= MaxSkew
      BY <2>2, BlockBounds, CallbackBounds
    <3>2. InFrames(samplesPerFft - 1) \in Nat
      BY <3>1, Frames
    <3> QED BY <3>1, <3>2, CallbackBounds, Units
  <2>5. CASE Untouched
    <3>1. CellsRun(d2, kin, began) /\ AtPeriodStart(began, slip, WallClock, Late)
      BY <1>3, <2>5 DEF RunInv
    <3>2. PICK p \in 0..(WallClock \div PeriodFrames) :
                 began + slip - p * PeriodFrames \in (-MaxLag)..Late
      BY <3>1 DEF AtPeriodStart
    <3>3. PICK q : q = p * PeriodFrames
      OBVIOUS
    <3>4. q \in Int
      <4>1. WallClock \div PeriodFrames \in Nat /\ PeriodFrames \in Nat
        BY <2>2, PeriodsPass, Units
      <4>2. p \in Nat
        BY <4>1
      <4> QED BY <4>1, <4>2, <3>3
    <3>5. Late <= Skew /\ MaxLag <= Skew /\ Skew \in Nat /\ Late \in Nat
      BY <2>4 DEF Late, Skew
    <3>6. ASSUME NEW i, i \in window[m].start..(polled - 1) PROVE InPlace(i, p)
      <4>1. i \in 0..(kin - 1) /\ InFrames(i) \in Nat /\ i * Ndown = InFrames(i)
        BY <2>3, <3>6
      <4>2. d2[i] = began + InFrames(i)
        BY <3>1, <4>1 DEF CellsRun
      <4> DEFINE I == InFrames(i)
      <4>3. I \in Nat /\ d2[i] = began + I
        BY <4>1, <4>2
      <4> HIDE DEF I
      <4>4. d2[i] + slip - (q + I) \in (-Skew)..Skew
        BY <2>2, <2>4, <3>2, <3>3, <3>4, <3>5, <4>3
      <4>5. d2[i] + slip - (p * PeriodFrames + i * Ndown) \in (-Skew)..Skew
        BY <3>3, <4>1, <4>4 DEF I
      <4> QED BY <4>5 DEF InPlace
    <3> QED BY <3>6
  <2>6. CASE ~Untouched
    <3>1. slip = 0 /\ troubles # 0 /\ WallClock = now
      BY <2>2, <2>6 DEF Untouched
    <3>2. PICK w \in 0..now : Tracked(w)
      BY <1>3, <3>1 DEF TrackInv
    <3> DEFINE p == w \div PeriodFrames
    <3>3. p \in 0..(WallClock \div PeriodFrames) /\ PeriodStart(w) = p * PeriodFrames
      <4>1. w \in Nat /\ w <= now
        BY <2>2
      <4>2. /\ p \in Nat /\ p <= now \div PeriodFrames /\ now \div PeriodFrames \in Nat
            /\ PeriodStart(w) = p * PeriodFrames
        BY <4>1, <2>2, PeriodsPass
      <4> DEFINE q == now \div PeriodFrames
      <4>3. p \in Nat /\ p <= q /\ q \in Nat
        BY <4>2
      <4> HIDE DEF p, q
      <4>4. p \in 0..q
        BY <4>3
      <4> QED BY <4>2, <4>4, <3>1 DEF q
    <3>4. ASSUME NEW i, i \in window[m].start..(polled - 1) PROVE Displaced(i) \/ InPlace(i, p)
      <4> SUFFICES ASSUME ~Displaced(i) PROVE InPlace(i, p)
        OBVIOUS
      <4>1. i \in 0..(kin - 1) /\ i \in Cell /\ InFrames(i) \in Nat /\ i * Ndown = InFrames(i)
        BY <2>3, <3>4
      <4>2. d2[i] # Blank /\ d2[i] \in Nat /\ d2[i] >= began
        <5>1. d2[i] # Blank /\ ~(d2[i] < began) /\ d2[i] \in Nat
          BY <2>2, <3>1, <4>1 DEF Displaced
        <5> QED BY <5>1, <2>2
      <4>3. d2[i] - (PeriodStart(w) + InFrames(i)) \in (-MaxSkew)..MaxSkew
        BY <1>3, <3>1, <3>2, <4>1, <4>2, DisturbedInPlace
      <4>4. Skew = MaxSkew
        BY <3>1 DEF Skew
      <4>5. PICK q \in Nat : q = PeriodStart(w)
        BY <2>2, ClockBounds
      <4>6. PICK I \in Nat : I = InFrames(i)
        BY <4>1
      <4>7. d2[i] + 0 - (q + I) = d2[i] - (q + I)
        BY <4>2
      <4>8. d2[i] + slip - (q + I) \in (-Skew)..Skew
        BY <3>1, <4>3, <4>4, <4>5, <4>6, <4>7
      <4>9. d2[i] + slip - (p * PeriodFrames + i * Ndown) \in (-Skew)..Skew
        BY <3>3, <4>1, <4>5, <4>6, <4>8
      <4> HIDE DEF p
      <4> QED BY <4>9 DEF InPlace
    <3> HIDE DEF p
    <3> QED BY <3>3, <3>4
  <2> QED BY <2>5, <2>6
<1> HIDE DEF Inv
<1> QED BY <1>1, <1>2, <1>3, WindowsFound, PTL DEF Spec

(* The receiver as a whole: whatever is lost and whoever interferes, each  *)
(* window it decodes is the slot its count is in, and as the count grows   *)
(* each slot is decoded once (next_window, rx/scheduling.rs).              *)
THEOREM EachSlotIsDecodedOnce ==
  Spec => []Scheduler!WindowHoldsSlot /\ Scheduler!OneWindowPerSlot
<1>1. Polls!IInv => Scheduler!WindowHoldsSlot
  BY DEF Polls!IInv, Polls!WindowHoldsSlot, Scheduler!WindowHoldsSlot, Polls!SlotStart,
         Scheduler!SlotStart, Polls!NoWindow, Scheduler!NoWindow, Polls!None, Scheduler!None
<1>2. Scheduler!Spec => Polls!Spec
  BY SamePolls, PTL DEF Scheduler!Spec, Polls!Spec
<1>3. Polls!Spec => Polls!OneWindowPerSlot
  BY PollsAssumptions, Polls!EachSlotOnce
<1>4. Polls!OneWindowPerSlot => Scheduler!OneWindowPerSlot
  <2> DEFINE There == polled # Polls!Unpolled /\ polled' \in polled..(polled + MaxStep)
                        => \A m \in Submode : (window'[m] # Polls!NoWindow)
                                              <=> Polls!PassedReadyPoint(m)
             Here == polled # Scheduler!Unpolled /\ polled' \in polled..(polled + MaxStep)
                       => \A m \in Submode : (window'[m] # Scheduler!NoWindow)
                                             <=> Scheduler!PassedReadyPoint(m)
  <2>1. ASSUME NEW m PROVE Polls!PassedReadyPoint(m) <=> Scheduler!PassedReadyPoint(m)
    BY DEF Polls!PassedReadyPoint, Scheduler!PassedReadyPoint, Polls!ReadyPoint,
           Scheduler!ReadyPoint, Polls!SlotStart, Scheduler!SlotStart
  <2>2. Polls!NoWindow = Scheduler!NoWindow /\ Polls!Unpolled = Scheduler!Unpolled
    BY DEF Polls!NoWindow, Scheduler!NoWindow, Polls!None, Scheduler!None,
           Polls!Unpolled, Scheduler!Unpolled
  <2>3. There => Here
    BY <2>1, <2>2, Zenon
  <2>4. UNCHANGED Polls!vars => UNCHANGED Scheduler!vars
    BY DEF Polls!vars, Scheduler!vars
  <2> HIDE DEF There, Here
  <2>5. [There]_(Polls!vars) => [Here]_(Scheduler!vars)
    BY <2>3, <2>4
  <2>6. [][There]_(Polls!vars) => [][Here]_(Scheduler!vars)
    BY <2>5, PTL
  <2> QED BY <2>6 DEF There, Here, Polls!OneWindowPerSlot, Scheduler!OneWindowPerSlot
<1>5. Spec => Scheduler!Spec
  BY SchedulerIsPolledRight DEF PolledAsExpected
<1> QED BY <1>1, <1>2, <1>3, <1>4, <1>5, WindowsFound, PTL
=============================================================================
