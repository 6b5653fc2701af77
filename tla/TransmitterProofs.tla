------------------------- MODULE TransmitterProofs -------------------------
(***************************************************************************)
(* Proofs about Transmitter, for any submodes, clock and audio output: a   *)
(* frame started by the clock and each of its symbols keep their place in  *)
(* the slot, nothing sounds outside the payload window, a frame that the   *)
(* gate lets start late has room left, and the starts that are published   *)
(* are those the gate accepts.                                             *)
(***************************************************************************)
EXTENDS Transmitter, ArithmeticLemmas

(* An instant is on the grid of a submode when it falls into the first     *)
(* millisecond of a slot; r frames into it.                                *)
StandsAt(m, x, r) == \E q \in Int : x = q * SlotFrames(m) + r

OnGrid(m, x) == \E r \in 0..(FramesPerMs - 1) : StandsAt(m, x, r)

DelayFrames(m) == StartDelayMs[m] * FramesPerMs

PlaceType ==
  /\ state \in {"Synchronizing", "Active", "Idle"}
  /\ tuning \in BOOLEAN /\ aligned \in BOOLEAN
  /\ mode \in Submode
  /\ silentFrames \in Nat /\ ic \in Nat
  /\ now \in 0..(ClockFrames - 1)
  /\ state = "Active" => silentFrames = 0

(* The slot that the waveform was started for begins on the grid.          *)
PlaceInv ==
  aligned /\ PttActive => OnGrid(mode, now + silentFrames - ic - DelayFrames(mode))

(* So does the slot of what sounds, which is a part of the waveform; all   *)
(* of it at the same frame of the millisecond.                             *)
SoundInv ==
  aligned /\ ~tuning =>
    \E r \in 0..(FramesPerMs - 1) : \A s \in sounded :
      /\ s.at \in Int /\ s.frame \in 0..(NumSymbols * SymbolFrames[mode] - 1)
      /\ StandsAt(mode, s.at - s.frame - DelayFrames(mode), r)

TransmitInv == PlaceType /\ PlaceInv /\ SoundInv
-----------------------------------------------------------------------------
LEMMA Constants ==
  ASSUME NEW m \in Submode
  PROVE  /\ FramesPerMs \in Nat \ {0} /\ PeriodMs[m] \in Nat \ {0} /\ StartDelayMs[m] \in Nat
         /\ DataMs[m] \in Nat \ {0} /\ ClockMs \in Nat \ {0} /\ MaxRender \in Nat
         /\ TxDelayMs \in Nat
         /\ StartDelayMs[m] + DataMs[m] <= PeriodMs[m]
         /\ NumSymbols * SymbolFrames[m] = DataMs[m] * FramesPerMs
         /\ ClockMs % PeriodMs[m] = 0
         /\ DelayFrames(m) \in Nat
<1>1. /\ FramesPerMs \in Nat \ {0} /\ PeriodMs[m] \in Nat \ {0} /\ StartDelayMs[m] \in Nat
      /\ DataMs[m] \in Nat \ {0} /\ ClockMs \in Nat \ {0} /\ MaxRender \in Nat
      /\ TxDelayMs \in Nat
      /\ StartDelayMs[m] + DataMs[m] <= PeriodMs[m]
      /\ NumSymbols * SymbolFrames[m] = DataMs[m] * FramesPerMs
      /\ ClockMs % PeriodMs[m] = 0
  BY TimingAssumption, ModulatorAssumption, TransmitterAssumption
<1>2. \A a, b \in Nat : a * b \in Nat
  BY SMTT(30)
<1> QED BY <1>1, <1>2 DEF DelayFrames

LEMMA ClockFramesType == ClockFrames \in Nat \ {0}
<1>1. \A a, b \in Nat \ {0} : a * b \in Nat \ {0}
  BY SMTT(30)
<1> QED BY <1>1, ModulatorAssumption, TransmitterAssumption DEF ClockFrames

(* A slot is at least a millisecond, and the clock a number of slots.      *)
LEMMA SlotFacts ==
  ASSUME NEW m \in Submode
  PROVE  /\ SlotFrames(m) \in Nat \ {0} /\ FramesPerMs <= SlotFrames(m)
         /\ \E c \in Nat : ClockMs = c * PeriodMs[m] /\ ClockFrames = c * SlotFrames(m)
<1> DEFINE P == PeriodMs[m]
           F == FramesPerMs
           c == ClockMs \div P
<1>1. P \in Nat \ {0} /\ F \in Nat \ {0} /\ ClockMs \in Nat /\ ClockMs % P = 0
  BY Constants
<1>2. SlotFrames(m) = P * F /\ ClockFrames = ClockMs * F
  BY DEF SlotFrames, ClockFrames
<1>3. c \in Nat /\ ClockMs = c * P
  <2>1. c \in Nat /\ ClockMs = c * P + (ClockMs % P)
    BY <1>1, DivMod
  <2>2. c * P \in Int
    BY <1>1, <2>1, Products
  <2> QED BY <1>1, <2>1, <2>2
<1> HIDE DEF P, F, c
<1>4. P * F \in Nat \ {0} /\ F <= P * F
  BY <1>1, SMTT(30)
<1>5. ClockFrames = c * SlotFrames(m)
  <2>1. ClockMs * F = c * (P * F)
    BY <1>1, <1>3, Products
  <2> QED BY <1>2, <2>1
<1>6. SlotFrames(m) \in Nat \ {0} /\ F <= SlotFrames(m)
  BY <1>2, <1>4
<1> HIDE DEF SlotFrames
<1> QED BY <1>3, <1>5, <1>6 DEF P, F

(* Going round the clock stays on the grid.                                *)
LEMMA GridGoesRound ==
  ASSUME NEW m \in Submode, NEW x \in Int, NEW y \in Int, NEW r \in 0..(FramesPerMs - 1),
         StandsAt(m, x + y, r)
  PROVE  StandsAt(m, x + (y % ClockFrames), r)
<1> DEFINE S == SlotFrames(m)
           d == y \div ClockFrames
           z == y % ClockFrames
<1>1. S \in Nat \ {0}
  BY SlotFacts
<1>2. PICK c \in Nat : ClockFrames = c * S
  BY SlotFacts
<1>3. PICK q \in Int : x + y = q * S + r
  BY DEF StandsAt
<1>4. d \in Int /\ z \in Int /\ y = d * ClockFrames + z
  BY ClockFramesType, IntDivMod
<1>5. FramesPerMs \in Nat \ {0} /\ r \in Int
  BY Constants
<1> HIDE DEF S, d, z
<1> DEFINE turns == (d * c) * S
           slots == q * S
           back == (q - d * c) * S
<1>6. /\ d * c \in Int /\ turns \in Int /\ slots \in Int
      /\ d * ClockFrames = turns /\ back = slots - turns
  BY <1>1, <1>2, <1>3, <1>4, Products
<1> HIDE DEF turns, slots, back
<1>7. x + z = back + r
  <2>1. x + y = slots + r
    BY <1>3 DEF slots
  <2>2. y = turns + z
    BY <1>4, <1>6
  <2> QED BY <1>4, <1>5, <1>6, <2>1, <2>2
<1>8. q - d * c \in Int
  BY <1>3, <1>6
<1> QED BY <1>3, <1>7, <1>8 DEF StandsAt, S, back, z
-----------------------------------------------------------------------------
LEMMA InvInit == Init => TransmitInv
<1> SUFFICES ASSUME Init PROVE TransmitInv
  OBVIOUS
<1>1. /\ state = "Idle" /\ tuning = FALSE /\ aligned = FALSE /\ mode \in Submode
      /\ silentFrames = 0 /\ ic = 0 /\ now = 0
  BY DEF Init, InitModulator
<1>2. 0 \in 0..(ClockFrames - 1)
  BY ClockFramesType
<1>3. PlaceType
  BY <1>1, <1>2 DEF PlaceType
<1>4. SoundInv
  BY <1>1 DEF SoundInv
<1> QED BY <1>1, <1>3, <1>4 DEF TransmitInv, PlaceInv

(* The silence of a frame, less what a late frame skips, stands for the    *)
(* start of a slot: this one's, or the next one's in the TX-delay window.  *)
LEMMA StandsForASlot ==
  ASSUME NEW m \in Submode, NEW ms \in Nat
  PROVE  /\ SilentMs(m, ms) \in Nat /\ LateMs(m, ms) \in Nat
         /\ \E p \in Int :
              ms + SilentMs(m, ms) - LateMs(m, ms) - StartDelayMs[m] = p * PeriodMs[m]
<1> DEFINE P == PeriodMs[m]
           q == ms \div P
           into == ms % P
           slot == q * P
           after == (q + 1) * P
<1>1. P \in Nat \ {0} /\ StartDelayMs[m] \in Nat /\ TxDelayMs \in Nat
  BY Constants
<1>2. q \in Int /\ into \in 0..(P - 1) /\ ms = slot + into
  <2> HIDE DEF P
  <2> QED BY <1>1, DivMod
<1>3. slot \in Int /\ after = slot + P
  BY <1>1, <1>2, Products
<1>4. MsIntoSlot(m, ms) = into
  BY DEF MsIntoSlot
<1> HIDE DEF P, q, into, slot, after
<1>5. CASE StartsInTxDelay(m, ms)
  <2>1. SilentMs(m, ms) = StartDelayMs[m] + (P - into) /\ LateMs(m, ms) = 0
    BY <1>4, <1>5 DEF SilentMs, LateMs, P
  <2>2. ms + SilentMs(m, ms) - LateMs(m, ms) - StartDelayMs[m] = after
    BY <1>1, <1>2, <1>3, <2>1
  <2>3. SilentMs(m, ms) \in Nat /\ LateMs(m, ms) \in Nat
    BY <1>1, <1>2, <2>1
  <2> QED BY <1>2, <2>2, <2>3 DEF after, P
<1>6. CASE ~StartsInTxDelay(m, ms) /\ StartDelayMs[m] > into
  <2>1. SilentMs(m, ms) = StartDelayMs[m] - into /\ LateMs(m, ms) = 0
    BY <1>4, <1>6 DEF SilentMs, LateMs
  <2>2. ms + SilentMs(m, ms) - LateMs(m, ms) - StartDelayMs[m] = slot
    BY <1>1, <1>2, <1>3, <2>1
  <2>3. SilentMs(m, ms) \in Nat /\ LateMs(m, ms) \in Nat
    BY <1>1, <1>2, <1>6, <2>1
  <2> QED BY <1>2, <2>2, <2>3 DEF slot, P
<1>7. CASE ~StartsInTxDelay(m, ms) /\ ~(StartDelayMs[m] > into)
  <2>1. SilentMs(m, ms) = 0 /\ LateMs(m, ms) = into - StartDelayMs[m]
    BY <1>4, <1>7 DEF SilentMs, LateMs
  <2>2. ms + SilentMs(m, ms) - LateMs(m, ms) - StartDelayMs[m] = slot
    BY <1>1, <1>2, <1>3, <2>1
  <2>3. SilentMs(m, ms) \in Nat /\ LateMs(m, ms) \in Nat
    BY <1>1, <1>2, <1>7, <2>1
  <2> QED BY <1>2, <2>2, <2>3 DEF slot, P
<1> QED BY <1>5, <1>6, <1>7

LEMMA SoundlessInv == sounded' = {} => SoundInv'
<1>1. FramesPerMs \in Nat \ {0}
  BY ModulatorAssumption
<1>2. 0 \in 0..(FramesPerMs - 1)
  BY <1>1
<1> QED BY <1>2 DEF SoundInv

LEMMA InvStart ==
  ASSUME TransmitInv, NEW m \in Submode, Start(m, NowMs), aligned' = ~tuning,
         sounded' = {}, UNCHANGED now
  PROVE  TransmitInv'
<1> DEFINE F == FramesPerMs
           D == StartDelayMs[m]
           s == SilentMs(m, NowMs)
           l == LateMs(m, NowMs)
           r == now % F
<1>1. PlaceType /\ F \in Nat \ {0} /\ D \in Nat /\ PeriodMs[m] \in Nat \ {0}
  BY Constants DEF TransmitInv
<1>2. now \in Nat
  BY <1>1, ClockFramesType DEF PlaceType
<1>3. NowMs \in Nat /\ r \in 0..(F - 1) /\ now = NowMs * F + r
  BY <1>1, <1>2, DivMod DEF NowMs
<1>4. s \in Nat /\ l \in Nat /\ s * F \in Nat /\ l * F \in Nat
  <2>1. s \in Nat /\ l \in Nat
    BY <1>3, StandsForASlot
  <2>2. \A a, b \in Nat : a * b \in Nat
    BY SMTT(30)
  <2> QED BY <1>1, <2>1, <2>2
<1>5. PICK p \in Int : NowMs + s - l - D = p * PeriodMs[m]
  BY <1>3, StandsForASlot
<1>6. /\ mode' = m /\ UNCHANGED tuning
      /\ silentFrames' = IF tuning THEN 0 ELSE s * F
      /\ ic' = IF tuning THEN 0 ELSE l * F
      /\ state' = IF silentFrames' > 0 THEN "Synchronizing" ELSE "Active"
  BY DEF Start
<1> HIDE DEF F, D, s, l, r
<1>7. PlaceType'
  <2>1. tuning \in BOOLEAN
    BY <1>1 DEF PlaceType
  <2>2. silentFrames' \in Nat /\ ic' \in Nat
    BY <1>4, <1>6, <2>1
  <2>3. /\ state' \in {"Synchronizing", "Active", "Idle"}
        /\ state' = "Active" => silentFrames' = 0
    BY <1>6, <2>2
  <2> QED BY <1>1, <1>6, <2>1, <2>2, <2>3 DEF PlaceType
<1>8. PlaceInv'
  <2> SUFFICES ASSUME ~tuning PROVE OnGrid(m, now + s * F - l * F - DelayFrames(m))
    BY <1>6 DEF PlaceInv, DelayFrames
  <2> DEFINE k == NowMs
             kF == k * F
             sF == s * F
             lF == l * F
             dF == D * F
             pF == (p * PeriodMs[m]) * F
  <2>1. kF + sF - lF - dF = pF
    <3>1. /\ k \in Int /\ s \in Int /\ l \in Int /\ D \in Int /\ F \in Int
          /\ k + s \in Int /\ k + s - l \in Int
      BY <1>1, <1>3, <1>4
    <3> HIDE DEF k
    <3> DEFINE two == (k + s) * F
               three == (k + s - l) * F
               four == (k + s - l - D) * F
    <3>2. /\ two = kF + sF /\ three = two - lF /\ four = three - dF
          /\ kF \in Int /\ sF \in Int /\ lF \in Int /\ dF \in Int
      BY <3>1, Products
    <3>3. four = pF
      BY <1>5 DEF k
    <3> HIDE DEF kF, sF, lF, dF, pF, two, three, four
    <3> QED BY <3>2, <3>3
  <2>2. /\ kF \in Int /\ sF \in Int /\ lF \in Int /\ dF \in Int
        /\ pF = p * SlotFrames(m)
    <3>1. pF = p * (PeriodMs[m] * F)
      BY <1>1, <1>5, Products
    <3>2. k \in Int /\ D \in Int /\ F \in Int /\ s * F \in Int /\ l * F \in Int
      BY <1>1, <1>3, <1>4
    <3>3. kF \in Int /\ dF \in Int
      BY <3>2, Products
    <3> QED BY <3>1, <3>2, <3>3 DEF SlotFrames, F
  <2>3. now = kF + r
    BY <1>3
  <2>4. DelayFrames(m) = dF
    BY DEF DelayFrames, D, F
  <2> HIDE DEF k, kF, sF, lF, dF, pF
  <2>5. now + sF - lF - dF = pF + r
    BY <1>1, <1>3, <2>1, <2>2, <2>3
  <2> QED BY <1>3, <1>5, <2>2, <2>4, <2>5 DEF OnGrid, StandsAt, sF, lF, F
<1>9. SoundInv'
  BY SoundlessInv
<1> QED BY <1>7, <1>8, <1>9 DEF TransmitInv
-----------------------------------------------------------------------------
(* What a render plays: silence, and as much of the waveform as is left.   *)
LEMMA RenderFacts ==
  ASSUME PlaceType, state # "Idle", NEW n \in 1..MaxRender
  PROVE  /\ n \in Nat /\ LastFrame \in Nat /\ now \in Nat
         /\ Quiet(n) \in Nat /\ Quiet(n) <= n /\ Quiet(n) <= silentFrames
         /\ Sounding(n) \in Nat
         /\ Sounding(n) > 0 => Quiet(n) = silentFrames /\ ic + Sounding(n) <= LastFrame
         /\ StateAfter(n) # "Idle" => ic + Sounding(n) < LastFrame
                                        /\ Sounding(n) = n - Quiet(n)
         /\ StateAfter(n) = "Active" => silentFrames - Quiet(n) = 0
         /\ StateAfter(n) \in {"Synchronizing", "Active", "Idle"}
<1>1. /\ n \in Nat /\ silentFrames \in Nat /\ ic \in Nat /\ now \in Nat
      /\ state = "Synchronizing" \/ state = "Active"
      /\ state = "Active" => silentFrames = 0
  <2>1. MaxRender \in Nat
    BY TransmitterAssumption
  <2> QED BY <2>1, ClockFramesType DEF PlaceType
<1>2. LastFrame \in Nat
  <2>1. mode \in Submode /\ tuning \in BOOLEAN
    BY DEF PlaceType
  <2>2. TuneFrames[mode] \in Nat /\ NumSymbols \in Nat /\ SymbolFrames[mode] \in Nat
    BY <2>1, ModulatorAssumption
  <2>3. NumSymbols * SymbolFrames[mode] \in Nat
    <3>1. \A a, b \in Nat : a * b \in Nat
      BY SMTT(30)
    <3> QED BY <2>2, <3>1
  <2> QED BY <2>1, <2>2, <2>3 DEF LastFrame
<1>3. /\ Quiet(n) \in Nat /\ Quiet(n) <= n /\ Quiet(n) <= silentFrames
      /\ Quiet(n) < n => Quiet(n) = silentFrames
      /\ silentFrames <= n => Quiet(n) = silentFrames
  BY <1>1 DEF Quiet
<1> HIDE DEF Quiet, LastFrame
<1>4. /\ Sounding(n) \in Nat
      /\ Sounding(n) > 0 => Quiet(n) < n /\ ic + Sounding(n) <= LastFrame
      /\ ic + Sounding(n) < LastFrame => Sounding(n) = n - Quiet(n)
  BY <1>1, <1>2, <1>3 DEF Sounding
<1> HIDE DEF Sounding
<1>5. /\ StateAfter(n) # "Idle" => ic + Sounding(n) < LastFrame
      /\ StateAfter(n) = "Active" => state = "Active" \/ silentFrames <= n
      /\ StateAfter(n) \in {"Synchronizing", "Active", "Idle"}
  BY <1>1, <1>2, <1>4 DEF StateAfter
<1>6. StateAfter(n) = "Active" => silentFrames - Quiet(n) = 0
  BY <1>1, <1>3, <1>5
<1> QED BY <1>1, <1>2, <1>3, <1>4, <1>5, <1>6

LEMMA InvPlay ==
  ASSUME TransmitInv, NEW n \in 1..MaxRender, Render(n),
         sounded' = {[at |-> (now + Quiet(n) + j - 1) % ClockFrames, frame |-> ic + j - 1,
                      symbol |-> Symbols(Sounding(n))[j].symbol] : j \in 1..Sounding(n)},
         now' = (now + n) % ClockFrames, UNCHANGED aligned
  PROVE  TransmitInv'
<1> DEFINE Q == Quiet(n)
           So == Sounding(n)
           D == DelayFrames(mode)
<1>1. PlaceType /\ PlaceInv /\ state # "Idle" /\ mode \in Submode
  BY DEF TransmitInv, PlaceType, Render
<1>2. /\ n \in Nat /\ now \in Nat /\ silentFrames \in Nat /\ ic \in Nat /\ LastFrame \in Nat
      /\ Q \in Nat /\ Q <= n /\ Q <= silentFrames /\ So \in Nat
      /\ So > 0 => Q = silentFrames /\ ic + So <= LastFrame
      /\ StateAfter(n) # "Idle" => So = n - Q
      /\ StateAfter(n) = "Active" => silentFrames - Q = 0
      /\ StateAfter(n) \in {"Synchronizing", "Active", "Idle"}
  BY <1>1, RenderFacts DEF PlaceType
<1>3. /\ state' = StateAfter(n) /\ silentFrames' = silentFrames - Q /\ ic' = ic + So
      /\ UNCHANGED <<tuning, mode>>
  BY DEF Render
<1>4. D \in Nat /\ ClockFrames \in Nat \ {0}
  BY <1>1, Constants, ClockFramesType
<1>5. sounded' = {[at |-> (now + Q + j - 1) % ClockFrames, frame |-> ic + j - 1,
                   symbol |-> Symbols(So)[j].symbol] : j \in 1..So}
  OBVIOUS
<1> HIDE DEF Q, So, D
<1>7. PlaceType'
  <2>1. (now + n) % ClockFrames \in 0..(ClockFrames - 1)
    BY <1>2, <1>4, IntDivMod
  <2>2. silentFrames' \in Nat /\ ic' \in Nat
    BY <1>2, <1>3
  <2>3. state' \in {"Synchronizing", "Active", "Idle"} /\ (state' = "Active" => silentFrames' = 0)
    BY <1>2, <1>3
  <2>4. ClockFrames' = ClockFrames
    BY DEF ClockFrames
  <2> QED BY <1>1, <1>3, <2>1, <2>2, <2>3, <2>4 DEF PlaceType
<1>8. /\ FramesPerMs \in Nat \ {0}
      /\ aligned => \E r \in 0..(FramesPerMs - 1) : StandsAt(mode, now + silentFrames - ic - D, r)
  BY <1>1, ModulatorAssumption DEF PlaceInv, PttActive, D, OnGrid
<1>9. PlaceInv'
  <2> SUFFICES ASSUME aligned, state' # "Idle", NEW r \in 0..(FramesPerMs - 1),
                      StandsAt(mode, now + silentFrames - ic - D, r)
               PROVE  StandsAt(mode, ((now + n) % ClockFrames) + silentFrames' - ic' - D, r)
    BY <1>3, <1>8 DEF PlaceInv, PttActive, OnGrid, D, DelayFrames, StandsAt, SlotFrames
  <2> DEFINE x == silentFrames' - ic' - D
             y == now + n
  <2>1. x \in Int /\ y \in Int /\ x + y = now + silentFrames - ic - D
    <3>1. silentFrames' = silentFrames - Q /\ ic' = ic + (n - Q)
      BY <1>2, <1>3
    <3>2. D \in Int /\ Q \in Int /\ n \in Int /\ now \in Int /\ silentFrames \in Int /\ ic \in Int
      BY <1>2, <1>4
    <3> QED BY <3>1, <3>2
  <2>2. StandsAt(mode, x + y, r)
    BY <2>1
  <2>3. StandsAt(mode, x + (y % ClockFrames), r)
    BY <1>1, <2>1, <2>2, GridGoesRound
  <2>4. (y % ClockFrames) \in Int
    <3>1. y \in Int
      BY <2>1
    <3> HIDE DEF x, y
    <3> QED BY <1>4, <3>1, IntDivMod
  <2>5. x + (y % ClockFrames) = (y % ClockFrames) + silentFrames' - ic' - D
    BY <1>2, <1>3, <1>4, <2>4
  <2> QED BY <2>3, <2>5
<1>10. SoundInv'
  <2> DEFINE Place(at, frame, r) ==
               /\ at \in Int /\ frame \in 0..(NumSymbols * SymbolFrames[mode] - 1)
               /\ StandsAt(mode, at - frame - D, r)
  <2> SUFFICES ASSUME aligned, ~tuning, NEW r \in 0..(FramesPerMs - 1),
                      StandsAt(mode, now + silentFrames - ic - D, r), NEW j \in 1..So
               PROVE  Place((now + Q + j - 1) % ClockFrames, ic + j - 1, r)
    <3>1. SUFFICES ASSUME aligned, ~tuning
                   PROVE  \E r \in 0..(FramesPerMs - 1) : \A s \in sounded' : Place(s.at, s.frame, r)
      BY <1>3 DEF SoundInv, D, DelayFrames, StandsAt, SlotFrames
    <3>2. PICK r \in 0..(FramesPerMs - 1) : StandsAt(mode, now + silentFrames - ic - D, r)
      BY <1>8, <3>1
    <3> HIDE DEF Place
    <3>3. \A j \in 1..So : Place((now + Q + j - 1) % ClockFrames, ic + j - 1, r)
      BY <3>1, <3>2
    <3> QED BY <1>5, <3>3
  <2> DEFINE y == now + Q + j - 1
             x == 0 - (ic + j - 1) - D
  <2>1. j \in Nat /\ j >= 1 /\ j <= So /\ Q = silentFrames /\ ic + So <= LastFrame
    BY <1>2
  <2>2. x \in Int /\ y \in Int /\ x + y = now + silentFrames - ic - D
    BY <1>2, <1>4, <2>1
  <2>3. StandsAt(mode, x + y, r)
    BY <2>2
  <2>4. StandsAt(mode, x + (y % ClockFrames), r)
    BY <1>1, <2>2, <2>3, GridGoesRound
  <2>5. (y % ClockFrames) \in Int
    <3>1. y \in Int
      BY <2>2
    <3>2. \A a \in Int : (a % ClockFrames) \in Int
      <4> SUFFICES ASSUME NEW a \in Int PROVE (a % ClockFrames) \in Int
        OBVIOUS
      <4>1. (a % ClockFrames) \in 0..(ClockFrames - 1)
        BY <1>4, IntDivMod
      <4> QED BY <1>4, <4>1
    <3> HIDE DEF y
    <3> QED BY <3>1, <3>2
  <2>6. x + (y % ClockFrames) = (y % ClockFrames) - (ic + j - 1) - D
    BY <1>2, <1>4, <2>1, <2>5
  <2>7. LastFrame = NumSymbols * SymbolFrames[mode]
    BY DEF LastFrame
  <2>8. ic + j - 1 \in 0..(LastFrame - 1)
    BY <1>2, <2>1
  <2> QED BY <2>4, <2>5, <2>6, <2>7, <2>8
<1> QED BY <1>7, <1>9, <1>10 DEF TransmitInv

LEMMA InvSameFrame ==
  ASSUME TransmitInv, sounded' = {}, state' = state \/ state' = "Idle", tuning' \in BOOLEAN,
         UNCHANGED <<mode, silentFrames, ic, now, aligned>>
  PROVE  TransmitInv'
<1>1. PlaceType'
  BY DEF TransmitInv, PlaceType, ClockFrames
<1>2. PlaceInv'
  BY DEF TransmitInv, PlaceInv, PttActive
<1>3. SoundInv'
  BY SoundlessInv
<1> QED BY <1>1, <1>2, <1>3 DEF TransmitInv

LEMMA InvStep == TransmitInv /\ [Next]_vars => TransmitInv'
<1> SUFFICES ASSUME TransmitInv, [Next]_vars PROVE TransmitInv'
  OBVIOUS
<1>1. CASE Wait
  <2>1. now \in Nat /\ (now + 1) % ClockFrames \in 0..(ClockFrames - 1)
    <3>1. now \in Nat
      BY ClockFramesType DEF TransmitInv, PlaceType
    <3>2. now + 1 \in Int
      BY <3>1
    <3> QED BY <3>1, <3>2, ClockFramesType, IntDivMod
  <2>2. /\ state = "Idle" /\ now' = (now + 1) % ClockFrames
        /\ UNCHANGED <<state, tuning, mode, silentFrames, ic, aligned, sounded>>
    BY <1>1 DEF Wait, modulatorVars
  <2>3. PlaceType'
    BY <2>1, <2>2 DEF TransmitInv, PlaceType, ClockFrames
  <2>4. PlaceInv'
    BY <2>2 DEF PlaceInv, PttActive
  <2>5. SoundInv'
    BY <2>2 DEF TransmitInv, SoundInv
  <2> QED BY <2>3, <2>4, <2>5 DEF TransmitInv
<1>2. CASE StartWhenAllowed
  BY <1>2, InvStart DEF StartWhenAllowed
<1>3. CASE StartUngated
  BY <1>3, InvStart DEF StartUngated
<1>4. CASE StopSending
  <2>1. tuning' \in BOOLEAN
    BY <1>4 DEF StopSending, Stop, TransmitInv, PlaceType
  <2> QED BY <1>4, <2>1, InvSameFrame DEF StopSending, Stop
<1>5. CASE SetTuning
  <2>1. state' = state \/ state' = "Idle"
    BY <1>5 DEF SetTuning, Tune
  <2>2. tuning' \in BOOLEAN
    BY <1>5 DEF SetTuning, Tune, TransmitInv, PlaceType
  <2> QED BY <1>5, <2>1, <2>2, InvSameFrame DEF SetTuning, Tune
<1>6. CASE Play
  BY <1>6, InvPlay DEF Play
<1>7. CASE UNCHANGED vars
  BY <1>7 DEF vars, modulatorVars, TransmitInv, PlaceType, PlaceInv, PttActive, SoundInv, ClockFrames
<1> QED BY <1>1, <1>2, <1>3, <1>4, <1>5, <1>6, <1>7 DEF Next

LEMMA Invariance == Spec => []TransmitInv
BY InvInit, InvStep, PTL DEF Spec
-----------------------------------------------------------------------------
(* KeepsItsPlace: whenever a frame is started by the clock (modulator.rs), *)
(* early, late or in the TX-delay window, and however the output slices    *)
(* it, its first frame keeps the start delay of its slot, to the           *)
(* millisecond.                                                            *)
THEOREM FramesKeepTheirPlace == Spec => []KeepsItsPlace
<1>1. TransmitInv => KeepsItsPlace
  <2> DEFINE x == now + silentFrames - ic - StartDelayMs[mode] * FramesPerMs
             S == SlotFrames(mode)
  <2> SUFFICES ASSUME TransmitInv, aligned, PttActive PROVE x % S < FramesPerMs
    BY DEF KeepsItsPlace, SlotFrames
  <2>1. mode \in Submode
    BY DEF TransmitInv, PlaceType
  <2>2. PICK q \in Int, r \in 0..(FramesPerMs - 1) : x = q * S + r
    BY DEF TransmitInv, PlaceInv, DelayFrames, OnGrid, StandsAt
  <2>3. S \in Nat \ {0} /\ FramesPerMs <= S /\ FramesPerMs \in Nat
    BY <2>1, SlotFacts, Constants
  <2> HIDE DEF x, S
  <2>4. r \in 0..(S - 1) /\ r < FramesPerMs
    BY <2>3
  <2>5. x % S = r
    BY <2>2, <2>3, <2>4, RemainderOf
  <2> QED BY <2>4, <2>5
<1> QED BY <1>1, Invariance, PTL

(* Less than a millisecond before an instant of the symbols, the clock,    *)
(* going round, stands in the payload window.                              *)
LEMMA ClockInWindow ==
  ASSUME NEW m \in Submode, StartDelayMs[m] > 0, NEW q \in Int, NEW r \in 0..(FramesPerMs - 1),
         NEW frame \in 0..(NumSymbols * SymbolFrames[m] - 1), NEW at \in Int,
         at - frame - DelayFrames(m) = q * SlotFrames(m) + r
  PROVE  InTxPayloadWindow(m, ((at - (FramesPerMs - 1)) \div FramesPerMs) % ClockMs)
<1> DEFINE F == FramesPerMs
           P == PeriodMs[m]
           D == StartDelayMs[m]
           data == DataMs[m]
           dataF == data * F
           t == r + frame - F + 1
           u == t \div F
           v == t % F
           into == (at - (F - 1)) \div F
           e == D + u
           qP == q * P
           d == into \div ClockMs
           z == into % ClockMs
<1>1. /\ F \in Nat \ {0} /\ P \in Nat \ {0} /\ D \in Nat /\ D > 0 /\ data \in Nat
      /\ D + data <= P /\ ClockMs \in Nat \ {0} /\ NumSymbols * SymbolFrames[m] = dataF
  BY Constants
<1>2. DelayFrames(m) = D * F /\ SlotFrames(m) = P * F
  BY DEF DelayFrames, SlotFrames
<1>3. PICK c \in Nat : ClockMs = c * P
  BY SlotFacts
<1>4. InTxPayloadWindow(m, z) <=> (z % P) < D + data
  BY DEF InTxPayloadWindow, MsIntoSlot, TxDurationMs
<1>5. t \in Int /\ 0 - F < t /\ t < dataF
  <2>1. dataF \in Int
    BY <1>1, Products
  <2> HIDE DEF dataF, F
  <2> QED BY <1>1, <2>1 DEF F
<1> HIDE DEF F, P, D, data, t
<1>6. u \in Int /\ v \in 0..(F - 1) /\ t = u * F + v
  BY <1>1, <1>5, IntDivMod
<1>7. 0 - 1 <= u /\ u < data
  <2>1. \A a \in Int : a < 0 - 1 => a * F <= 0 - F - F
    BY <1>1, SMTT(30)
  <2>2. \A a \in Int : a >= data => a * F >= data * F
    BY <1>1, SMTT(30)
  <2> DEFINE uF == u * F
  <2>3. uF \in Int /\ dataF \in Int /\ t = uF + v
    BY <1>1, <1>6, Products
  <2>4. (u < 0 - 1 => uF <= 0 - F - F) /\ (u >= data => uF >= dataF)
    BY <1>6, <2>1, <2>2
  <2> HIDE DEF uF, dataF, u, v
  <2> QED BY <1>1, <1>5, <1>6, <2>3, <2>4
<1>8. e \in 0..(P - 1) /\ e < D + data /\ e \in Int
  <2> HIDE DEF u
  <2> QED BY <1>1, <1>6, <1>7
<1>9. qP \in Int /\ into = qP + e
  <2>1. qP \in Int /\ qP * F = q * (P * F) /\ qP + D \in Int /\ qP + e \in Int
    <3>1. qP \in Int /\ qP * F = q * (P * F)
      BY <1>1, Products
    <3> HIDE DEF qP, e
    <3> QED BY <1>1, <1>8, <3>1
  <2> DEFINE one == qP * F
             two == D * F
             three == u * F
             four == (qP + e) * F
  <2>2. four = one + two + three /\ one \in Int /\ two \in Int /\ three \in Int
    <3>1. u \in Int /\ D \in Int /\ F \in Int /\ qP + D \in Int
      BY <1>1, <1>6, <2>1
    <3> HIDE DEF qP, u
    <3>2. (qP + D) * F = qP * F + D * F
      BY <2>1, <3>1, Products
    <3>3. ((qP + D) + u) * F = (qP + D) * F + u * F
      BY <3>1, Products
    <3>4. (qP + D) + u = qP + e
      BY <2>1, <3>1
    <3>5. one \in Int /\ two \in Int /\ three \in Int
      BY <2>1, <3>1, Products
    <3> HIDE DEF e
    <3> QED BY <3>2, <3>3, <3>4, <3>5
  <2>3. at - frame - two = one + r
    BY <1>2, <2>1
  <2>4. t = three + v
    BY <1>6
  <2>5. frame \in Int /\ r \in Int
    <3>1. frame \in 0..(dataF - 1)
      BY <1>1
    <3> QED BY <3>1
  <2>6. at - (F - 1) = four + v
    <3> HIDE DEF one, two, three, four, v
    <3>1. at = one + r + frame + two
      BY <2>2, <2>3, <2>5
    <3>2. t = r + frame - F + 1
      BY DEF t
    <3> QED BY <1>1, <1>5, <1>6, <2>2, <2>4, <2>5, <3>1, <3>2
  <2>7. (four + v) \div F = qP + e
    <3> HIDE DEF qP, e, v
    <3> QED BY <1>1, <1>6, <2>1, RemainderOf
  <2>8. into = qP + e
    BY <2>6, <2>7
  <2> QED BY <2>1, <2>8
<1>10. into \in Int
  <2> HIDE DEF into, qP, e
  <2> QED BY <1>8, <1>9
<1> HIDE DEF into, e
<1>11. d \in Int /\ z \in Int /\ into = d * ClockMs + z
  BY <1>1, <1>10, IntDivMod
<1> DEFINE turns == (d * c) * P
           back == (q - d * c) * P
<1>12. /\ d * c \in Int /\ turns \in Int /\ d * ClockMs = turns /\ back = qP - turns
       /\ q - d * c \in Int
  <2> HIDE DEF d
  <2>1. d * c \in Int /\ c \in Int
    BY <1>3, <1>11, Products
  <2> QED BY <1>1, <1>3, <1>11, <2>1, Products
<1>13. z = back + e
  <2> HIDE DEF d, z, turns, back, qP
  <2> QED BY <1>8, <1>9, <1>11, <1>12
<1>14. z % P = e
  <2> HIDE DEF d, z
  <2> QED BY <1>1, <1>8, <1>12, <1>13, RemainderOf DEF back
<1>15. InTxPayloadWindow(m, z)
  BY <1>4, <1>8, <1>14
<1> QED BY <1>15 DEF into, F

(* SoundsInPayloadWindow: where the submodes have a start delay, as those  *)
(* of submode.rs, nothing that was started by the clock sounds outside its *)
(* slot's payload window, but for the millisecond the clock rounds off.    *)
THEOREM SoundStaysInTheWindow ==
  (\A m \in Submode : StartDelayMs[m] > 0) => (Spec => []SoundsInPayloadWindow)
<1> SUFFICES ASSUME \A m \in Submode : StartDelayMs[m] > 0
             PROVE  Spec => []SoundsInPayloadWindow
  OBVIOUS
<1>1. TransmitInv => SoundsInPayloadWindow
  <2> SUFFICES ASSUME TransmitInv, aligned, ~tuning, NEW s \in sounded
               PROVE  InTxPayloadWindow(mode,
                        ((s.at - (FramesPerMs - 1)) \div FramesPerMs) % ClockMs)
    BY DEF SoundsInPayloadWindow
  <2>1. mode \in Submode /\ StartDelayMs[mode] > 0
    BY DEF TransmitInv, PlaceType
  <2>2. PICK r \in 0..(FramesPerMs - 1) :
          /\ s.at \in Int /\ s.frame \in 0..(NumSymbols * SymbolFrames[mode] - 1)
          /\ StandsAt(mode, s.at - s.frame - DelayFrames(mode), r)
    BY DEF TransmitInv, SoundInv
  <2>3. PICK q \in Int : s.at - s.frame - DelayFrames(mode) = q * SlotFrames(mode) + r
    BY <2>2 DEF StandsAt
  <2> QED BY <2>1, <2>2, <2>3, ClockInWindow
<1> QED BY <1>1, Invariance, PTL
-----------------------------------------------------------------------------
(* The symbols.  Those of a render follow from each other; the function    *)
(* that says so exists for any number of them.                             *)
LEMMA SymbolsAre ==
  ASSUME NEW n \in Nat
  PROVE  /\ Symbols(n)[0] = [symbol |-> isym0, next |-> nextSymbol]
         /\ \A j \in 1..n : Symbols(n)[j] = SymbolStep(Symbols(n)[j - 1], ic + j - 1)
<1> DEFINE start == [symbol |-> isym0, next |-> nextSymbol]
           IsRun(f, k) == f = [j \in 0..k |-> IF j = 0 THEN start ELSE SymbolStep(f[j - 1], ic + j - 1)]
           none == {k \in Nat : ~(\E f : IsRun(f, k))}
<1>1. none = {}
  <2> SUFFICES ASSUME none # {} PROVE FALSE
    OBVIOUS
  <2>1. none \in SUBSET Nat
    OBVIOUS
  <2>2. PICK k \in none : \A i \in none : k <= i
    BY <2>1, NaturalMinimum
  <2>3. k # 0
    <3>1. IsRun([j \in 0..0 |-> start], 0)
      OBVIOUS
    <3> QED BY <3>1
  <2>4. k \in Nat /\ k - 1 \in Nat /\ k - 1 \notin none
    <3>1. k \in Nat
      BY <2>1
    <3> HIDE DEF none
    <3> QED BY <2>2, <2>3, <3>1
  <2>5. PICK f : IsRun(f, k - 1)
    BY <2>4
  <2> DEFINE g == [j \in 0..k |-> IF j = k THEN SymbolStep(f[k - 1], ic + k - 1) ELSE f[j]]
  <2>6. IsRun(g, k)
    <3>1. ASSUME NEW j \in 0..k
          PROVE g[j] = IF j = 0 THEN start ELSE SymbolStep(g[j - 1], ic + j - 1)
      <4>1. CASE j = k
        <5>1. g[k - 1] = f[k - 1]
          BY <2>4
        <5> QED BY <2>3, <4>1, <5>1
      <4>2. CASE j # k
        <5>1. j \in 0..(k - 1) /\ g[j] = f[j] /\ (j # 0 => j - 1 \in 0..k /\ j - 1 # k)
          BY <2>4, <4>2
        <5> QED BY <2>5, <5>1
      <4> QED BY <4>1, <4>2
    <3> QED BY <3>1
  <2> QED BY <2>2, <2>6
<1>2. PICK f : IsRun(f, n)
  BY <1>1
<1>3. IsRun(Symbols(n), n)
  BY <1>2 DEF Symbols
<1> HIDE DEF IsRun
<1>4. Symbols(n) = [j \in 0..n |-> IF j = 0 THEN start ELSE SymbolStep(Symbols(n)[j - 1], ic + j - 1)]
  BY <1>3 DEF IsRun
<1> QED BY <1>4

(* The symbol of frame c of the waveform, and where the next one begins.   *)
InSymbol(s, c) ==
  /\ s.next = (s.symbol + 1) * SymbolFrames[mode]
  /\ s.symbol * SymbolFrames[mode] <= c
  /\ c < s.next

SymbolInv ==
  /\ isym0 \in Nat \cup {NoSymbol} /\ nextSymbol \in Nat
  /\ PttActive /\ ~tuning /\ isym0 # NoSymbol
       => InSymbol([symbol |-> isym0, next |-> nextSymbol], ic - 1)

ToneInv == aligned /\ ~tuning => \A s \in sounded : s.symbol = s.frame \div SymbolFrames[mode]

WaveInv == SymbolInv /\ ToneInv

LEMMA StepInSymbol ==
  ASSUME mode \in Submode, NEW c \in Nat, NEW s, s.symbol \in Nat \cup {NoSymbol}, s.next \in Nat,
         ~tuning /\ s.symbol # NoSymbol => InSymbol(s, c - 1)
  PROVE  /\ SymbolStep(s, c).symbol \in Nat /\ SymbolStep(s, c).next \in Nat
         /\ ~tuning => InSymbol(SymbolStep(s, c), c)
<1> DEFINE S == SymbolFrames[mode]
           first == IF tuning THEN 0 ELSE c \div S
           t == SymbolStep(s, c)
<1>1. S \in Nat \ {0}
  BY ModulatorAssumption
<1>2. CASE s.symbol = NoSymbol
  <2>1. t = [symbol |-> first, next |-> (first + 1) * S]
    BY <1>2 DEF SymbolStep
  <2>2. /\ c \div S \in Nat /\ (c \div S) * S <= c /\ c < (c \div S) * S + S
    <3> HIDE DEF S
    <3> QED BY <1>1, DivMod, MultipleBelow
  <2>3. first \in Nat
    BY <2>2
  <2>4. (first + 1) * S = first * S + S /\ first * S \in Nat
    <3> HIDE DEF S, first
    <3> QED BY <1>1, <2>3, MultiplesApart
  <2>5. t.symbol = first /\ t.next = (first + 1) * S
    BY <2>1
  <2>6. ~tuning => InSymbol(t, c)
    <3> SUFFICES ASSUME ~tuning PROVE InSymbol(t, c)
      OBVIOUS
    <3>1. first = c \div S
      BY <1>2
    <3>2. first * S <= c /\ c < (first + 1) * S
      <4> HIDE DEF S, first
      <4> QED BY <2>2, <2>4, <3>1
    <3> HIDE DEF first, t
    <3> QED BY <2>5, <3>2 DEF InSymbol
  <2>7. (first + 1) * S \in Nat
    <3> HIDE DEF S, first
    <3> QED BY <1>1, <2>4
  <2> HIDE DEF t, first, S
  <2> QED BY <2>3, <2>5, <2>6, <2>7 DEF t
<1>3. CASE s.symbol # NoSymbol /\ ~tuning /\ c >= s.next
  <2> DEFINE k == s.symbol + 1
  <2>1. t = [symbol |-> k, next |-> s.next + S] /\ k \in Nat
    BY <1>3 DEF SymbolStep
  <2>2. s.next = k * S /\ c - 1 < s.next
    BY <1>3 DEF InSymbol
  <2>3. c = s.next
    BY <1>3, <2>2
  <2>4. t.symbol = k /\ t.next = s.next + S
    BY <2>1
  <2> HIDE DEF S, k, t
  <2>5. (k + 1) * S = k * S + S
    BY <1>1, <2>1, MultiplesApart
  <2>6. t.next = (t.symbol + 1) * S /\ t.symbol * S <= c /\ c < t.next
    BY <1>1, <2>2, <2>3, <2>4, <2>5
  <2>7. t.symbol \in Nat /\ t.next \in Nat
    BY <1>1, <2>1, <2>4
  <2>8. InSymbol(t, c)
    BY <2>6 DEF InSymbol, S
  <2> QED BY <2>7, <2>8 DEF t
<1>4. CASE s.symbol # NoSymbol /\ ~(~tuning /\ c >= s.next)
  <2>1. t = s
    BY <1>4 DEF SymbolStep
  <2>2. s.symbol \in Nat
    BY <1>4
  <2>3. ~tuning => InSymbol(s, c)
    <3> SUFFICES ASSUME ~tuning PROVE InSymbol(s, c)
      OBVIOUS
    <3> DEFINE sS == s.symbol * S
    <3>1. sS <= c - 1 /\ s.next = (s.symbol + 1) * S
      BY <1>4 DEF InSymbol
    <3>2. sS \in Int
      <4>1. s.symbol \in Int /\ S \in Int
        BY <1>1, <2>2
      <4> HIDE DEF S
      <4> QED BY <4>1, Products
    <3>3. sS <= c
      <4> HIDE DEF sS
      <4> QED BY <3>1, <3>2
    <3>4. c < s.next
      BY <1>4
    <3> QED BY <3>1, <3>3, <3>4 DEF InSymbol
  <2> QED BY <2>1, <2>2, <2>3
<1> QED BY <1>2, <1>3, <1>4

(* Every symbol of a render is the one of its frame.                       *)
LEMMA SymbolsInPlace ==
  ASSUME PlaceType, SymbolInv, PttActive, NEW n \in Nat
  PROVE  \A j \in 1..n :
           /\ Symbols(n)[j].symbol \in Nat /\ Symbols(n)[j].next \in Nat
           /\ ~tuning => InSymbol(Symbols(n)[j], ic + j - 1)
<1> DEFINE Holds(j) == /\ Symbols(n)[j].symbol \in Nat /\ Symbols(n)[j].next \in Nat
                       /\ ~tuning => InSymbol(Symbols(n)[j], ic + j - 1)
           wrong == {j \in Nat : j \in 1..n /\ ~Holds(j)}
<1>1. /\ mode \in Submode /\ ic \in Nat
      /\ Symbols(n)[0] = [symbol |-> isym0, next |-> nextSymbol]
      /\ \A j \in 1..n : Symbols(n)[j] = SymbolStep(Symbols(n)[j - 1], ic + j - 1)
  BY SymbolsAre DEF PlaceType
<1>2. wrong = {}
  <2> SUFFICES ASSUME wrong # {} PROVE FALSE
    OBVIOUS
  <2>1. PICK k \in wrong : \A i \in wrong : k <= i
    <3>1. wrong \in SUBSET Nat
      OBVIOUS
    <3> HIDE DEF wrong
    <3> QED BY <3>1, NaturalMinimum
  <2> DEFINE s == Symbols(n)[k - 1]
  <2>2. k \in 1..n /\ k \in Nat /\ ~Holds(k)
    <3> HIDE DEF Holds
    <3> QED OBVIOUS
  <2>3. /\ s.symbol \in Nat \cup {NoSymbol} /\ s.next \in Nat
        /\ ~tuning /\ s.symbol # NoSymbol => InSymbol(s, (ic + k - 1) - 1)
    <3>1. CASE k = 1
      <4>1. s = [symbol |-> isym0, next |-> nextSymbol] /\ (ic + k - 1) - 1 = ic - 1
        BY <1>1, <3>1
      <4> HIDE DEF s
      <4> QED BY <4>1 DEF SymbolInv
    <3>2. CASE k # 1
      <4>1. k - 1 \in 1..n /\ k - 1 \in Nat /\ k - 1 \notin wrong
        <5> HIDE DEF wrong
        <5> QED BY <2>1, <2>2, <3>2
      <4>2. Holds(k - 1)
        <5> HIDE DEF Holds
        <5> QED BY <4>1
      <4>3. ic + (k - 1) - 1 = (ic + k - 1) - 1
        BY <1>1, <2>2
      <4> QED BY <4>2, <4>3
    <3> QED BY <3>1, <3>2
  <2>4. ic + k - 1 \in Nat /\ Symbols(n)[k] = SymbolStep(s, ic + k - 1)
    BY <1>1, <2>2
  <2>5. Holds(k)
    <3> HIDE DEF s
    <3> QED BY <1>1, <2>3, <2>4, StepInSymbol
  <2> QED BY <2>2, <2>5
<1> SUFFICES ASSUME NEW j \in 1..n PROVE Holds(j)
  OBVIOUS
<1>3. j \in Nat /\ j \notin wrong
  BY <1>2
<1> HIDE DEF Holds
<1> QED BY <1>3

LEMMA SymbolOfFrame ==
  ASSUME mode \in Submode, NEW s, s.symbol \in Nat, NEW c \in Nat, InSymbol(s, c)
  PROVE  s.symbol = c \div SymbolFrames[mode]
<1> DEFINE S == SymbolFrames[mode]
           k == s.symbol
           r == c - k * S
<1>1. S \in Nat \ {0}
  BY ModulatorAssumption
<1>2. k * S <= c /\ c < (k + 1) * S
  BY DEF InSymbol
<1> HIDE DEF S, k
<1>3. k \in Nat
  BY DEF k
<1>4. k * S \in Nat /\ (k + 1) * S = k * S + S
  BY <1>1, <1>3, MultiplesApart
<1>5. r \in 0..(S - 1) /\ c = k * S + r
  BY <1>1, <1>2, <1>4
<1> HIDE DEF r
<1>6. (k * S + r) \div S = k
  BY <1>1, <1>3, <1>5, RemainderOf
<1> QED BY <1>5, <1>6 DEF k, S

LEMMA WaveInit == Init => WaveInv
<1> SUFFICES ASSUME Init PROVE WaveInv
  OBVIOUS
<1>1. isym0 = NoSymbol /\ nextSymbol = 0 /\ state = "Idle" /\ aligned = FALSE
  BY DEF Init, InitModulator
<1>2. SymbolInv
  BY <1>1 DEF SymbolInv
<1>3. ToneInv
  BY <1>1 DEF ToneInv
<1> QED BY <1>2, <1>3 DEF WaveInv

LEMMA WavePlay ==
  ASSUME PlaceType, WaveInv, NEW n \in 1..MaxRender, Render(n),
         sounded' = {[at |-> (now + Quiet(n) + j - 1) % ClockFrames, frame |-> ic + j - 1,
                      symbol |-> Symbols(Sounding(n))[j].symbol] : j \in 1..Sounding(n)},
         UNCHANGED aligned
  PROVE  WaveInv'
<1> DEFINE So == Sounding(n)
           sym == Symbols(So)
<1>1. /\ state # "Idle" /\ mode \in Submode /\ So \in Nat /\ ic \in Nat /\ PttActive
      /\ SymbolInv
  BY RenderFacts DEF PlaceType, Render, PttActive, WaveInv
<1>2. /\ ic' = ic + So /\ isym0' = sym[So].symbol /\ nextSymbol' = sym[So].next
      /\ UNCHANGED <<tuning, mode>>
  BY DEF Render
<1>3. /\ sym[0] = [symbol |-> isym0, next |-> nextSymbol]
      /\ \A j \in 1..So : /\ sym[j].symbol \in Nat /\ sym[j].next \in Nat
                          /\ ~tuning => InSymbol(sym[j], ic + j - 1)
  <2> HIDE DEF So
  <2> QED BY <1>1, SymbolsAre, SymbolsInPlace
<1>4. sounded' = {[at |-> (now + Quiet(n) + j - 1) % ClockFrames, frame |-> ic + j - 1,
                   symbol |-> sym[j].symbol] : j \in 1..So}
  OBVIOUS
<1> HIDE DEF So, sym
<1>5. SymbolInv'
  <2>1. CASE So = 0
    <3>1. ic' = ic /\ isym0' = isym0 /\ nextSymbol' = nextSymbol
      BY <1>1, <1>2, <1>3, <2>1
    <3> QED BY <1>1, <1>2, <3>1 DEF SymbolInv, InSymbol
  <2>2. CASE So # 0
    <3>1. So \in 1..So
      BY <1>1, <2>2
    <3>2. isym0' \in Nat /\ nextSymbol' \in Nat
      BY <1>2, <1>3, <3>1
    <3>3. ASSUME ~tuning
          PROVE  /\ nextSymbol' = (isym0' + 1) * SymbolFrames[mode]
                 /\ isym0' * SymbolFrames[mode] <= ic' - 1 /\ ic' - 1 < nextSymbol'
      <4>1. InSymbol(sym[So], ic + So - 1)
        BY <1>3, <3>1, <3>3
      <4>2. ic' - 1 = ic + So - 1
        BY <1>1, <1>2
      <4> QED BY <1>2, <4>1, <4>2 DEF InSymbol
    <3> QED BY <1>2, <3>2, <3>3 DEF SymbolInv, InSymbol
  <2> QED BY <2>1, <2>2
<1>6. ToneInv'
  <2> SUFFICES ASSUME ~tuning, NEW j \in 1..So
               PROVE  sym[j].symbol = (ic + j - 1) \div SymbolFrames[mode]
    BY <1>2, <1>4 DEF ToneInv
  <2>1. sym[j].symbol \in Nat /\ InSymbol(sym[j], ic + j - 1) /\ ic + j - 1 \in Nat
    BY <1>1, <1>3
  <2> QED BY <1>1, <2>1, SymbolOfFrame
<1> QED BY <1>5, <1>6 DEF WaveInv

LEMMA WaveStep == TransmitInv /\ WaveInv /\ [Next]_vars => WaveInv'
<1> SUFFICES ASSUME PlaceType, WaveInv, [Next]_vars PROVE WaveInv'
  BY DEF TransmitInv
<1>1. CASE Wait \/ UNCHANGED vars
  <2>1. UNCHANGED <<state, tuning, mode, ic, isym0, nextSymbol, aligned, sounded>>
    BY <1>1 DEF Wait, vars, modulatorVars
  <2>2. SymbolInv'
    BY <2>1 DEF WaveInv, SymbolInv, PttActive, InSymbol
  <2>3. ToneInv'
    BY <2>1 DEF WaveInv, ToneInv
  <2> QED BY <2>2, <2>3 DEF WaveInv
<1>2. CASE StartWhenAllowed \/ StartUngated
  <2>1. isym0' = NoSymbol /\ nextSymbol' = 0 /\ sounded' = {}
    BY <1>2 DEF StartWhenAllowed, StartUngated, Start
  <2> QED BY <2>1 DEF WaveInv, SymbolInv, ToneInv
<1>3. CASE StopSending \/ SetTuning
  <2>1. /\ UNCHANGED <<mode, ic, isym0, nextSymbol>> /\ sounded' = {}
        /\ state' = "Idle" \/ tuning' = TRUE
    BY <1>3 DEF StopSending, SetTuning, Stop, Tune
  <2>2. SymbolInv'
    BY <2>1 DEF WaveInv, SymbolInv, PttActive
  <2>3. ToneInv'
    BY <2>1 DEF ToneInv
  <2> QED BY <2>2, <2>3 DEF WaveInv
<1>4. CASE Play
  BY <1>4, WavePlay DEF Play
<1> QED BY <1>1, <1>2, <1>3, <1>4 DEF Next

LEMMA WaveInvariance == Spec => []WaveInv
BY WaveInit, WaveStep, Invariance, PTL DEF Spec

(* SymbolsOnTime: a frame that was started by the clock, late ones too, is *)
(* heard as the receiver expects it, each symbol at its place in the slot, *)
(* however the output slices it.                                           *)
THEOREM SymbolsKeepTheirPlace == Spec => []SymbolsOnTime
<1>1. TransmitInv /\ WaveInv => SymbolsOnTime
  <2> SUFFICES ASSUME TransmitInv, WaveInv, aligned, ~tuning
               PROVE  \E d \in 0..(FramesPerMs - 1) :
                        \A s \in sounded : s.symbol = SymbolDue(mode, s.at, d)
    BY DEF SymbolsOnTime
  <2>1. mode \in Submode
    BY DEF TransmitInv, PlaceType
  <2>2. PICK d \in 0..(FramesPerMs - 1) : \A s \in sounded :
          /\ s.at \in Int /\ s.frame \in 0..(NumSymbols * SymbolFrames[mode] - 1)
          /\ StandsAt(mode, s.at - s.frame - DelayFrames(mode), d)
    BY DEF TransmitInv, SoundInv
  <2> SUFFICES ASSUME NEW s \in sounded PROVE s.symbol = SymbolDue(mode, s.at, d)
    OBVIOUS
  <2> DEFINE D == DelayFrames(mode)
             S == SlotFrames(mode)
             length == NumSymbols * SymbolFrames[mode]
             t == s.at - d - D
  <2>3. PICK q \in Int : s.at - s.frame - D = q * S + d
    BY <2>2 DEF StandsAt
  <2>4. /\ S \in Nat \ {0} /\ D \in Nat /\ d \in Int /\ length \in Int /\ length <= S
    <3> DEFINE P == PeriodMs[mode]
               data == DataMs[mode]
               F == FramesPerMs
    <3>1. /\ F \in Nat \ {0} /\ P \in Nat /\ data \in Nat /\ data <= P /\ D \in Nat
          /\ length = data * F /\ S = P * F /\ S \in Nat \ {0} /\ d \in Int
      BY <2>1, Constants, SlotFacts DEF SlotFrames
    <3> HIDE DEF P, data, F, D, S, length
    <3>2. \A a, b \in Nat : a <= b => a * F <= b * F /\ a * F \in Nat
      BY <3>1, SMTT(30)
    <3> QED BY <3>1, <3>2
  <2>5. s.frame \in 0..(S - 1) /\ s.at \in Int
    <3>1. s.frame \in 0..(length - 1) /\ s.at \in Int
      BY <2>2
    <3> HIDE DEF length, S
    <3> QED BY <2>4, <3>1
  <2>6. t % S = s.frame
    <3> DEFINE qS == q * S
    <3>1. qS \in Int /\ (qS + s.frame) % S = s.frame
      <4> HIDE DEF S
      <4> QED BY <2>4, <2>5, RemainderOf
    <3>2. t = qS + s.frame
      <4>1. qS \in Int /\ s.at - s.frame - D = qS + d
        BY <2>3, <3>1
      <4> HIDE DEF qS, D, S
      <4> QED BY <2>4, <2>5, <4>1
    <3> QED BY <3>1, <3>2
  <2>7. SymbolDue(mode, s.at, d) = (t % S) \div SymbolFrames[mode]
    BY DEF SymbolDue, DelayFrames
  <2>8. s.symbol = s.frame \div SymbolFrames[mode]
    BY DEF WaveInv, ToneInv
  <2> QED BY <2>6, <2>7, <2>8
<1> QED BY <1>1, Invariance, WaveInvariance, PTL
-----------------------------------------------------------------------------
(* The gate of the slots.                                                  *)
LEMMA SlotParts ==
  ASSUME NEW m \in Submode, NEW ms \in Nat
  PROVE  /\ MsIntoSlot(m, ms) \in 0..(PeriodMs[m] - 1)
         /\ ms \div PeriodMs[m] \in Nat
         /\ SlotStartMs(m, ms) = (ms \div PeriodMs[m]) * PeriodMs[m]
         /\ SlotStartMs(m, ms) \in Nat
         /\ ms = SlotStartMs(m, ms) + MsIntoSlot(m, ms)
<1> DEFINE P == PeriodMs[m]
           q == ms \div P
           into == ms % P
           slot == q * P
<1>1. P \in Nat \ {0}
  BY Constants
<1>2. q \in Nat /\ into \in 0..(P - 1) /\ ms = slot + into
  <2> HIDE DEF P
  <2> QED BY <1>1, DivMod
<1>3. slot \in Nat
  <2> HIDE DEF q, P
  <2> QED BY <1>1, <1>2, MultiplesApart
<1> HIDE DEF P, q, into, slot
<1>4. SlotStartMs(m, ms) = ms - into /\ MsIntoSlot(m, ms) = into
  BY DEF SlotStartMs, MsIntoSlot, into, P
<1>5. ms - into = slot
  BY <1>1, <1>2, <1>3
<1> QED BY <1>2, <1>3, <1>4, <1>5 DEF slot, q, P

LEMMA ThresholdType ==
  ASSUME NEW m \in Submode
  PROVE  /\ ThresholdNum(m) \in Int /\ ThresholdDen(m) \in Nat \ {0}
         /\ TrPeriod(m) \in Nat \ {0} /\ LateNum[m] \in Nat \ {0} /\ LateDen[m] \in Nat \ {0}
<1>1. /\ PeriodMs[m] \in Nat \ {0} /\ DataMs[m] \in Nat \ {0} /\ TxDelayMs \in Nat
      /\ TrPeriodMs \in Nat /\ LateNum[m] \in Nat \ {0} /\ LateDen[m] \in Nat \ {0}
  BY TimingAssumption
<1>2. TrPeriod(m) \in Nat \ {0}
  BY <1>1 DEF TrPeriod
<1>3. \A a, b \in Nat \ {0} : a * b \in Nat \ {0}
  BY SMTT(30)
<1>4. \A a, b \in Int : a * b \in Int
  BY SMTT(30)
<1> DEFINE spared == (PeriodMs[m] - DataMs[m]) * TrPeriod(m)
           delayed == TxDelayMs * PeriodMs[m]
<1>5. spared \in Int /\ delayed \in Int
  <2>1. /\ PeriodMs[m] - DataMs[m] \in Int /\ TrPeriod(m) \in Int
        /\ TxDelayMs \in Int /\ PeriodMs[m] \in Int
    BY <1>1, <1>2
  <2> QED BY <1>4, <2>1
<1>6. ThresholdNum(m) = (spared - delayed) * LateNum[m]
  BY DEF ThresholdNum
<1> HIDE DEF spared, delayed
<1>7. spared - delayed \in Int /\ LateNum[m] \in Int
  BY <1>1, <1>5
<1>8. ThresholdNum(m) \in Int
  BY <1>4, <1>6, <1>7
<1>9. ThresholdDen(m) \in Nat \ {0}
  BY <1>1, <1>2, <1>3 DEF ThresholdDen
<1> QED BY <1>1, <1>2, <1>8, <1>9

LEMMA NowMsType == TransmitInv => NowMs \in Nat
<1> SUFFICES ASSUME TransmitInv PROVE NowMs \in Nat
  OBVIOUS
<1>1. now \in Nat /\ FramesPerMs \in Nat \ {0}
  BY ClockFramesType, ModulatorAssumption DEF TransmitInv, PlaceType
<1> QED BY <1>1, DivMod DEF NowMs

(* A floor compares with whole numbers as what it rounds down.             *)
LEMMA FloorCompares ==
  ASSUME NEW a \in Int, NEW b \in Nat \ {0}, NEW k \in Int
  PROVE  /\ k < a \div b => k * b < a
         /\ k > a \div b => ~(k * b < a)
<1> DEFINE d == a \div b
           r == a % b
           db == d * b
           kb == k * b
<1>1. d \in Int /\ r \in 0..(b - 1) /\ a = db + r
  BY IntDivMod
<1>2. db \in Int /\ kb \in Int
  <2> HIDE DEF d
  <2> QED BY <1>1, Products
<1>3. \A x, y \in Int : x < y => x * b + b <= y * b
  BY SMTT(30)
<1>4. (k < d => kb + b <= db) /\ (d < k => db + b <= kb)
  BY <1>1, <1>3
<1> HIDE DEF d, r, db, kb
<1>5. (k < d => kb < a) /\ (k > d => ~(kb < a))
  BY <1>1, <1>2, <1>4
<1> QED BY <1>5 DEF d, kb

(* LatestStartAgreesWithGate: outside of the TX-delay window, the latest   *)
(* start that is published (timing.rs:78) is what the gate applies, for    *)
(* any periods, delays and multipliers.                                    *)
THEOREM LatestStartIsTheGate == Spec => []LatestStartAgreesWithGate
<1>1. TransmitInv => LatestStartAgreesWithGate
  <2> SUFFICES ASSUME TransmitInv, NEW m \in Submode, ~InTxDelayWindow(m, NowMs)
               PROVE  /\ NowMs < LatestStartMsExclusive(m, NowMs) => AllowedToStartNow(m, NowMs)
                      /\ NowMs > LatestStartMsExclusive(m, NowMs) => ~AllowedToStartNow(m, NowMs)
    BY DEF LatestStartAgreesWithGate
  <2> DEFINE into == MsIntoSlot(m, NowMs)
             slot == SlotStartMs(m, NowMs)
             boundary == ThresholdNum(m) \div ThresholdDen(m)
  <2>1. into \in Nat /\ slot \in Nat /\ NowMs = slot + into
    <3>1. PeriodMs[m] \in Nat \ {0}
      BY Constants
    <3> QED BY <3>1, NowMsType, SlotParts
  <2>2. /\ into < boundary => BeforeLateThreshold(m, NowMs)
        /\ into > boundary => ~BeforeLateThreshold(m, NowMs)
    BY <2>1, ThresholdType, FloorCompares DEF BeforeLateThreshold
  <2>3. boundary \in Int
    BY ThresholdType, IntDivMod
  <2>4. LatestStartMsExclusive(m, NowMs) = slot + (IF boundary < 0 THEN 0 ELSE boundary)
    BY DEF LatestStartMsExclusive
  <2>5. AllowedToStartNow(m, NowMs) <=> BeforeLateThreshold(m, NowMs)
    BY DEF AllowedToStartNow
  <2> HIDE DEF into, slot, boundary
  <2> QED BY <2>1, <2>2, <2>3, <2>4, <2>5
<1> QED BY <1>1, Invariance, PTL

(* NextViableStartIsViable: where the delay leaves the slot starts open,   *)
(* next_viable_start_ms names a time that should_start_tx_now accepts.     *)
THEOREM NextStartIsAccepted == SlotStartsAreOpen => (Spec => []NextViableStartIsViable)
<1> SUFFICES ASSUME SlotStartsAreOpen PROVE Spec => []NextViableStartIsViable
  OBVIOUS
<1>1. TransmitInv => NextViableStartIsViable
  <2> SUFFICES ASSUME TransmitInv, NEW m \in Submode
               PROVE  ShouldStartTxNow(m, NextViableStartMs(m, NowMs), FALSE)
    BY DEF NextViableStartIsViable
  <2> DEFINE P == PeriodMs[m]
             end == SlotEndMs(m, NowMs)
             q == NowMs \div P
  <2>1. CASE AllowedToStartNow(m, NowMs) /\ TimeIsInSendRegion(m, NowMs)
    BY <2>1 DEF NextViableStartMs, ShouldStartTxNow
  <2>2. CASE ~(AllowedToStartNow(m, NowMs) /\ TimeIsInSendRegion(m, NowMs))
    <3>1. /\ P \in Nat \ {0} /\ StartDelayMs[m] \in Nat /\ DataMs[m] \in Nat \ {0}
          /\ TxDelayMs \in Nat
      BY Constants
    <3>2. /\ q \in Nat /\ end = q * P + P /\ q * P \in Nat
          /\ NextViableStartMs(m, NowMs) = end
      <4>1. q \in Nat /\ SlotStartMs(m, NowMs) = q * P /\ q * P \in Nat
        BY NowMsType, SlotParts
      <4> QED BY <2>2, <4>1 DEF NextViableStartMs, SlotEndMs
    <3>3. end \in Nat /\ MsIntoSlot(m, end) = 0
      <4> HIDE DEF P, q, end
      <4>1. (q + 1) * P = q * P + P
        BY <3>1, <3>2, MultiplesApart
      <4>2. end = (q + 1) * P + 0 /\ q + 1 \in Int /\ 0 \in 0..(P - 1)
        BY <3>1, <3>2, <4>1
      <4>3. end % P = 0
        BY <3>1, <4>2, RemainderOf
      <4> QED BY <3>1, <3>2, <4>3 DEF MsIntoSlot, P
    <3> HIDE DEF end, q
    <3>4. InTxPayloadWindow(m, end)
      BY <3>1, <3>3 DEF InTxPayloadWindow, TxDurationMs
    <3>5. AllowedToStartNow(m, end)
      <4>1. CASE P <= TxDelayMs
        <5>1. SlotEndMs(m, end) = end + P
          BY <3>1, <3>3 DEF SlotEndMs, SlotStartMs
        <5>2. InTxDelayWindow(m, end)
          BY <3>1, <3>3, <4>1, <5>1 DEF InTxDelayWindow, TxDelayWindowStartMs
        <5> QED BY <5>2 DEF AllowedToStartNow
      <4>2. CASE TxDelayMs * P < (P - DataMs[m]) * TrPeriod(m)
        <5> DEFINE delayed == TxDelayMs * P
                   spared == (P - DataMs[m]) * TrPeriod(m)
        <5>1. /\ ThresholdNum(m) = (spared - delayed) * LateNum[m]
              /\ BeforeLateThreshold(m, end) <=> 0 * ThresholdDen(m) < ThresholdNum(m)
          BY <3>3 DEF ThresholdNum, BeforeLateThreshold
        <5>2. delayed \in Int /\ spared \in Int /\ LateNum[m] \in Nat \ {0}
              /\ ThresholdDen(m) \in Nat \ {0}
          <6>1. /\ TxDelayMs \in Int /\ P \in Int /\ P - DataMs[m] \in Int
                /\ TrPeriod(m) \in Int
            BY <3>1, ThresholdType
          <6> HIDE DEF P
          <6> QED BY <6>1, Products, ThresholdType
        <5>3. delayed < spared
          BY <4>2
        <5> HIDE DEF delayed, spared
        <5>4. \A a \in Int, b \in Nat \ {0} : a > 0 => a * b > 0
          BY SMTT(30)
        <5>5. spared - delayed \in Int /\ spared - delayed > 0
          BY <5>2, <5>3
        <5>6. ThresholdNum(m) > 0
          BY <5>1, <5>2, <5>4, <5>5
        <5>7. 0 * ThresholdDen(m) = 0
          BY <5>2
        <5> QED BY <5>1, <5>6, <5>7, ThresholdType DEF AllowedToStartNow
      <4> QED BY <4>1, <4>2 DEF SlotStartsAreOpen
    <3> QED BY <3>2, <3>4, <3>5 DEF ShouldStartTxNow, TimeIsInSendRegion
  <2> QED BY <2>1, <2>2
<1> QED BY <1>1, Invariance, PTL

(* What a late start may lose: a frame before its threshold has room left. *)
LEMMA EarlyEnough ==
  ASSUME NEW m \in Submode, LateNum[m] <= LateDen[m], NEW ms \in Nat, BeforeLateThreshold(m, ms)
  PROVE  MsIntoSlot(m, ms) < PeriodMs[m] - DataMs[m]
<1> DEFINE into == MsIntoSlot(m, ms)
           spare == PeriodMs[m] - DataMs[m]
           spared == spare * TrPeriod(m)
           delayed == TxDelayMs * PeriodMs[m]
           N == LateNum[m]
           M == LateDen[m]
           D == ThresholdDen(m)
<1>1. /\ into \in Nat /\ spare \in Nat /\ TrPeriod(m) \in Nat /\ N \in Nat /\ M \in Nat
      /\ D \in Nat \ {0} /\ TxDelayMs \in Nat /\ PeriodMs[m] \in Nat /\ N <= M
  <2>1. /\ PeriodMs[m] \in Nat \ {0} /\ DataMs[m] \in Nat /\ StartDelayMs[m] \in Nat
        /\ StartDelayMs[m] + DataMs[m] <= PeriodMs[m]
    BY Constants
  <2>2. spare \in Nat /\ into \in Nat
    BY <2>1, SlotParts
  <2> QED BY <2>1, <2>2, ThresholdType, TimingAssumption
<1>2. /\ \A a, b \in Int : \A c \in Nat : a <= b => a * c <= b * c
      /\ \A a, b \in Nat : a * b \in Nat
  BY SMTT(30)
<1>3. /\ ThresholdNum(m) = (spared - delayed) * N /\ D = TrPeriod(m) * M
      /\ into * D < ThresholdNum(m)
  BY DEF ThresholdNum, ThresholdDen, BeforeLateThreshold
<1> HIDE DEF into, spare, delayed, N, M, D
<1>4. spared \in Nat /\ delayed \in Nat
  BY <1>1, <1>2 DEF delayed
<1>5. spared * M = spare * D
  <2>1. spare \in Int /\ TrPeriod(m) \in Int /\ M \in Int
    BY <1>1
  <2> QED BY <1>3, <2>1, Products
<1> HIDE DEF spared
<1> DEFINE gate == (spared - delayed) * N
           whole == spared * N
           room == spared * M
           used == into * D
<1>6. spared - delayed <= spared /\ spared - delayed \in Int /\ spared \in Int
  BY <1>4
<1>7. gate <= whole
  BY <1>1, <1>2, <1>6
<1>8. whole <= room
  <2>1. N * spared <= M * spared
    BY <1>1, <1>2, <1>4
  <2>2. N * spared = whole /\ M * spared = room
    <3>1. N \in Int /\ M \in Int /\ spared \in Int
      BY <1>1, <1>4
    <3> QED BY <3>1, Products
  <2> QED BY <2>1, <2>2
<1>9. gate \in Int /\ whole \in Int /\ room \in Int /\ used \in Int
  <2>1. N \in Int /\ M \in Int /\ D \in Int /\ into \in Int
    BY <1>1
  <2> QED BY <1>6, <2>1, Products
<1>10. spare <= into => room <= used
  <2>1. spare \in Int /\ into \in Int /\ D \in Nat
    BY <1>1
  <2>2. spare <= into => spare * D <= into * D
    BY <1>2, <2>1
  <2> QED BY <1>5, <2>2
<1> HIDE DEF gate, whole, room, used
<1>11. used < gate
  BY <1>3 DEF used, gate
<1>12. ~(spare <= into)
  BY <1>7, <1>8, <1>9, <1>10, <1>11
<1> QED BY <1>1, <1>12 DEF into, spare

LEMMA LateStartsFit ==
  ASSUME NEW m \in Submode, LateNum[m] <= LateDen[m], NEW ms \in Nat, AllowedToStartNow(m, ms)
  PROVE  LateMs(m, ms) * FramesPerMs <= (PeriodMs[m] - TxDurationMs(m)) * FramesPerMs
<1> DEFINE into == MsIntoSlot(m, ms)
           P == PeriodMs[m]
           D == StartDelayMs[m]
           late == LateMs(m, ms)
           spare == P - TxDurationMs(m)
<1>1. /\ P \in Nat \ {0} /\ D \in Nat /\ DataMs[m] \in Nat \ {0} /\ TxDelayMs \in Nat
      /\ D + DataMs[m] <= P /\ FramesPerMs \in Nat \ {0}
  BY Constants
<1>2. into \in 0..(P - 1) /\ SlotStartMs(m, ms) \in Nat /\ ms = SlotStartMs(m, ms) + into
  BY SlotParts
<1>3. spare = P - (D + DataMs[m]) /\ spare \in Nat
  BY <1>1 DEF TxDurationMs
<1>4. late \in Nat /\ late <= spare
  <2>1. CASE StartsInTxDelay(m, ms) \/ D > into
    BY <1>3, <2>1 DEF LateMs
  <2>2. CASE ~StartsInTxDelay(m, ms) /\ ~(D > into)
    <3>1. late = into - D
      BY <2>2 DEF LateMs
    <3>2. ~InTxDelayWindow(m, ms)
      <4>1. P > into + TxDelayMs
        BY <1>1, <1>2, <2>2 DEF StartsInTxDelay
      <4>2. SlotEndMs(m, ms) = SlotStartMs(m, ms) + P
        BY DEF SlotEndMs
      <4> QED BY <1>1, <1>2, <4>1, <4>2 DEF InTxDelayWindow, TxDelayWindowStartMs
    <3>3. into < P - DataMs[m]
      BY <3>2, EarlyEnough DEF AllowedToStartNow
    <3> HIDE DEF into, P, D, spare, late
    <3> QED BY <1>1, <1>2, <1>3, <2>2, <3>1, <3>3
  <2> QED BY <2>1, <2>2
<1> HIDE DEF late, spare
<1>5. \A a, b \in Nat : a <= b => a * FramesPerMs <= b * FramesPerMs
  BY <1>1, SMTT(30)
<1>6. late * FramesPerMs <= spare * FramesPerMs
  BY <1>3, <1>4, <1>5
<1> QED BY <1>6 DEF late, spare

(* GatedFramesLoseLittle: a frame that the gate let start late, before a   *)
(* symbol of it has sounded, lost no more than its slot is longer than the *)
(* frame, where the multipliers are at most one, as those of submode.rs.   *)
THEOREM LateFramesFit == ThresholdsShrink => (Spec => []GatedFramesLoseLittle)
<1> SUFFICES ASSUME ThresholdsShrink PROVE Spec => []GatedFramesLoseLittle
  OBVIOUS
<1>1. Init => GatedFramesLoseLittle
  BY DEF Init, GatedFramesLoseLittle
<1>2. TransmitInv /\ WaveInv /\ GatedFramesLoseLittle /\ [Next]_vars => GatedFramesLoseLittle'
  <2> SUFFICES ASSUME TransmitInv, WaveInv, GatedFramesLoseLittle, [Next]_vars,
                      gated', aligned', PttActive', isym0' = NoSymbol
               PROVE  ic' <= (PeriodMs[mode'] - TxDurationMs(mode')) * FramesPerMs
    BY DEF GatedFramesLoseLittle, TxDurationMs
  <2>1. ASSUME UNCHANGED <<state, mode, ic, isym0, gated, aligned>>
        PROVE  ic' <= (PeriodMs[mode'] - TxDurationMs(mode')) * FramesPerMs
    BY <2>1 DEF GatedFramesLoseLittle, PttActive
  <2>2. CASE Wait \/ UNCHANGED vars
    BY <2>1, <2>2 DEF Wait, vars, modulatorVars
  <2>3. CASE StartWhenAllowed
    <3>1. PICK m \in Submode : ShouldStartTxNow(m, NowMs, PttActive) /\ Start(m, NowMs)
      BY <2>3 DEF StartWhenAllowed
    <3>2. ~tuning /\ mode' = m /\ ic' = LateMs(m, NowMs) * FramesPerMs
      BY <2>3, <3>1 DEF StartWhenAllowed, Start
    <3>3. AllowedToStartNow(m, NowMs) /\ LateNum[m] <= LateDen[m] /\ NowMs \in Nat
      BY <3>1, NowMsType DEF ShouldStartTxNow, ThresholdsShrink
    <3> QED BY <3>2, <3>3, LateStartsFit
  <2>4. CASE StartUngated
    BY <2>4 DEF StartUngated
  <2>5. CASE StopSending \/ SetTuning
    <3>1. UNCHANGED <<mode, ic, isym0, gated, aligned>> /\ PttActive
      BY <2>5 DEF StopSending, SetTuning, Stop, Tune, PttActive
    <3> QED BY <3>1 DEF GatedFramesLoseLittle
  <2>6. CASE Play
    <3>1. PICK n \in 1..MaxRender : Render(n)
      BY <2>6 DEF Play
    <3> DEFINE So == Sounding(n)
    <3>2. /\ state # "Idle" /\ PttActive /\ So \in Nat /\ ic \in Nat /\ PlaceType /\ SymbolInv
          /\ ic' = ic + So /\ isym0' = Symbols(So)[So].symbol /\ UNCHANGED <<mode, gated, aligned>>
      BY <2>6, <3>1, RenderFacts DEF Render, Play, PttActive, TransmitInv, PlaceType, WaveInv
    <3> HIDE DEF So
    <3>3. So = 0
      <4> SUFFICES ASSUME So # 0 PROVE FALSE
        OBVIOUS
      <4>1. So \in 1..So
        BY <3>2
      <4>2. Symbols(So)[So].symbol \in Nat
        BY <3>2, <4>1, SymbolsInPlace
      <4> QED BY <3>2, <4>2 DEF NoSymbol
    <3>4. Symbols(So)[0].symbol = isym0
      BY <3>2, SymbolsAre
    <3>5. ic' = ic /\ isym0 = NoSymbol
      BY <3>2, <3>3, <3>4
    <3> QED BY <3>2, <3>5 DEF GatedFramesLoseLittle
  <2> QED BY <2>2, <2>3, <2>4, <2>5, <2>6 DEF Next
<1> QED BY <1>1, <1>2, Invariance, WaveInvariance, PTL DEF Spec
=============================================================================
