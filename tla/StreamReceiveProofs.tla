------------------------ MODULE StreamReceiveProofs ------------------------
(***************************************************************************)
(* Proofs about StreamReceive, for any submodes, lengths and traffic, with *)
(* any clears, retransmissions and decodes out of turn.  If a caller polls *)
(* for every stride and no stride is longer than the search reaches, the   *)
(* overlapping windows leave no frame out, and the spectra they share are  *)
(* their own; and if the history reaches as far as a window, no frame is   *)
(* reported twice.                                                         *)
(***************************************************************************)
EXTENDS StreamReceive, ArithmeticLemmas, SequenceTheorems

(* The window of the grid that a frame is looked for in.                   *)
Cover(m, at) == (at \div ScanStride(m)) * ScanStride(m)

Tx == [mode : Polled, text : Text, at : Nat, tried : BOOLEAN, decoded : BOOLEAN, reports : Nat]

StreamType ==
  /\ kin \in Nat /\ polled \in Nat
  /\ next \in [Submode -> Int] /\ window \in [Submode -> Int]
  /\ sent \in Seq(Tx)

(* The caller's count is the detector's, but after a clear; and each       *)
(* cursor waits for the window after the last one that was complete.       *)
CursorsFollow ==
  /\ kin = polled \/ kin = 0
  /\ \A m \in Polled :
       next[m] = IF polled < SamplesPerPeriod[m] THEN None
                 ELSE Cover(m, polled - SamplesPerPeriod[m]) + ScanStride(m)

(* As soon as the window that covers a frame is complete, it was searched  *)
(* or is just about to be.                                                 *)
CoveredFrom(tx) == Cover(tx.mode, tx.at) + SamplesPerPeriod[tx.mode]

FramesCovered ==
  \A i \in DOMAIN sent :
    /\ sent[i].at <= kin
    /\ CoveredFrom(sent[i]) <= kin =>
         \/ sent[i].tried
         \/ window[sent[i].mode] = CoveredFrom(sent[i])
              /\ kin < CoveredFrom(sent[i]) + MaxStep

StreamInv == StreamType /\ CursorsFollow /\ FramesCovered
-----------------------------------------------------------------------------
(* A stride is positive and leaves room for a frame; a period is longer    *)
(* than any step of the count.                                             *)
LEMMA StrideFacts ==
  ASSUME StridesFit, NEW m \in Polled
  PROVE  /\ m \in Submode
         /\ MaxStep \in Nat /\ SampleSize \in Nat /\ Reach[m] \in Nat
         /\ SamplesForSymbols[m] \in Nat \ {0} /\ SamplesPerPeriod[m] \in Nat
         /\ ScanStride(m) \in Nat \ {0}
         /\ MaxStep <= ScanStride(m) /\ ScanStride(m) <= Reach[m] + 1
         /\ ScanStride(m) - 1 + SamplesForSymbols[m] <= SamplesPerPeriod[m]
         /\ MaxStep < SamplesPerPeriod[m]
         /\ SamplesPerPeriod[m] + MaxStep <= SampleSize
<1> DEFINE P == SamplesPerPeriod[m]
           symbols == SamplesForSymbols[m]
           one == SamplesForOneSymbol[m]
           limit == StrideLimit[m]
           s == ScanStride(m)
<1>1. m \in Submode
  BY StreamAssumption
<1>2. /\ MaxStep \in Nat /\ SampleSize \in Nat /\ Reach[m] \in Nat
      /\ P \in Nat /\ symbols \in Nat /\ one \in Nat /\ limit \in Nat
      /\ 0 < symbols /\ symbols < P /\ P + MaxStep <= SampleSize
  BY <1>1, StreamAssumption
<1>3. MaxStep <= s /\ s <= Reach[m] + 1
  BY DEF StridesFit
<1>4. s = LargerOf(1, SmallerOf(P - symbols - one, limit))
  BY DEF ScanStride
<1> HIDE DEF P, symbols, one, limit, s
<1>5. s \in Nat \ {0} /\ (s = 1 \/ s <= P - symbols - one)
  BY <1>2, <1>4 DEF LargerOf, SmallerOf
<1>6. s - 1 + symbols <= P /\ MaxStep < P
  BY <1>2, <1>3, <1>5
<1> QED BY <1>1, <1>2, <1>3, <1>5, <1>6 DEF P, symbols, s

(* The window that covers a frame begins no later than it and reaches its  *)
(* end.                                                                    *)
LEMMA CoverFacts ==
  ASSUME StridesFit, NEW m \in Polled, NEW at \in Nat
  PROVE  /\ Cover(m, at) \in Nat
         /\ Cover(m, at) <= at /\ at < Cover(m, at) + ScanStride(m)
BY StrideFacts, MultipleBelow DEF Cover

LEMMA CoverGrows ==
  ASSUME StridesFit, NEW m \in Polled, NEW x \in Nat, NEW y \in Nat, x <= y
  PROVE  Cover(m, x) = Cover(m, y) \/ Cover(m, x) + ScanStride(m) <= Cover(m, y)
BY StrideFacts, MultipleBelow DEF Cover

(* A stretch of one stride from a window on has no other window.           *)
LEMMA CoverOnly ==
  ASSUME StridesFit, NEW m \in Polled, NEW at \in Nat, NEW x \in Nat,
         Cover(m, at) <= x, x < Cover(m, at) + ScanStride(m)
  PROVE  Cover(m, x) = Cover(m, at)
<1>1. /\ Cover(m, at) \in Nat /\ Cover(m, x) \in Nat /\ ScanStride(m) \in Nat
      /\ Cover(m, x) <= x /\ x < Cover(m, x) + ScanStride(m)
  BY CoverFacts, StrideFacts
<1>2. CASE at <= x
  BY <1>1, <1>2, CoverGrows
<1>3. CASE x <= at
  BY <1>1, <1>3, CoverGrows
<1> QED BY <1>2, <1>3
-----------------------------------------------------------------------------
(* A poll leaves every cursor where it should be, and a window that has    *)
(* become complete with it is returned.                                    *)
LEMMA PollFollows ==
  ASSUME StridesFit, StreamType, CursorsFollow, NEW n \in 1..MaxStep, Receive(n),
         NEW m \in Polled
  PROVE  /\ polled' = kin' /\ kin' = kin + n /\ kin' \in Nat
         /\ next'[m] \in Int /\ window'[m] \in Int
         /\ next'[m] = IF polled' < SamplesPerPeriod[m] THEN None
                       ELSE Cover(m, polled' - SamplesPerPeriod[m]) + ScanStride(m)
         /\ \A at \in Nat :
              LET end == Cover(m, at) + SamplesPerPeriod[m]
              IN  kin < end /\ end <= kin' => window'[m] = end /\ kin' < end + MaxStep
<1> DEFINE P == SamplesPerPeriod[m]
           s == ScanStride(m)
           k == kin + n
           x == k - P
<1>1. /\ m \in Submode /\ P \in Nat /\ s \in Nat \ {0} /\ MaxStep \in Nat
      /\ MaxStep <= s /\ MaxStep < P /\ n \in Nat /\ 0 < n /\ n <= MaxStep
  BY StrideFacts
<1>2. kin \in Nat /\ polled \in Nat /\ (kin = polled \/ kin = 0) /\ k \in Nat
  BY <1>1 DEF StreamType, CursorsFollow
<1>3. next[m] = IF polled < P THEN None ELSE Cover(m, polled - P) + s
  BY DEF CursorsFollow
<1>4. /\ kin' = k /\ polled' = k
      /\ next'[m] = IF Ready(m, k, polled) THEN WindowStart(m, k) + s ELSE Waiting(m, k, polled)
      /\ window'[m] = IF Ready(m, k, polled) THEN WindowStart(m, k) + P ELSE None
  BY <1>1 DEF Receive, NextWindow
<1>5. WindowStart(m, k) = Cover(m, x)
  BY DEF WindowStart, Cover
<1> HIDE DEF P, s, k
<1>6. CASE k < P
  <2>1. ~ Ready(m, k, polled)
    BY <1>1, <1>2, <1>6 DEF Ready, P
  <2>2. Waiting(m, k, polled) = None
    BY <1>1, <1>2, <1>3, <1>6 DEF Waiting, k
  <2>3. next'[m] = None /\ window'[m] = None
    BY <1>4, <2>1, <2>2
  <2>4. ASSUME NEW at \in Nat PROVE ~(Cover(m, at) + P <= k)
    BY <1>1, <1>2, <1>6, CoverFacts
  <2> QED BY <1>2, <1>4, <1>6, <2>3, <2>4 DEF P, k, None
<1>7. CASE ~(k < P)
  <2>1. x \in Nat /\ kin = polled /\ polled < k
    BY <1>1, <1>2, <1>7 DEF k
  <2>2. /\ Cover(m, x) \in Nat /\ Cover(m, x) <= x /\ x < Cover(m, x) + s
    BY <2>1, CoverFacts DEF s
  <2>3. Waiting(m, k, polled) = next[m]
    BY <1>2, <2>1 DEF Waiting
  <2>4. Ready(m, k, polled) <=> (next[m] = None \/ Cover(m, x) >= next[m])
    BY <1>1, <1>2, <1>5, <1>7, <2>3 DEF Ready, P
  <2>5. CASE polled < P
    <3>1. Ready(m, k, polled)
      BY <1>3, <2>4, <2>5
    <3>2. next'[m] = Cover(m, x) + s /\ window'[m] = Cover(m, x) + P
      BY <1>4, <1>5, <3>1
    <3>3. ASSUME NEW at \in Nat, kin < Cover(m, at) + P, Cover(m, at) + P <= k
          PROVE  Cover(m, at) = Cover(m, x) /\ k < Cover(m, at) + P + MaxStep
      <4>1. Cover(m, at) \in Nat
        BY CoverFacts
      <4>2. Cover(m, at) <= x /\ x < Cover(m, at) + s /\ k < Cover(m, at) + P + MaxStep
        BY <1>1, <1>2, <3>3, <4>1 DEF k
      <4> QED BY <2>1, <4>2, CoverOnly DEF s
    <3> QED BY <1>1, <1>2, <1>4, <1>7, <2>2, <3>2, <3>3 DEF P, s, k
  <2>6. CASE ~(polled < P)
    <3> DEFINE y == polled - P
    <3>1. y \in Nat /\ y < x /\ next[m] = Cover(m, y) + s
      BY <1>1, <1>2, <1>3, <2>1, <2>6
    <3>2. /\ Cover(m, y) \in Nat /\ Cover(m, y) <= y
          /\ Cover(m, y) = Cover(m, x) \/ Cover(m, y) + s <= Cover(m, x)
      BY <2>1, <3>1, CoverFacts, CoverGrows DEF s
    <3> HIDE DEF y, x
    <3>3. Ready(m, k, polled) <=> Cover(m, y) # Cover(m, x)
      BY <1>1, <2>2, <2>4, <3>1, <3>2 DEF None
    <3>4. next'[m] = Cover(m, x) + s
      BY <1>4, <1>5, <2>3, <3>1, <3>3
    <3>5. window'[m] \in Int
      BY <1>1, <1>4, <1>5, <2>2 DEF None
    <3>6. ASSUME NEW at \in Nat, kin < Cover(m, at) + P, Cover(m, at) + P <= k
          PROVE  window'[m] = Cover(m, at) + P /\ k < Cover(m, at) + P + MaxStep
      <4>1. Cover(m, at) \in Nat
        BY CoverFacts
      <4>2. Cover(m, at) <= x /\ x < Cover(m, at) + s /\ k < Cover(m, at) + P + MaxStep
        BY <1>1, <1>2, <3>6, <4>1 DEF k, x
      <4>3. Cover(m, at) = Cover(m, x)
        BY <2>1, <4>2, CoverOnly DEF s
      <4>4. Cover(m, y) # Cover(m, x)
        BY <1>1, <1>2, <2>1, <3>1, <3>2, <3>6, <4>1, <4>3 DEF y
      <4> QED BY <1>4, <1>5, <3>3, <4>2, <4>3, <4>4
    <3> QED BY <1>1, <1>2, <1>4, <1>7, <2>2, <3>4, <3>5, <3>6 DEF P, s, k, x
  <2> QED BY <2>5, <2>6
<1> QED BY <1>6, <1>7
-----------------------------------------------------------------------------
(* A decoded window tries every frame that it covers.                      *)
LEMMA CoveringWindowIsWhole ==
  ASSUME StridesFit, NEW m \in Polled, kin \in Nat, NEW tx \in Tx, tx.mode = m,
         CoveredFrom(tx) <= kin, kin < CoveredFrom(tx) + MaxStep
  PROVE  LET size == SmallerOf(CoveredFrom(tx), SamplesPerPeriod[m])
         IN  Whole(m, CoveredFrom(tx) - size, size, tx)
<1> DEFINE P == SamplesPerPeriod[m]
           s == ScanStride(m)
           symbols == SamplesForSymbols[m]
           w == Cover(m, tx.at)
<1>1. /\ MaxStep \in Nat /\ SampleSize \in Nat /\ Reach[m] \in Nat /\ P \in Nat
      /\ symbols \in Nat \ {0} /\ s \in Nat \ {0}
      /\ s <= Reach[m] + 1 /\ s - 1 + symbols <= P /\ P + MaxStep <= SampleSize
  BY StrideFacts
<1>2. tx.at \in Nat /\ w \in Nat /\ w <= tx.at /\ tx.at < w + s
  BY CoverFacts DEF Tx
<1>3. CoveredFrom(tx) = w + P
  BY DEF CoveredFrom
<1> HIDE DEF P, s, symbols, w
<1>4. SmallerOf(CoveredFrom(tx), P) = P /\ CoveredFrom(tx) - P = w
  BY <1>1, <1>2, <1>3 DEF SmallerOf
<1>5. tx.at \in w..(w + Reach[m]) /\ tx.at + symbols <= w + P
  BY <1>1, <1>2
<1>6. ASSUME NEW i \in 0..(symbols - 1)
      PROVE  Sample(tx.at + i) = <<era, tx.at + i>>
  <2> DEFINE back == kin - 1 - (tx.at + i)
  <2>1. back \in 0..(SampleSize - 1) /\ kin - 1 - back = tx.at + i /\ tx.at + i >= 0
    BY <1>1, <1>2, <1>3, <1>5, <1>6
  <2> HIDE DEF back
  <2>2. back % SampleSize = back
    BY <1>1, <2>1
  <2>3. kin - 1 - ((kin - 1 - (tx.at + i)) % SampleSize) = tx.at + i
    BY <2>1, <2>2 DEF back
  <2> QED BY <2>1, <2>3 DEF Sample
<1> QED BY <1>4, <1>5, <1>6 DEF Whole, P, symbols

(* A decode changes of the frames only whether they were tried.            *)
LEMMA DecodeTries ==
  ASSUME StridesFit, StreamType, NEW m \in Submode, NEW end \in Int, Decode(m, end)
  PROVE  /\ sent' \in Seq(Tx) /\ DOMAIN sent' = DOMAIN sent
         /\ \A i \in DOMAIN sent :
              /\ sent'[i].mode = sent[i].mode /\ sent'[i].at = sent[i].at
              /\ sent'[i].text = sent[i].text /\ sent'[i].decoded = sent[i].decoded
              /\ sent'[i].reports = sent[i].reports
              /\ sent[i].tried => sent'[i].tried
              /\ sent[i].mode = m /\ end = CoveredFrom(sent[i])
                   /\ end <= kin /\ kin < end + MaxStep => sent'[i].tried
<1> DEFINE size == SmallerOf(end, SamplesPerPeriod[m])
           start == end - size
           After(tx) == [tx EXCEPT !.tried = @ \/ Whole(m, start, size, tx)]
<1>1. sent' = [i \in DOMAIN sent |-> After(sent[i])]
  BY DEF Decode
<1>2. sent \in Seq(Tx) /\ kin \in Nat
  BY DEF StreamType
<1>3. ASSUME NEW i \in DOMAIN sent PROVE sent[i] \in Tx
  BY <1>2
<1>4. ASSUME NEW tx \in Tx
      PROVE  /\ After(tx) \in Tx /\ After(tx).mode = tx.mode /\ After(tx).at = tx.at
             /\ After(tx).text = tx.text /\ After(tx).decoded = tx.decoded
             /\ After(tx).reports = tx.reports
             /\ After(tx).tried = (tx.tried \/ Whole(m, start, size, tx))
  <2>1. tx.tried \in BOOLEAN /\ (tx.tried \/ Whole(m, start, size, tx)) \in BOOLEAN
    BY DEF Tx
  <2> QED BY <2>1 DEF Tx
<1>5. sent' \in Seq(Tx)
  <2>1. Len(sent) \in Nat /\ DOMAIN sent = 1..Len(sent)
    BY <1>2
  <2>2. sent' \in [1..Len(sent) -> Tx]
    BY <1>1, <1>3, <1>4, <2>1
  <2> QED BY <2>1, <2>2, SeqDef
<1>6. ASSUME NEW i \in DOMAIN sent, sent[i].mode = m, end = CoveredFrom(sent[i]),
             end <= kin, kin < end + MaxStep
      PROVE  Whole(m, start, size, sent[i])
  <2>1. m \in Polled
    BY <1>3, <1>6 DEF Tx
  <2> QED BY <1>2, <1>3, <1>6, <2>1, CoveringWindowIsWhole
<1> HIDE DEF After
<1>7. ASSUME NEW i \in DOMAIN sent
      PROVE  /\ sent'[i].mode = sent[i].mode /\ sent'[i].at = sent[i].at
             /\ sent'[i].text = sent[i].text /\ sent'[i].decoded = sent[i].decoded
             /\ sent'[i].reports = sent[i].reports
             /\ sent'[i].tried = (sent[i].tried \/ Whole(m, start, size, sent[i]))
  BY <1>1, <1>3, <1>4
<1> QED BY <1>1, <1>5, <1>6, <1>7
-----------------------------------------------------------------------------
LEMMA InvInit == StridesFit /\ Init => StreamInv
<1> SUFFICES ASSUME StridesFit, Init PROVE StreamInv
  OBVIOUS
<1>1. StreamType
  BY DEF Init, StreamType, None
<1>2. CursorsFollow
  <2> SUFFICES ASSUME NEW m \in Polled PROVE next[m] = None /\ polled < SamplesPerPeriod[m]
    BY DEF Init, CursorsFollow
  <2> QED BY StrideFacts DEF Init
<1>3. FramesCovered
  BY DEF Init, FramesCovered
<1> QED BY <1>1, <1>2, <1>3 DEF StreamInv

LEMMA FrameFacts ==
  ASSUME StridesFit, StreamType, NEW i \in DOMAIN sent
  PROVE  /\ sent[i] \in Tx /\ sent[i].mode \in Polled /\ sent[i].at \in Nat
         /\ sent[i].mode \in Submode
         /\ CoveredFrom(sent[i]) \in Nat
         /\ CoveredFrom(sent[i]) = Cover(sent[i].mode, sent[i].at)
                                     + SamplesPerPeriod[sent[i].mode]
         /\ sent[i].at < CoveredFrom(sent[i]) /\ MaxStep < CoveredFrom(sent[i])
<1>1. sent[i] \in Tx
  BY DEF StreamType
<1>2. sent[i].mode \in Polled /\ sent[i].at \in Nat
  BY <1>1 DEF Tx
<1> DEFINE m == sent[i].mode
           at == sent[i].at
<1>3. m \in Polled /\ at \in Nat
  BY <1>2
<1> HIDE DEF m, at
<1>4. /\ Cover(m, at) \in Nat /\ at < Cover(m, at) + ScanStride(m) /\ m \in Submode
      /\ ScanStride(m) \in Nat \ {0} /\ SamplesPerPeriod[m] \in Nat /\ MaxStep \in Nat
      /\ SamplesForSymbols[m] \in Nat \ {0} /\ MaxStep < SamplesPerPeriod[m]
      /\ ScanStride(m) - 1 + SamplesForSymbols[m] <= SamplesPerPeriod[m]
  BY <1>3, CoverFacts, StrideFacts
<1>5. /\ Cover(m, at) + SamplesPerPeriod[m] \in Nat
      /\ at < Cover(m, at) + SamplesPerPeriod[m]
      /\ MaxStep < Cover(m, at) + SamplesPerPeriod[m]
  BY <1>3, <1>4
<1> QED BY <1>1, <1>2, <1>4, <1>5 DEF CoveredFrom, m, at

LEMMA InvReceive ==
  ASSUME StridesFit, StreamInv, NEW n \in 1..MaxStep, Receive(n)
  PROVE  StreamInv'
<1>1. StreamType /\ CursorsFollow /\ FramesCovered
  BY DEF StreamInv
<1>2. kin \in Nat /\ n \in Nat /\ kin' = kin + n /\ polled' = kin' /\ sent' = sent
  BY <1>1, StreamAssumption DEF StreamType, Receive
<1>3. \A m \in Submode : window[m] = None
  BY DEF Receive, Busy
<1>4. StreamType'
  <2>1. ASSUME NEW m \in Submode PROVE next'[m] \in Int /\ window'[m] \in Int
    <3>1. CASE m \in Polled
      BY <1>1, <3>1, PollFollows
    <3>2. CASE m \notin Polled
      BY <3>2 DEF Receive, NextWindow, None
    <3> QED BY <3>1, <3>2
  <2>2. /\ DOMAIN next' = Submode /\ DOMAIN window' = Submode
        /\ next' = [m \in Submode |-> next'[m]] /\ window' = [m \in Submode |-> window'[m]]
    BY DEF Receive, NextWindow
  <2>3. next' \in [Submode -> Int] /\ window' \in [Submode -> Int]
    BY <2>1, <2>2
  <2> QED BY <1>1, <1>2, <2>3 DEF StreamType
<1>5. CursorsFollow'
  <2>1. ASSUME NEW m \in Polled
        PROVE  next'[m] = IF polled' < SamplesPerPeriod[m] THEN None
                          ELSE Cover(m, polled' - SamplesPerPeriod[m]) + ScanStride(m)
    BY <1>1, PollFollows
  <2> QED BY <1>2, <2>1 DEF CursorsFollow
<1>6. FramesCovered'
  <2> SUFFICES ASSUME NEW i \in DOMAIN sent
               PROVE  /\ sent[i].at <= kin'
                      /\ CoveredFrom(sent[i]) <= kin' =>
                           \/ sent[i].tried
                           \/ window'[sent[i].mode] = CoveredFrom(sent[i])
                                /\ kin' < CoveredFrom(sent[i]) + MaxStep
    BY <1>2 DEF FramesCovered, CoveredFrom
  <2>1. /\ sent[i].mode \in Polled /\ sent[i].at \in Nat /\ sent[i].mode \in Submode
        /\ CoveredFrom(sent[i]) \in Nat
        /\ CoveredFrom(sent[i]) = Cover(sent[i].mode, sent[i].at)
                                    + SamplesPerPeriod[sent[i].mode]
    BY <1>1, FrameFacts
  <2>2. sent[i].at <= kin
    BY <1>1 DEF FramesCovered
  <2>3. CASE CoveredFrom(sent[i]) <= kin
    <3>1. window[sent[i].mode] # CoveredFrom(sent[i])
      BY <1>3, <2>1 DEF None
    <3> QED BY <1>1, <1>2, <2>1, <2>2, <2>3, <3>1 DEF FramesCovered
  <2>4. CASE kin < CoveredFrom(sent[i])
    BY <1>1, <1>2, <2>1, <2>2, <2>4, PollFollows
  <2> QED BY <1>2, <2>1, <2>3, <2>4
<1> QED BY <1>4, <1>5, <1>6 DEF StreamInv

LEMMA InvTransmit ==
  ASSUME StridesFit, StreamInv, NEW m \in Polled, NEW text \in Text, Transmit(m, text)
  PROVE  StreamInv'
<1> DEFINE new == [mode |-> m, text |-> text, at |-> kin,
                   tried |-> FALSE, decoded |-> FALSE, reports |-> 0]
<1>1. StreamType /\ CursorsFollow /\ FramesCovered
  BY DEF StreamInv
<1>2. /\ sent' = Append(sent, new)
      /\ UNCHANGED <<kin, polled, next, window>>
  BY DEF Transmit, caller
<1>3. new \in Tx /\ kin \in Nat
  BY <1>1 DEF Tx, StreamType
<1>4. StreamType'
  BY <1>1, <1>2, <1>3 DEF StreamType
<1>5. CursorsFollow'
  BY <1>1, <1>2 DEF CursorsFollow
<1>6. FramesCovered'
  <2> SUFFICES ASSUME NEW i \in DOMAIN sent'
               PROVE  /\ sent'[i].at <= kin
                      /\ CoveredFrom(sent'[i]) <= kin =>
                           \/ sent'[i].tried
                           \/ window[sent'[i].mode] = CoveredFrom(sent'[i])
                                /\ kin < CoveredFrom(sent'[i]) + MaxStep
    BY <1>2 DEF FramesCovered, CoveredFrom
  <2>1. CASE i \in DOMAIN sent
    <3>1. sent'[i] = sent[i]
      BY <1>1, <1>2, <1>3, <2>1 DEF StreamType
    <3> QED BY <1>1, <2>1, <3>1 DEF FramesCovered
  <2>2. CASE i \notin DOMAIN sent
    <3>1. sent'[i] = new
      BY <1>1, <1>2, <1>3, <2>2 DEF StreamType
    <3>2. new.at = kin /\ kin < CoveredFrom(new) /\ CoveredFrom(new) \in Nat
      <4>1. /\ Cover(m, kin) \in Nat /\ kin < Cover(m, kin) + ScanStride(m)
            /\ ScanStride(m) \in Nat \ {0} /\ SamplesPerPeriod[m] \in Nat
            /\ SamplesForSymbols[m] \in Nat \ {0}
            /\ ScanStride(m) - 1 + SamplesForSymbols[m] <= SamplesPerPeriod[m]
        BY <1>3, CoverFacts, StrideFacts
      <4>2. /\ Cover(m, kin) + SamplesPerPeriod[m] \in Nat
            /\ kin < Cover(m, kin) + SamplesPerPeriod[m]
        BY <1>3, <4>1
      <4> QED BY <4>2 DEF CoveredFrom
    <3> QED BY <1>3, <3>1, <3>2
  <2> QED BY <2>1, <2>2
<1> QED BY <1>4, <1>5, <1>6 DEF StreamInv

LEMMA InvClear ==
  ASSUME StridesFit, StreamInv, Clear
  PROVE  StreamInv'
<1>1. kin' = 0 /\ sent' = <<>> /\ UNCHANGED <<polled, next, window>>
  BY DEF Clear, caller
<1> QED BY <1>1 DEF StreamInv, StreamType, CursorsFollow, FramesCovered

(* Decoding any window of a submode of which none was waiting, or the one  *)
(* that was, leaves the invariant.                                         *)
LEMMA InvDecode ==
  ASSUME StridesFit, StreamInv, NEW m \in Submode, NEW end \in Int, Decode(m, end),
         m \in Polled => window[m] = end,
         UNCHANGED <<kin, polled, next>>,
         window' = [window EXCEPT ![m] = None] \/ (m \notin Polled /\ window' = window)
  PROVE  StreamInv'
<1>1. StreamType /\ CursorsFollow /\ FramesCovered
  BY DEF StreamInv
<1>2. /\ sent' \in Seq(Tx) /\ DOMAIN sent' = DOMAIN sent
      /\ \A i \in DOMAIN sent :
           /\ sent'[i].mode = sent[i].mode /\ sent'[i].at = sent[i].at
           /\ sent[i].tried => sent'[i].tried
           /\ sent[i].mode = m /\ end = CoveredFrom(sent[i])
                /\ end <= kin /\ kin < end + MaxStep => sent'[i].tried
  BY <1>1, DecodeTries
<1>3. window' \in [Submode -> Int] /\ \A l \in Submode \ {m} : window'[l] = window[l]
  BY <1>1 DEF StreamType, None
<1>4. StreamType'
  BY <1>1, <1>2, <1>3 DEF StreamType
<1>5. CursorsFollow'
  BY <1>1 DEF CursorsFollow
<1>6. FramesCovered'
  <2> SUFFICES ASSUME NEW i \in DOMAIN sent
               PROVE  /\ sent[i].at <= kin
                      /\ CoveredFrom(sent[i]) <= kin =>
                           \/ sent'[i].tried
                           \/ window'[sent[i].mode] = CoveredFrom(sent[i])
                                /\ kin < CoveredFrom(sent[i]) + MaxStep
    BY <1>2 DEF FramesCovered, CoveredFrom
  <2>1. /\ sent[i].at <= kin
        /\ CoveredFrom(sent[i]) <= kin =>
             \/ sent[i].tried
             \/ window[sent[i].mode] = CoveredFrom(sent[i])
                  /\ kin < CoveredFrom(sent[i]) + MaxStep
    BY <1>1 DEF FramesCovered
  <2>2. sent[i].mode \in Polled /\ sent[i].mode \in Submode
    BY <1>1, FrameFacts
  <2>3. CASE sent[i].mode = m
    BY <1>2, <2>1, <2>2, <2>3
  <2>4. CASE sent[i].mode # m
    BY <1>2, <1>3, <2>1, <2>2, <2>4
  <2> QED BY <2>3, <2>4
<1> QED BY <1>4, <1>5, <1>6 DEF StreamInv

LEMMA InvDecoded ==
  ASSUME StridesFit, StreamInv, NEW j \in DOMAIN sent, NEW late \in 0..Jitter, Decoded(j, late)
  PROVE  StreamInv'
<1>1. StreamType /\ CursorsFollow /\ FramesCovered
  BY DEF StreamInv
<1> DEFINE known == Known(sent[j], sent[j].at + late)
           new == [sent[j] EXCEPT !.decoded = TRUE, !.reports = @ + IF known THEN 0 ELSE 1]
<1>2. sent' = [sent EXCEPT ![j] = new] /\ UNCHANGED <<kin, polled, next, window>>
  BY DEF Decoded, caller
<1>3. sent[j] \in Tx
  BY <1>1 DEF StreamType
<1>4. new \in Tx /\ new.mode = sent[j].mode /\ new.at = sent[j].at /\ new.tried = sent[j].tried
  <2>1. sent[j].reports + (IF known THEN 0 ELSE 1) \in Nat
    BY <1>3 DEF Tx
  <2> QED BY <1>3, <2>1 DEF Tx
<1> HIDE DEF new
<1>5. StreamType' /\ DOMAIN sent' = DOMAIN sent
  BY <1>1, <1>2, <1>4 DEF StreamType
<1>6. CursorsFollow'
  BY <1>1, <1>2 DEF CursorsFollow
<1>7. \A i \in DOMAIN sent : /\ sent'[i].mode = sent[i].mode /\ sent'[i].at = sent[i].at
                             /\ sent'[i].tried = sent[i].tried
  BY <1>1, <1>2, <1>4 DEF StreamType
<1>8. FramesCovered'
  BY <1>1, <1>2, <1>5, <1>7 DEF FramesCovered, CoveredFrom
<1> QED BY <1>5, <1>6, <1>8 DEF StreamInv

LEMMA InvStep == StridesFit /\ StreamInv /\ [Next]_vars => StreamInv'
<1> SUFFICES ASSUME StridesFit, StreamInv, [Next]_vars PROVE StreamInv'
  OBVIOUS
<1>1. CASE \E n \in 1..MaxStep : Receive(n)
  BY <1>1, InvReceive
<1>2. CASE \E m \in Polled, text \in Text : Transmit(m, text)
  BY <1>2, InvTransmit
<1>3. CASE Clear
  BY <1>3, InvClear
<1>4. CASE \E m \in Submode : DecodeWindow(m)
  <2>1. PICK m \in Submode : DecodeWindow(m)
    BY <1>4
  <2>2. /\ Decode(m, window[m]) /\ window' = [window EXCEPT ![m] = None]
        /\ UNCHANGED <<kin, polled, next>>
    BY <2>1 DEF DecodeWindow
  <2>3. window[m] \in Int
    BY DEF StreamInv, StreamType
  <2> QED BY <2>2, <2>3, InvDecode
<1>5. CASE \E m \in Submode : DecodeAnywhere(m, kin \div 2)
  <2>1. PICK m \in Submode : DecodeAnywhere(m, kin \div 2)
    BY <1>5
  <2>2. /\ m \notin Polled /\ Decode(m, kin \div 2)
        /\ UNCHANGED <<kin, polled, next, window>>
    BY <2>1 DEF DecodeAnywhere, caller
  <2>3. kin \div 2 \in Int
    BY DEF StreamInv, StreamType
  <2> QED BY <2>2, <2>3, InvDecode
<1>6. CASE \E j \in DOMAIN sent, late \in 0..Jitter : Decoded(j, late)
  BY <1>6, InvDecoded
<1>7. CASE \E altered \in BOOLEAN : Finish(altered)
  <2>1. UNCHANGED <<kin, polled, next, window, sent>>
    BY <1>7 DEF Finish, caller
  <2> QED BY <2>1 DEF StreamInv, StreamType, CursorsFollow, FramesCovered
<1>8. CASE UNCHANGED vars
  BY <1>8 DEF vars, StreamInv, StreamType, CursorsFollow, FramesCovered
<1> QED BY <1>1, <1>2, <1>3, <1>4, <1>5, <1>6, <1>7, <1>8 DEF Next

(* NoFrameFallsBetween: where the caller polls for every stride and the    *)
(* search reaches as far as the strides (scheduling.rs:122-137), every     *)
(* frame on the air is looked for, whole, as soon as a period was heard    *)
(* from its start on, whatever is cleared, decoded or sent meanwhile.      *)
THEOREM WindowsCoverEverything == StridesFit => (Spec => []NoFrameFallsBetween)
<1> SUFFICES ASSUME StridesFit PROVE Spec => []NoFrameFallsBetween
  OBVIOUS
<1>1. StreamInv => NoFrameFallsBetween
  <2> SUFFICES ASSUME StreamInv, ~Busy, NEW i \in DOMAIN sent,
                      kin >= sent[i].at + SamplesPerPeriod[sent[i].mode]
               PROVE  sent[i].tried
    BY DEF NoFrameFallsBetween
  <2>1. StreamType /\ FramesCovered /\ kin \in Nat
    BY DEF StreamInv, StreamType
  <2>2. /\ sent[i].mode \in Polled /\ sent[i].mode \in Submode /\ sent[i].at \in Nat
        /\ CoveredFrom(sent[i]) \in Nat
        /\ CoveredFrom(sent[i]) = Cover(sent[i].mode, sent[i].at)
                                    + SamplesPerPeriod[sent[i].mode]
    BY <2>1, FrameFacts
  <2>3. Cover(sent[i].mode, sent[i].at) <= sent[i].at
        /\ Cover(sent[i].mode, sent[i].at) \in Nat
        /\ SamplesPerPeriod[sent[i].mode] \in Nat
    BY <2>2, CoverFacts, StrideFacts
  <2>4. CoveredFrom(sent[i]) <= kin
    BY <2>1, <2>2, <2>3
  <2>5. window[sent[i].mode] # CoveredFrom(sent[i])
    BY <2>2 DEF Busy, None
  <2> QED BY <2>1, <2>4, <2>5 DEF FramesCovered
<1> QED BY <1>1, InvInit, InvStep, PTL DEF Spec
-----------------------------------------------------------------------------
(***************************************************************************)
(* What windows, spectra and history remember of the audio.                *)
(***************************************************************************)
(* The end of the last window a submode was given since the last clear.    *)
LastWindow(m) == Cover(m, polled - SamplesPerPeriod[m]) + SamplesPerPeriod[m]

(* A window that waits is the last one that became complete, unless the    *)
(* ring was cleared while it waited.                                       *)
WindowsWait ==
  \A m \in Submode :
    window[m] # None =>
      /\ m \in Polled /\ SamplesPerPeriod[m] <= window[m]
      /\ kin # 0 => /\ window[m] = LastWindow(m)
                    /\ window[m] <= kin /\ kin < window[m] + MaxStep

(* The spectra kept for a submode are those of the samples they are taken  *)
(* for.                                                                    *)
Clean(m) ==
  \A j \in 0..(Spectra(m) - 1) :
    LET first == spectrum[m].start + j * NStep[m]
    IN  spectrum[m].columns[j] = << <<era, first>>, <<era, first + NFft[m] - 1>> >>

(* Those that are not will not be used: the next window of the submode is  *)
(* the first one after a clear, which reuses none, or is lost, too.        *)
NotUsed(m) ==
  IF m \in Polled THEN kin < SamplesPerPeriod[m] \/ window[m] = SamplesPerPeriod[m]
  ELSE era > 0 \/ kin - (kin \div 2) > SampleSize - SamplesPerPeriod[m]

SpectraKept ==
  \A m \in Submode :
    spectrum[m].start # None =>
      /\ spectrum[m].start \in Nat
      /\ ends[m] = spectrum[m].start + SamplesPerPeriod[m]
      /\ Clean(m) \/ NotUsed(m)

DecoderType ==
  /\ era \in Nat /\ ends \in [Submode -> Nat]
  /\ spectrum = [m \in Submode |-> spectrum[m]]

SpectraInv == DecoderType /\ WindowsWait /\ SpectraKept /\ SpectraAreOfTheWindow

(* What a poll returns is the last window that is complete; it is the very *)
(* first one if there was none.                                            *)
LEMMA PollGivesLast ==
  ASSUME StridesFit, StreamType, CursorsFollow, NEW n \in 1..MaxStep, Receive(n),
         NEW m \in Polled
  PROVE  /\ window'[m] # None =>
              /\ SamplesPerPeriod[m] <= window'[m]
              /\ window'[m] = Cover(m, kin' - SamplesPerPeriod[m]) + SamplesPerPeriod[m]
              /\ window'[m] <= kin' /\ kin' < window'[m] + MaxStep
         /\ kin < SamplesPerPeriod[m] /\ SamplesPerPeriod[m] <= kin' =>
              window'[m] = SamplesPerPeriod[m]
<1> DEFINE P == SamplesPerPeriod[m]
           s == ScanStride(m)
           k == kin + n
           x == k - P
<1>1. /\ m \in Submode /\ P \in Nat /\ s \in Nat \ {0} /\ MaxStep \in Nat
      /\ MaxStep <= s /\ MaxStep < P /\ n \in Nat /\ 0 < n /\ n <= MaxStep
  BY StrideFacts
<1>2. kin \in Nat /\ polled \in Nat /\ (kin = polled \/ kin = 0) /\ k \in Nat
  BY <1>1 DEF StreamType, CursorsFollow
<1>3. next[m] = IF polled < P THEN None ELSE Cover(m, polled - P) + s
  BY DEF CursorsFollow
<1>4. kin' = k /\ window'[m] = IF Ready(m, k, polled) THEN WindowStart(m, k) + P ELSE None
  BY <1>1 DEF Receive, NextWindow
<1>5. WindowStart(m, k) = Cover(m, x)
  BY DEF WindowStart, Cover
<1> HIDE DEF P, s, k
<1>6. CASE k < P
  <2>1. ~ Ready(m, k, polled)
    BY <1>1, <1>2, <1>6 DEF Ready, P
  <2> QED BY <1>1, <1>2, <1>4, <1>6, <2>1 DEF P, k
<1>7. CASE ~(k < P)
  <2>1. x \in Nat /\ kin = polled /\ polled < k
    BY <1>1, <1>2, <1>7 DEF k
  <2>2. /\ Cover(m, x) \in Nat /\ Cover(m, x) <= x /\ x < Cover(m, x) + s
    BY <2>1, CoverFacts DEF s
  <2>3. Waiting(m, k, polled) = next[m]
    BY <1>2, <2>1 DEF Waiting
  <2>4. Ready(m, k, polled) <=> (next[m] = None \/ Cover(m, x) >= next[m])
    BY <1>1, <1>2, <1>5, <1>7, <2>3 DEF Ready, P
  <2>5. CASE polled < P
    <3>1. window'[m] = Cover(m, x) + P
      BY <1>3, <1>4, <1>5, <2>4, <2>5
    <3>2. Cover(m, 0) = 0
      <4>1. Cover(m, 0) \in Nat /\ Cover(m, 0) <= 0
        BY CoverFacts
      <4> QED BY <4>1
    <3>3. x < s
      BY <1>1, <1>2, <2>1, <2>5 DEF k
    <3>4. Cover(m, x) = 0
      BY <1>1, <2>1, <3>2, <3>3, CoverOnly DEF s
    <3>5. k - P < MaxStep /\ P <= k
      BY <1>1, <1>2, <1>7, <2>1, <2>5 DEF k
    <3> QED BY <1>1, <1>2, <1>4, <3>1, <3>4, <3>5 DEF P
  <2>6. CASE ~(polled < P)
    <3> DEFINE y == polled - P
    <3>1. y \in Nat /\ y < x /\ next[m] = Cover(m, y) + s
      BY <1>1, <1>2, <1>3, <2>1, <2>6
    <3>2. Cover(m, y) \in Nat /\ y < Cover(m, y) + s
      BY <3>1, CoverFacts DEF s
    <3> HIDE DEF y, x
    <3>3. ASSUME window'[m] # None
          PROVE  /\ P <= window'[m] /\ window'[m] = Cover(m, x) + P
                 /\ window'[m] <= k /\ k < window'[m] + MaxStep
      <4>1. window'[m] = Cover(m, x) + P /\ Ready(m, k, polled)
        BY <1>4, <1>5, <3>3
      <4>2. Cover(m, x) >= Cover(m, y) + s
        BY <1>1, <2>4, <3>1, <3>2, <4>1 DEF None
      <4>3. y < Cover(m, x)
        BY <1>1, <2>2, <3>1, <3>2, <4>2
      <4> QED BY <1>1, <1>2, <2>1, <2>2, <3>1, <4>1, <4>3 DEF y, x, k
    <3> QED BY <1>1, <1>2, <1>4, <2>1, <2>6, <3>3 DEF P, x
  <2> QED BY <2>5, <2>6
<1> QED BY <1>6, <1>7
-----------------------------------------------------------------------------
(* A sample that is still in the ring is found where it is.                *)
LEMMA SampleInRing ==
  ASSUME kin \in Nat, SampleSize \in Nat, NEW p \in Nat, p < kin, kin - SampleSize <= p
  PROVE  Sample(p) = <<era, p>>
<1> DEFINE back == kin - 1 - p
<1>1. back \in 0..(SampleSize - 1) /\ kin - 1 - back = p
  OBVIOUS
<1> HIDE DEF back
<1>2. back % SampleSize = back
  BY <1>1
<1>3. kin - 1 - ((kin - 1 - p) % SampleSize) = p
  BY <1>1, <1>2 DEF back
<1> QED BY <1>3 DEF Sample

LEMMA SpectrumFacts ==
  ASSUME NEW m \in Submode
  PROVE  /\ SampleSize \in Nat /\ SamplesPerPeriod[m] \in Nat \ {0}
         /\ NStep[m] \in Nat \ {0} /\ NFft[m] \in Nat \ {0} /\ Spectra(m) \in Nat
         /\ SamplesPerPeriod[m] <= SampleSize
         /\ \A j \in 0..(Spectra(m) - 1) :
              j * NStep[m] \in Nat /\ j * NStep[m] + NFft[m] <= SamplesPerPeriod[m]
<1> DEFINE P == SamplesPerPeriod[m]
           N == NStep[m]
           F == NFft[m]
           q == (P - F) \div N
<1>1. /\ SampleSize \in Nat /\ MaxStep \in Nat /\ P \in Nat /\ SamplesForSymbols[m] \in Nat
      /\ 0 < SamplesForSymbols[m] /\ SamplesForSymbols[m] < P /\ P + MaxStep <= SampleSize
      /\ N \in 1..F /\ F \in 1..P
  BY StreamAssumption
<1>2. N \in Nat \ {0} /\ F \in Nat \ {0} /\ P - F \in Nat
  BY <1>1
<1>3. Spectra(m) = q + 1
  BY DEF Spectra
<1> HIDE DEF P, N, F
<1>4. q \in Nat /\ q * N <= P - F /\ q * N \in Nat
  <2>1. q \in Nat
    BY <1>2, DivMod
  <2> QED BY <1>2, <2>1, MultipleBelow
<1> HIDE DEF q
<1>5. ASSUME NEW j \in 0..q PROVE j * N \in Nat /\ j * N + F <= P
  <2>1. j \in Nat /\ q - j \in Nat
    BY <1>4
  <2>2. j * N \in Nat /\ (q - j) * N \in Nat
    BY <1>2, <2>1, MultiplesApart
  <2>3. (q - j) * N = q * N - j * N
    BY <1>2, <1>4, <2>1, Products
  <2> QED BY <1>1, <1>2, <1>4, <2>2, <2>3
<1> QED BY <1>1, <1>2, <1>3, <1>4, <1>5 DEF P, N, F

(* The columns of a window that is in the ring are those of its samples.   *)
LEMMA FreshColumns ==
  ASSUME kin \in Nat, NEW m \in Submode, NEW start \in Nat, InRing(start, SamplesPerPeriod[m]),
         NEW j \in 0..(Spectra(m) - 1)
  PROVE  LET first == start + j * NStep[m]
         IN  Columns(m, Audio(m, start, SamplesPerPeriod[m]))[j]
               = << <<era, first>>, <<era, first + NFft[m] - 1>> >>
<1> DEFINE P == SamplesPerPeriod[m]
           a == Audio(m, start, P)
           x == j * NStep[m]
           F == NFft[m]
<1>1. /\ SampleSize \in Nat /\ P \in Nat /\ F \in Nat \ {0} /\ x \in Nat /\ x + F <= P
  BY SpectrumFacts
<1>2. Columns(m, a)[j] = << a[x], a[x + F - 1] >>
  BY DEF Columns, Column
<1> HIDE DEF x, F
<1>3. start + P <= kin /\ kin - SampleSize <= start
  BY DEF InRing
<1>4. ASSUME NEW i \in 0..(P - 1) PROVE a[i] = <<era, start + i>>
  <2>1. a[i] = Sample(start + i)
    BY <1>1, <1>4 DEF Audio
  <2>2. start + i \in Nat /\ start + i < kin /\ kin - SampleSize <= start + i
    BY <1>1, <1>3, <1>4
  <2> QED BY <1>1, <2>1, <2>2, SampleInRing
<1> HIDE DEF P, a
<1>5. x \in 0..(P - 1) /\ x + F - 1 \in 0..(P - 1) /\ start + (x + F - 1) = start + x + F - 1
  BY <1>1
<1>6. a[x] = <<era, start + x>> /\ a[x + F - 1] = <<era, start + x + F - 1>>
  <2>1. a[x + F - 1] = <<era, start + (x + F - 1)>>
    BY <1>4, <1>5
  <2> QED BY <1>4, <1>5, <2>1
<1> QED BY <1>2, <1>6 DEF P, a, x, F
-----------------------------------------------------------------------------
(* syncjs8: columns that are moved from clean spectra are those of the     *)
(* window they are moved to.                                               *)
LEMMA MovedColumns ==
  ASSUME kin \in Nat, NEW m \in Submode, NEW start \in Nat, InRing(start, SamplesPerPeriod[m]),
         spectrum[m].start # None => spectrum[m].start \in Nat /\ Clean(m)
  PROVE  LET fresh == Columns(m, Audio(m, start, SamplesPerPeriod[m]))
         IN  Moved(m, Shift(m, start), fresh) = fresh
<1> DEFINE fresh == Columns(m, Audio(m, start, SamplesPerPeriod[m]))
           n == Spectra(m)
           shift == Shift(m, start)
           s == spectrum[m].start
           N == NStep[m]
<1>1. CASE shift \notin 0..(n - 1)
  BY <1>1 DEF Moved
<1>2. CASE shift \in 0..(n - 1)
  <2>1. /\ n \in Nat /\ N \in Nat \ {0}
        /\ \A j \in 0..(n - 1) : j * N \in Nat
    BY SpectrumFacts
  <2>2. s # None /\ start - s >= 0 /\ (start - s) % N = 0 /\ shift = (start - s) \div N
    BY <1>2, <2>1 DEF Shift, None
  <2>3. s \in Nat /\ Clean(m)
    BY <2>2
  <2> HIDE DEF n, shift, s, N, fresh
  <2>4. start - s = shift * N /\ shift \in Nat
    <3> DEFINE d == start - s
    <3>1. d \in Nat
      BY <2>2, <2>3
    <3> HIDE DEF d
    <3>2. d = (d \div N) * N + (d % N) /\ d \div N \in Nat
      BY <2>1, <3>1, DivMod
    <3> DEFINE q == d \div N
    <3>3. q * N \in Nat
      BY <2>1, <3>2, MultiplesApart
    <3>4. d % N = 0 /\ shift = q
      BY <2>2 DEF d
    <3> HIDE DEF q
    <3> QED BY <3>2, <3>3, <3>4 DEF d, q
  <2>5. ASSUME NEW j \in 0..(n - 1), j + shift < n
        PROVE  spectrum[m].columns[j + shift] = fresh[j]
    <3>1. j \in Nat /\ j + shift \in 0..(n - 1) /\ shift \in Nat
      BY <2>1, <2>4, <2>5
    <3>2. (j + shift) * N = j * N + shift * N /\ j * N \in Nat /\ shift * N \in Nat
      BY <2>1, <2>4, <3>1, Products, MultiplesApart
    <3>3. spectrum[m].columns[j + shift]
            = << <<era, s + (j + shift) * N>>, <<era, s + (j + shift) * N + NFft[m] - 1>> >>
      BY <2>3, <3>1 DEF Clean, s, N, n
    <3>4. fresh[j] = << <<era, start + j * N>>, <<era, start + j * N + NFft[m] - 1>> >>
      BY <2>5, FreshColumns DEF fresh, N, n
    <3>5. s + (j + shift) * N = start + j * N
      BY <2>3, <2>4, <3>2
    <3> QED BY <3>3, <3>4, <3>5
  <2>6. fresh = [j \in 0..(n - 1) |-> fresh[j]]
    BY DEF fresh, Columns, n
  <2>7. Moved(m, shift, fresh)
          = [j \in 0..(n - 1) |->
               IF j + shift < n THEN spectrum[m].columns[j + shift] ELSE fresh[j]]
    BY <1>2 DEF Moved, n
  <2> QED BY <2>5, <2>6, <2>7 DEF shift, fresh
<1> QED BY <1>1, <1>2

(* A window that is in the ring is decoded with its own columns, if those  *)
(* that it reuses are clean; and what it leaves is clean.                  *)
LEMMA DecodeSpectra ==
  ASSUME kin \in Nat, DecoderType, NEW m \in Submode, NEW end \in Nat, Decode(m, end),
         kin' = kin, era' = era
  PROVE  LET size == SmallerOf(end, SamplesPerPeriod[m])
             start == end - size
             safe == Reuses(m, end) /\ spectrum[m].start # None =>
                       spectrum[m].start \in Nat /\ Clean(m)
         IN  /\ DecoderType' /\ ends' = [ends EXCEPT ![m] = end]
             /\ \A l \in Submode \ {m} : spectrum'[l] = spectrum[l]
             /\ start \in Nat /\ size \in Nat /\ start + size = end
             /\ scan' = [mode |-> m, start |-> start, size |-> size]
             /\ spectrum'[m].start # None =>
                  /\ Reuses(m, end) /\ size = SamplesPerPeriod[m]
                  /\ spectrum'[m].start = start
             /\ InRing(start, size) /\ safe =>
                  /\ spectrum'[m].columns = Columns(m, Audio(m, start, size))
                  /\ spectrum'[m].start # None => Clean(m)'
<1> DEFINE P == SamplesPerPeriod[m]
           size == SmallerOf(end, P)
           start == end - size
           fresh == Columns(m, Audio(m, start, size))
           new == IF Reuses(m, end)
                  THEN [start |-> start, columns |-> Moved(m, Shift(m, start), fresh)]
                  ELSE [start |-> None, columns |-> fresh]
           safe == Reuses(m, end) /\ spectrum[m].start # None =>
                     spectrum[m].start \in Nat /\ Clean(m)
<1>1. /\ scan' = [mode |-> m, start |-> start, size |-> size]
      /\ ends' = [ends EXCEPT ![m] = end]
      /\ spectrum' = [spectrum EXCEPT ![m] = new]
  BY DEF Decode
<1>2. spectrum = [l \in Submode |-> spectrum[l]] /\ ends \in [Submode -> Nat] /\ era \in Nat
  BY DEF DecoderType
<1>3. P \in Nat \ {0} /\ P <= SampleSize /\ SampleSize \in Nat
  BY SpectrumFacts
<1>4. start \in Nat /\ size \in Nat /\ start + size = end
  BY <1>3 DEF SmallerOf
<1> HIDE DEF P, size, start, fresh, new
<1>5. spectrum'[m] = new /\ \A l \in Submode \ {m} : spectrum'[l] = spectrum[l]
  BY <1>1, <1>2
<1>6. DecoderType'
  <2>1. spectrum' = [l \in Submode |-> spectrum'[l]]
    BY <1>1, <1>2
  <2>2. ends' \in [Submode -> Nat]
    BY <1>1, <1>2
  <2> QED BY <1>2, <2>1, <2>2 DEF DecoderType
<1>7. new.start # None => Reuses(m, end) /\ size = P /\ new.start = start
  <2> SUFFICES ASSUME new.start # None PROVE Reuses(m, end) /\ size = P /\ new.start = start
    OBVIOUS
  <2>1. Reuses(m, end) /\ new.start = start
    BY DEF new
  <2>2. SmallerOf(end, SampleSize) >= P
    BY <2>1 DEF Reuses, P
  <2>3. size = P
    BY <1>3, <2>2 DEF SmallerOf, size
  <2> QED BY <2>1, <2>3
<1>8. ASSUME InRing(start, size), safe
      PROVE  new.columns = fresh /\ (new.start # None => Clean(m)')
  <2>1. CASE ~ Reuses(m, end)
    BY <2>1 DEF new
  <2>2. CASE Reuses(m, end)
    <3>1. SmallerOf(end, SampleSize) >= P
      BY <2>2 DEF Reuses, P
    <3>2. size = P
      BY <1>3, <3>1 DEF SmallerOf, size
    <3>3. spectrum[m].start # None => spectrum[m].start \in Nat /\ Clean(m)
      BY <1>8, <2>2
    <3>4. Moved(m, Shift(m, start), fresh) = fresh
      BY <1>4, <1>8, <3>2, <3>3, MovedColumns DEF fresh, P
    <3>5. new.start = start /\ new.columns = fresh
      BY <2>2, <3>4 DEF new
    <3>6. Clean(m)'
      <4> SUFFICES ASSUME NEW j \in 0..(Spectra(m) - 1)
                   PROVE  fresh[j] = << <<era, start + j * NStep[m]>>,
                                        <<era, start + j * NStep[m] + NFft[m] - 1>> >>
        BY <1>5, <3>5 DEF Clean, Spectra
      <4> QED BY <1>4, <1>8, <3>2, FreshColumns DEF fresh, P
    <3> QED BY <3>5, <3>6
  <2> QED BY <2>1, <2>2
<1> QED BY <1>1, <1>4, <1>5, <1>6, <1>7, <1>8 DEF P, size, start, fresh
-----------------------------------------------------------------------------
LEMMA SpectraInit == Init => SpectraInv
<1> SUFFICES ASSUME Init PROVE SpectraInv
  OBVIOUS
<1>1. DecoderType
  BY DEF Init, DecoderType
<1>2. WindowsWait
  BY DEF Init, WindowsWait
<1>3. SpectraKept
  BY DEF Init, SpectraKept, NoSpectrum
<1>4. SpectraAreOfTheWindow
  BY DEF Init, SpectraAreOfTheWindow
<1> QED BY <1>1, <1>2, <1>3, <1>4 DEF SpectraInv

LEMMA WaitReceive ==
  ASSUME StridesFit, StreamInv, WindowsWait, NEW n \in 1..MaxStep, Receive(n)
  PROVE  WindowsWait'
<1> SUFFICES ASSUME NEW m \in Submode, window'[m] # None
             PROVE  /\ m \in Polled /\ SamplesPerPeriod[m] <= window'[m]
                    /\ window'[m] = Cover(m, polled' - SamplesPerPeriod[m]) + SamplesPerPeriod[m]
                    /\ window'[m] <= kin' /\ kin' < window'[m] + MaxStep
  BY DEF WindowsWait, LastWindow, Cover
<1>1. m \in Polled
  BY DEF Receive, NextWindow
<1>2. polled' = kin'
  BY DEF Receive
<1> QED BY <1>1, <1>2, PollGivesLast DEF StreamInv

LEMMA SpectraReceive ==
  ASSUME StridesFit, StreamInv, SpectraInv, NEW n \in 1..MaxStep, Receive(n)
  PROVE  SpectraInv'
<1>1. /\ kin' = kin + n /\ UNCHANGED <<era, ends, spectrum, scan>>
      /\ scan = NoScan /\ \A m \in Submode : window[m] = None
  BY DEF Receive, Busy, decoder
<1>2. kin \in Nat /\ n \in Nat /\ kin' \in Nat
  BY <1>1, StreamAssumption DEF StreamInv, StreamType
<1>3. WindowsWait'
  BY WaitReceive DEF SpectraInv
<1>4. SpectraKept'
  <2> SUFFICES ASSUME NEW m \in Submode, spectrum[m].start # None
               PROVE  Clean(m) \/ NotUsed(m)'
    BY <1>1 DEF SpectraInv, SpectraKept, Clean, Spectra
  <2>1. Clean(m) \/ NotUsed(m)
    BY DEF SpectraInv, SpectraKept
  <2>2. CASE NotUsed(m) /\ m \in Polled
    <3>1. SamplesPerPeriod[m] \in Nat
      BY SpectrumFacts
    <3>2. kin < SamplesPerPeriod[m]
      BY <1>1, <2>2, <3>1 DEF NotUsed, None
    <3>3. SamplesPerPeriod[m] <= kin' => window'[m] = SamplesPerPeriod[m]
      BY <2>2, <3>2, PollGivesLast DEF StreamInv
    <3> QED BY <1>2, <2>2, <3>1, <3>3 DEF NotUsed
  <2>3. CASE NotUsed(m) /\ m \notin Polled
    <3>1. SampleSize \in Nat /\ SamplesPerPeriod[m] \in Nat
      BY SpectrumFacts
    <3>2. kin - (kin \div 2) <= kin' - (kin' \div 2)
      BY <1>1, <1>2
    <3>3. kin \div 2 \in Int /\ kin' \div 2 \in Int
      BY <1>2
    <3> QED BY <1>1, <1>2, <2>3, <3>1, <3>2, <3>3 DEF NotUsed
  <2> QED BY <2>1, <2>2, <2>3
<1>5. SpectraAreOfTheWindow'
  BY <1>1 DEF SpectraAreOfTheWindow
<1>6. DecoderType'
  BY <1>1 DEF SpectraInv, DecoderType
<1> QED BY <1>3, <1>4, <1>5, <1>6 DEF SpectraInv

LEMMA SpectraClear ==
  ASSUME StridesFit, StreamInv, SpectraInv, Clear
  PROVE  SpectraInv'
<1>1. /\ kin' = 0 /\ era' = era + 1 /\ scan' = scan /\ scan = NoScan
      /\ UNCHANGED <<window, ends, spectrum>>
  BY DEF Clear, caller, decoder
<1>2. era \in Nat
  BY DEF SpectraInv, DecoderType
<1>3. \A m \in Submode : NotUsed(m)'
  <2> SUFFICES ASSUME NEW m \in Submode PROVE NotUsed(m)'
    OBVIOUS
  <2>1. SamplesPerPeriod[m] \in Nat \ {0}
    BY SpectrumFacts
  <2>2. kin' < SamplesPerPeriod[m] /\ era' > 0
    BY <1>1, <1>2, <2>1
  <2> QED BY <2>2 DEF NotUsed
<1>4. SpectraKept'
  BY <1>1, <1>3 DEF SpectraInv, SpectraKept
<1>5. WindowsWait' /\ SpectraAreOfTheWindow'
  BY <1>1 DEF SpectraInv, WindowsWait, SpectraAreOfTheWindow
<1>6. DecoderType'
  BY <1>1, <1>2 DEF SpectraInv, DecoderType
<1> QED BY <1>4, <1>5, <1>6 DEF SpectraInv

(* A window that was given back is in the ring, unless that was cleared;   *)
(* and what it reuses is clean.                                            *)
LEMMA SpectraDecodeWindow ==
  ASSUME StridesFit, StreamInv, SpectraInv, NEW m \in Submode, DecodeWindow(m)
  PROVE  SpectraInv'
<1> DEFINE P == SamplesPerPeriod[m]
           end == window[m]
           size == SmallerOf(end, P)
           start == end - size
<1>1. /\ end # None /\ Decode(m, end) /\ window' = [window EXCEPT ![m] = None]
      /\ UNCHANGED <<kin, era, polled, next>>
  BY DEF DecodeWindow
<1>2. /\ DecoderType /\ WindowsWait /\ SpectraKept /\ kin \in Nat
      /\ window \in [Submode -> Int]
  BY DEF SpectraInv, StreamInv, StreamType
<1>3. /\ m \in Polled /\ P <= end
      /\ kin # 0 => end <= kin /\ kin < end + MaxStep
  BY <1>1, <1>2 DEF WindowsWait
<1>4. /\ P \in Nat \ {0} /\ SampleSize \in Nat /\ MaxStep \in Nat /\ P + MaxStep <= SampleSize
      /\ end \in Nat
  <2>1. P \in Nat \ {0}
    BY SpectrumFacts
  <2> QED BY <1>2, <1>3, <2>1, StrideFacts
<1>5. size = P /\ start = end - P /\ start \in Nat
  BY <1>3, <1>4 DEF SmallerOf
<1>6. /\ DecoderType' /\ ends' = [ends EXCEPT ![m] = end]
      /\ \A l \in Submode \ {m} : spectrum'[l] = spectrum[l]
      /\ scan' = [mode |-> m, start |-> start, size |-> size]
      /\ spectrum'[m].start # None => spectrum'[m].start = start
      /\ InRing(start, size)
           /\ (Reuses(m, end) /\ spectrum[m].start # None =>
                 spectrum[m].start \in Nat /\ Clean(m)) =>
             /\ spectrum'[m].columns = Columns(m, Audio(m, start, size))
             /\ spectrum'[m].start # None => Clean(m)'
  BY <1>1, <1>2, <1>4, DecodeSpectra
<1> HIDE DEF P, end, size, start
<1>7. ASSUME InRing(start, size), Reuses(m, end), spectrum[m].start # None
      PROVE  spectrum[m].start \in Nat /\ Clean(m)
  <2>1. /\ spectrum[m].start \in Nat /\ ends[m] = spectrum[m].start + P
        /\ Clean(m) \/ NotUsed(m)
    BY <1>2, <1>7 DEF SpectraKept, P
  <2>2. ~ NotUsed(m)
    <3>1. P <= kin
      BY <1>2, <1>3, <1>4, <1>5, <1>7 DEF InRing
    <3>2. end # P
      BY <1>4, <1>7, <2>1 DEF Reuses
    <3> QED BY <1>2, <1>3, <1>4, <3>1, <3>2 DEF NotUsed, P, end
  <2> QED BY <2>1, <2>2
<1>8. InRing(start, size) => /\ spectrum'[m].columns = Columns(m, Audio(m, start, size))
                             /\ spectrum'[m].start # None => Clean(m)'
  BY <1>6, <1>7
<1>9. InRing(start, size) \/ kin = 0
  BY <1>2, <1>3, <1>4, <1>5 DEF InRing
<1>10. ends' [m] = end /\ \A l \in Submode \ {m} : ends'[l] = ends[l] /\ window'[l] = window[l]
  BY <1>1, <1>2, <1>6 DEF DecoderType
<1>11. SpectraKept'
  <2> SUFFICES ASSUME NEW l \in Submode, spectrum'[l].start # None
               PROVE  /\ spectrum'[l].start \in Nat
                      /\ ends'[l] = spectrum'[l].start + SamplesPerPeriod[l]
                      /\ Clean(l)' \/ NotUsed(l)'
    BY DEF SpectraKept
  <2>1. CASE l = m
    <3>1. spectrum'[m].start = start /\ start \in Nat /\ ends'[m] = start + P
      BY <1>4, <1>5, <1>6, <1>10, <2>1
    <3>2. Clean(m)' \/ NotUsed(m)'
      <4>1. CASE InRing(start, size)
        BY <1>8, <2>1, <4>1
      <4>2. CASE kin = 0
        BY <1>1, <1>3, <1>4, <4>2 DEF NotUsed, P
      <4> QED BY <1>9, <4>1, <4>2
    <3> QED BY <2>1, <3>1, <3>2 DEF P
  <2>2. CASE l # m
    <3>1. spectrum'[l] = spectrum[l] /\ ends'[l] = ends[l] /\ window'[l] = window[l]
      BY <1>6, <1>10, <2>2
    <3> QED BY <1>1, <1>2, <3>1 DEF SpectraKept, Clean, Spectra, NotUsed
  <2> QED BY <2>1, <2>2
<1>12. WindowsWait'
  <2> SUFFICES ASSUME NEW l \in Submode, window'[l] # None
               PROVE  /\ l \in Polled /\ SamplesPerPeriod[l] <= window'[l]
                      /\ kin # 0 => /\ window'[l] = LastWindow(l)
                                    /\ window'[l] <= kin /\ kin < window'[l] + MaxStep
    BY <1>1 DEF WindowsWait, LastWindow, Cover
  <2>1. window'[l] = window[l]
    BY <1>1, <1>2
  <2> QED BY <1>2, <2>1 DEF WindowsWait
<1>13. SpectraAreOfTheWindow'
  <2> SUFFICES ASSUME InRing(start, size)
               PROVE  spectrum'[m].columns = Columns(m, Audio(m, start, size))
    BY <1>1, <1>6 DEF SpectraAreOfTheWindow, InRing, Columns, Column, Audio, Sample, Spectra
  <2> QED BY <1>8
<1> QED BY <1>6, <1>11, <1>12, <1>13 DEF SpectraInv

(* A submode that is not scheduled reuses nothing after a clear, nor       *)
(* before it once its windows fall behind the ring.                        *)
LEMMA SpectraDecodeAnywhere ==
  ASSUME StridesFit, StreamInv, SpectraInv, NEW m \in Submode, DecodeAnywhere(m, kin \div 2)
  PROVE  SpectraInv'
<1> DEFINE P == SamplesPerPeriod[m]
           end == kin \div 2
           size == SmallerOf(end, P)
           start == end - size
<1>1. /\ m \notin Polled /\ Decode(m, end)
      /\ era > 0 => end < ends[m] \/ ends[m] = 0
      /\ UNCHANGED <<kin, era, polled, next, window>>
  BY DEF DecodeAnywhere, caller
<1>2. /\ DecoderType /\ WindowsWait /\ SpectraKept /\ kin \in Nat /\ end \in Nat
  BY DEF SpectraInv, StreamInv, StreamType
<1>3. P \in Nat \ {0} /\ SampleSize \in Nat /\ P <= SampleSize
  BY SpectrumFacts
<1>4. size \in Nat /\ start \in Nat /\ start + size = end /\ end <= kin
  BY <1>2, <1>3 DEF SmallerOf
<1>5. /\ DecoderType' /\ ends' = [ends EXCEPT ![m] = end]
      /\ \A l \in Submode \ {m} : spectrum'[l] = spectrum[l]
      /\ scan' = [mode |-> m, start |-> start, size |-> size]
      /\ spectrum'[m].start # None => /\ Reuses(m, end) /\ size = P
                                      /\ spectrum'[m].start = start
      /\ InRing(start, size)
           /\ (Reuses(m, end) /\ spectrum[m].start # None =>
                 spectrum[m].start \in Nat /\ Clean(m)) =>
             /\ spectrum'[m].columns = Columns(m, Audio(m, start, size))
             /\ spectrum'[m].start # None => Clean(m)'
  BY <1>1, <1>2, DecodeSpectra
<1> HIDE DEF P, end, size, start
<1>6. era \in Nat /\ ends \in [Submode -> Nat]
  BY <1>2 DEF DecoderType
<1>7. ASSUME InRing(start, size), Reuses(m, end), spectrum[m].start # None
      PROVE  spectrum[m].start \in Nat /\ Clean(m)
  <2>1. /\ spectrum[m].start \in Nat /\ ends[m] = spectrum[m].start + P
        /\ Clean(m) \/ NotUsed(m)
    BY <1>2, <1>7 DEF SpectraKept, P
  <2>2. end > ends[m] /\ SmallerOf(end, SampleSize) >= P
    BY <1>7 DEF Reuses, P
  <2>3. era = 0
    BY <1>1, <1>2, <1>3, <1>6, <2>1, <2>2
  <2>4. size = P
    BY <1>2, <1>3, <2>2 DEF SmallerOf, size
  <2>5. kin - end <= SampleSize - P
    BY <1>2, <1>3, <1>4, <1>7, <2>4 DEF InRing
  <2>6. ~ NotUsed(m)
    BY <1>1, <1>2, <1>3, <2>3, <2>5 DEF NotUsed, P, end
  <2> QED BY <2>1, <2>6
<1>8. InRing(start, size) => /\ spectrum'[m].columns = Columns(m, Audio(m, start, size))
                             /\ spectrum'[m].start # None => Clean(m)'
  BY <1>5, <1>7
<1>9. ends'[m] = end /\ \A l \in Submode \ {m} : ends'[l] = ends[l]
  BY <1>5, <1>6
<1>10. SpectraKept'
  <2> SUFFICES ASSUME NEW l \in Submode, spectrum'[l].start # None
               PROVE  /\ spectrum'[l].start \in Nat
                      /\ ends'[l] = spectrum'[l].start + SamplesPerPeriod[l]
                      /\ Clean(l)' \/ NotUsed(l)'
    BY DEF SpectraKept
  <2>1. CASE l = m
    <3>1. size = P /\ spectrum'[m].start = start /\ ends'[m] = start + P
      BY <1>4, <1>5, <1>9, <2>1
    <3>2. Clean(m)' \/ NotUsed(m)'
      <4>1. CASE InRing(start, size)
        BY <1>8, <2>1, <4>1
      <4>2. CASE ~ InRing(start, size)
        <5>1. kin - SampleSize > start
          BY <1>2, <1>3, <1>4, <4>2 DEF InRing
        <5>2. kin - end > SampleSize - P
          BY <1>2, <1>3, <1>4, <3>1, <5>1
        <5> QED BY <1>1, <5>2 DEF NotUsed, P, end
      <4> QED BY <4>1, <4>2
    <3> QED BY <1>4, <2>1, <3>1, <3>2 DEF P
  <2>2. CASE l # m
    <3>1. spectrum'[l] = spectrum[l] /\ ends'[l] = ends[l]
      BY <1>5, <1>9, <2>2
    <3> QED BY <1>1, <1>2, <3>1 DEF SpectraKept, Clean, Spectra, NotUsed
  <2> QED BY <2>1, <2>2
<1>11. WindowsWait'
  BY <1>1, <1>2 DEF WindowsWait, LastWindow, Cover
<1>12. SpectraAreOfTheWindow'
  <2> SUFFICES ASSUME InRing(start, size)
               PROVE  spectrum'[m].columns = Columns(m, Audio(m, start, size))
    BY <1>1, <1>5 DEF SpectraAreOfTheWindow, InRing, Columns, Column, Audio, Sample, Spectra
  <2> QED BY <1>8
<1> QED BY <1>5, <1>10, <1>11, <1>12 DEF SpectraInv

LEMMA SpectraFinish ==
  ASSUME SpectraInv, NEW altered \in BOOLEAN, Finish(altered)
  PROVE  SpectraInv'
<1> DEFINE new(old) == IF altered \/ old.start = None THEN NoSpectrum ELSE old
<1>1. /\ scan' = NoScan /\ spectrum' = [spectrum EXCEPT ![scan.mode] = new(spectrum[scan.mode])]
      /\ UNCHANGED <<kin, era, polled, next, window, ends>>
  BY DEF Finish, caller
<1>2. spectrum = [l \in Submode |-> spectrum[l]]
  BY DEF SpectraInv, DecoderType
<1>3. \A l \in Submode : spectrum'[l] = spectrum[l] \/ spectrum'[l].start = None
  <2> SUFFICES ASSUME NEW l \in Submode
               PROVE  spectrum'[l] = spectrum[l] \/ spectrum'[l].start = None
    OBVIOUS
  <2>1. new(spectrum[l]) = spectrum[l] \/ new(spectrum[l]).start = None
    BY DEF NoSpectrum
  <2>2. spectrum'[l] = spectrum[l] \/ spectrum'[l] = new(spectrum[l])
    <3> HIDE DEF new
    <3> QED BY <1>1, <1>2
  <2> QED BY <2>1, <2>2
<1>4. DecoderType'
  <2>1. spectrum' = [l \in Submode |-> spectrum'[l]]
    <3> HIDE DEF new
    <3> QED BY <1>1, <1>2
  <2> QED BY <1>1, <2>1 DEF SpectraInv, DecoderType
<1>5. SpectraKept'
  BY <1>1, <1>3 DEF SpectraInv, SpectraKept, Clean, Spectra, NotUsed
<1>6. WindowsWait' /\ SpectraAreOfTheWindow'
  BY <1>1 DEF SpectraInv, WindowsWait, LastWindow, Cover, SpectraAreOfTheWindow
<1> QED BY <1>4, <1>5, <1>6 DEF SpectraInv

LEMMA SpectraStep == StridesFit /\ StreamInv /\ SpectraInv /\ [Next]_vars => SpectraInv'
<1> SUFFICES ASSUME StridesFit, StreamInv, SpectraInv, [Next]_vars PROVE SpectraInv'
  OBVIOUS
<1>1. ASSUME UNCHANGED <<kin, era, polled, window, ends, spectrum, scan>> PROVE SpectraInv'
  BY <1>1 DEF SpectraInv, DecoderType, WindowsWait, LastWindow, Cover, SpectraKept, Clean,
              Spectra, NotUsed, SpectraAreOfTheWindow, InRing, Columns, Column, Audio, Sample
<1>2. CASE \E n \in 1..MaxStep : Receive(n)
  BY <1>2, SpectraReceive
<1>3. CASE \E m \in Polled, text \in Text : Transmit(m, text)
  BY <1>1, <1>3 DEF Transmit, caller, decoder
<1>4. CASE Clear
  BY <1>4, SpectraClear
<1>5. CASE \E m \in Submode : DecodeWindow(m)
  BY <1>5, SpectraDecodeWindow
<1>6. CASE \E m \in Submode : DecodeAnywhere(m, kin \div 2)
  BY <1>6, SpectraDecodeAnywhere
<1>7. CASE \E j \in DOMAIN sent, late \in 0..Jitter : Decoded(j, late)
  BY <1>1, <1>7 DEF Decoded, caller
<1>8. CASE \E altered \in BOOLEAN : Finish(altered)
  BY <1>8, SpectraFinish
<1>9. CASE UNCHANGED vars
  BY <1>1, <1>9 DEF vars
<1> QED BY <1>2, <1>3, <1>4, <1>5, <1>6, <1>7, <1>8, <1>9 DEF Next

(* SpectraAreOfTheWindow: the columns that syncjs8 moves from the spectra  *)
(* of earlier windows are those it would compute (decoder.rs:1064-1079 and *)
(* 1540-1558), whatever was cleared or decoded out of turn in between, for *)
(* a caller that polls for every stride.                                   *)
THEOREM MovedSpectraAreTheWindows == StridesFit => (Spec => []SpectraAreOfTheWindow)
<1> SUFFICES ASSUME StridesFit PROVE Spec => []SpectraAreOfTheWindow
  OBVIOUS
<1>1. SpectraInv => SpectraAreOfTheWindow
  BY DEF SpectraInv
<1> QED BY <1>1, InvInit, InvStep, SpectraInit, SpectraStep, PTL DEF Spec
-----------------------------------------------------------------------------
(***************************************************************************)
(* What the history remembers.                                             *)
(***************************************************************************)
(* The scan of a scheduled submode looks at its last window, unless the    *)
(* ring was empty when it began.                                           *)
ScanIsLive ==
  scan # NoScan =>
    /\ scan.mode \in Submode /\ scan.start \in Nat /\ scan.size \in Nat
    /\ scan.mode \in Polled /\ kin # 0 =>
         /\ kin = polled
         /\ scan.size = SamplesPerPeriod[scan.mode] /\ window[scan.mode] = None
         /\ scan.start + scan.size = LastWindow(scan.mode)
         /\ ends[scan.mode] = LastWindow(scan.mode)
         /\ LastWindow(scan.mode) <= kin /\ kin < LastWindow(scan.mode) + MaxStep

SeenType == seen \subseteq [mode : Polled, text : Text, at : Nat]

(* An entry of the history stands for a frame.                             *)
StandsFor(e, tx) ==
  e.mode = tx.mode /\ e.text = tx.text /\ e.at \in tx.at..(tx.at + Jitter)

(* The history of a submode is that of the frames on the air; or it is of  *)
(* before a clear and is forgotten with the next window.                   *)
HistoryIsCurrent(m) ==
  \A e \in seen : e.mode = m => \E i \in DOMAIN sent : sent[i].decoded /\ StandsFor(e, sent[i])

HistoryWillGo(m) ==
  /\ kin < SamplesPerPeriod[m] \/ window[m] = SamplesPerPeriod[m]
  /\ ends[m] > SamplesPerPeriod[m]
  /\ \A i \in DOMAIN sent : sent[i].mode = m => ~ sent[i].decoded

HistoryOf(m) ==
  /\ ends[m] = 0 \/ ends[m] >= SamplesPerPeriod[m]
  /\ ends[m] = 0 => \A e \in seen : e.mode # m
  /\ HistoryIsCurrent(m) \/ HistoryWillGo(m)

(* A frame is not sent over its like.                                      *)
FramesApart ==
  \A i, j \in DOMAIN sent :
    i < j /\ sent[i].mode = sent[j].mode /\ sent[i].text = sent[j].text =>
      sent[i].at + SamplesForSymbols[sent[i].mode] <= sent[j].at

(* A frame that was reported is in the history as long as a window may     *)
(* hold it.                                                                *)
Remembered(tx) ==
  \/ \E e \in seen : StandsFor(e, tx)
  \/ tx.at + SamplesPerPeriod[tx.mode] + MaxStep < kin

DecodedRemembered ==
  \A i \in DOMAIN sent : sent[i].decoded =>
    /\ Remembered(sent[i])
    /\ kin = polled /\ SamplesPerPeriod[sent[i].mode] <= kin
    /\ ends[sent[i].mode] <= LastWindow(sent[i].mode)

HistoryInv == /\ ScanIsLive /\ SeenType /\ FramesApart /\ DecodedRemembered /\ ReportedOnce
              /\ \A m \in Polled : HistoryOf(m)
-----------------------------------------------------------------------------
LEMMA HistoryInit == StridesFit /\ Init => HistoryInv
<1> SUFFICES ASSUME StridesFit, Init PROVE HistoryInv
  OBVIOUS
<1>1. seen = {} /\ DOMAIN sent = {} /\ scan = NoScan /\ \A m \in Submode : ends[m] = 0
  BY DEF Init
<1>2. \A m \in Polled : m \in Submode
  BY StrideFacts
<1> QED BY <1>1, <1>2 DEF HistoryInv, ScanIsLive, SeenType, FramesApart, DecodedRemembered,
                          ReportedOnce, HistoryOf, HistoryIsCurrent

LEMMA HistoryReceive ==
  ASSUME StridesFit, StreamInv, SpectraInv, HistoryInv, NEW n \in 1..MaxStep, Receive(n)
  PROVE  HistoryInv'
<1>1. /\ kin' = kin + n /\ polled' = kin' /\ UNCHANGED <<ends, seen, sent, scan>>
      /\ scan = NoScan /\ \A m \in Submode : window[m] = None
  BY DEF Receive, Busy, decoder
<1>2. kin \in Nat /\ n \in Nat /\ kin' \in Nat /\ polled \in Nat /\ kin < kin'
  BY <1>1, StreamAssumption DEF StreamInv, StreamType
<1>3. ScanIsLive' /\ SeenType' /\ FramesApart' /\ ReportedOnce'
  BY <1>1 DEF HistoryInv, ScanIsLive, SeenType, FramesApart, ReportedOnce
<1>4. ASSUME NEW m \in Polled PROVE HistoryOf(m)'
  <2>1. m \in Submode /\ SamplesPerPeriod[m] \in Nat /\ HistoryOf(m)
    BY StrideFacts DEF HistoryInv
  <2>2. CASE HistoryIsCurrent(m)
    BY <1>1, <2>1, <2>2 DEF HistoryOf, HistoryIsCurrent, StandsFor
  <2>3. CASE HistoryWillGo(m)
    <3>1. kin < SamplesPerPeriod[m]
      BY <1>1, <2>1, <2>3 DEF HistoryWillGo, None
    <3>2. SamplesPerPeriod[m] <= kin' => window'[m] = SamplesPerPeriod[m]
      BY <3>1, PollGivesLast DEF StreamInv
    <3> QED BY <1>1, <1>2, <2>1, <2>3, <3>2 DEF HistoryOf, HistoryWillGo
  <2> QED BY <2>1, <2>2, <2>3 DEF HistoryOf
<1>5. DecodedRemembered'
  <2> SUFFICES ASSUME NEW i \in DOMAIN sent, sent[i].decoded
               PROVE  /\ Remembered(sent[i])'
                      /\ SamplesPerPeriod[sent[i].mode] <= kin'
                      /\ ends[sent[i].mode] <= LastWindow(sent[i].mode)'
    BY <1>1 DEF DecodedRemembered, Remembered, StandsFor, LastWindow, Cover
  <2> DEFINE m == sent[i].mode
  <2>1. /\ Remembered(sent[i])
        /\ kin = polled /\ SamplesPerPeriod[m] <= kin
        /\ ends[m] <= LastWindow(m)
    BY DEF HistoryInv, DecodedRemembered
  <2>2. sent[i].at \in Nat /\ m \in Polled
    BY FrameFacts DEF StreamInv
  <2>3. SamplesPerPeriod[m] \in Nat /\ MaxStep \in Nat /\ m \in Submode /\ ScanStride(m) \in Nat
    BY <2>2, StrideFacts
  <2>4. Remembered(sent[i])'
    BY <1>1, <1>2, <2>1, <2>2, <2>3 DEF Remembered, StandsFor
  <2> HIDE DEF m
  <2> DEFINE x == kin - SamplesPerPeriod[m]
             y == kin' - SamplesPerPeriod[m]
  <2>5. x \in Nat /\ y \in Nat /\ x <= y
    BY <1>2, <2>1, <2>3
  <2> HIDE DEF x, y
  <2>6. Cover(m, x) \in Nat /\ Cover(m, y) \in Nat /\ Cover(m, x) <= Cover(m, y)
    <3>1. Cover(m, x) \in Nat /\ Cover(m, y) \in Nat
      BY <2>2, <2>5, CoverFacts DEF m
    <3>2. Cover(m, x) = Cover(m, y) \/ Cover(m, x) + ScanStride(m) <= Cover(m, y)
      BY <2>2, <2>5, CoverGrows DEF m
    <3> QED BY <2>3, <3>1, <3>2
  <2>7. LastWindow(m) = Cover(m, x) + SamplesPerPeriod[m]
    BY <2>1 DEF LastWindow, x
  <2>8. LastWindow(m)' = Cover(m, y) + SamplesPerPeriod[m]
    BY <1>1 DEF LastWindow, y, Cover, m
  <2>9. ends[m] \in Int
    BY <2>3 DEF SpectraInv, DecoderType
  <2> QED BY <1>2, <2>1, <2>3, <2>4, <2>6, <2>7, <2>8, <2>9 DEF m
<1> QED BY <1>3, <1>4, <1>5 DEF HistoryInv

LEMMA HistoryTransmit ==
  ASSUME StridesFit, StreamInv, HistoryInv, NEW m \in Polled, NEW text \in Text, Transmit(m, text)
  PROVE  HistoryInv'
<1> DEFINE new == [mode |-> m, text |-> text, at |-> kin,
                   tried |-> FALSE, decoded |-> FALSE, reports |-> 0]
<1>1. /\ sent' = Append(sent, new) /\ scan = NoScan
      /\ UNCHANGED <<kin, polled, window, ends, seen, scan>>
      /\ \A i \in DOMAIN sent :
           sent[i].mode = m /\ sent[i].text = text => sent[i].at + SamplesForSymbols[m] <= kin
  BY StrideFacts DEF Transmit, caller, decoder, Busy
<1>2. sent \in Seq(Tx)
  BY DEF StreamInv, StreamType
<1>3. /\ new.mode = m /\ new.text = text /\ new.at = kin /\ new.decoded = FALSE
      /\ new.reports = 0
  OBVIOUS
<1> HIDE DEF new
<1>4. /\ \A i \in DOMAIN sent : i \in DOMAIN sent' /\ sent'[i] = sent[i] /\ i \in 1..Len(sent)
      /\ \A i \in DOMAIN sent' : i \in DOMAIN sent \/ (i = Len(sent) + 1 /\ sent'[i] = new)
      /\ Len(sent) \in Nat
  BY <1>1, <1>2
<1>5. ScanIsLive' /\ SeenType'
  BY <1>1 DEF HistoryInv, ScanIsLive, SeenType
<1>6. FramesApart'
  <2> SUFFICES ASSUME NEW i \in DOMAIN sent', NEW j \in DOMAIN sent', i < j,
                      sent'[i].mode = sent'[j].mode, sent'[i].text = sent'[j].text
               PROVE  sent'[i].at + SamplesForSymbols[sent'[i].mode] <= sent'[j].at
    BY DEF FramesApart
  <2>1. i \in DOMAIN sent
    BY <1>4
  <2>2. CASE j \in DOMAIN sent
    BY <1>4, <2>1, <2>2 DEF HistoryInv, FramesApart
  <2>3. CASE j \notin DOMAIN sent
    BY <1>1, <1>3, <1>4, <2>1, <2>3
  <2> QED BY <2>2, <2>3
<1>7. DecodedRemembered'
  <2> SUFFICES ASSUME NEW i \in DOMAIN sent', sent'[i].decoded
               PROVE  /\ Remembered(sent'[i])
                      /\ kin = polled /\ SamplesPerPeriod[sent'[i].mode] <= kin
                      /\ ends[sent'[i].mode] <= LastWindow(sent'[i].mode)
    BY <1>1 DEF DecodedRemembered, Remembered, StandsFor, LastWindow, Cover
  <2>1. i \in DOMAIN sent /\ sent'[i] = sent[i]
    BY <1>3, <1>4
  <2> QED BY <2>1 DEF HistoryInv, DecodedRemembered
<1>8. ReportedOnce'
  <2> SUFFICES ASSUME NEW i \in DOMAIN sent'
               PROVE  sent'[i].reports = IF sent'[i].decoded THEN 1 ELSE 0
    BY DEF ReportedOnce
  <2> QED BY <1>3, <1>4 DEF HistoryInv, ReportedOnce
<1>9. ASSUME NEW l \in Polled PROVE HistoryOf(l)'
  <2>1. HistoryOf(l)
    BY DEF HistoryInv
  <2>2. HistoryIsCurrent(l) => HistoryIsCurrent(l)'
    BY <1>1, <1>4 DEF HistoryIsCurrent, StandsFor
  <2>3. HistoryWillGo(l) => HistoryWillGo(l)'
    <3> SUFFICES ASSUME HistoryWillGo(l), NEW i \in DOMAIN sent', sent'[i].mode = l
                 PROVE  ~ sent'[i].decoded
      BY <1>1 DEF HistoryWillGo
    <3> QED BY <1>3, <1>4 DEF HistoryWillGo
  <2> QED BY <1>1, <2>1, <2>2, <2>3 DEF HistoryOf
<1> QED BY <1>5, <1>6, <1>7, <1>8, <1>9 DEF HistoryInv

(* A clear leaves a submode either no history, or one that its next        *)
(* window, the first, makes it forget.                                     *)
LEMMA HistoryClear ==
  ASSUME StridesFit, StreamInv, HistoryInv, Clear
  PROVE  HistoryInv'
<1>1. /\ kin' = 0 /\ sent' = <<>> /\ scan = NoScan /\ ClearShows
      /\ UNCHANGED <<polled, window, ends, seen, scan>>
  BY DEF Clear, caller, decoder
<1>2. DOMAIN sent' = {}
  BY <1>1
<1>3. ScanIsLive' /\ SeenType' /\ FramesApart' /\ DecodedRemembered' /\ ReportedOnce'
  BY <1>1, <1>2 DEF HistoryInv, ScanIsLive, SeenType, FramesApart, DecodedRemembered, ReportedOnce
<1>4. ASSUME NEW m \in Polled PROVE HistoryOf(m)'
  <2>1. m \in Submode /\ SamplesPerPeriod[m] \in Nat \ {0} /\ HistoryOf(m)
    BY StrideFacts, SpectrumFacts DEF HistoryInv
  <2>2. CASE ends[m] = 0
    BY <1>1, <2>1, <2>2 DEF HistoryOf, HistoryIsCurrent
  <2>3. CASE ends[m] # 0
    <3>1. ends[m] > SamplesPerPeriod[m]
      BY <1>1, <2>1, <2>3 DEF ClearShows
    <3> QED BY <1>1, <1>2, <2>1, <2>3, <3>1 DEF HistoryOf, HistoryWillGo
  <2> QED BY <2>2, <2>3
<1> QED BY <1>3, <1>4 DEF HistoryInv

(* A decode leaves of the frames what the history is about.                *)
LEMMA HistoryFrames ==
  ASSUME StridesFit, StreamInv, HistoryInv, NEW m \in Submode, NEW end \in Int, Decode(m, end),
         UNCHANGED <<kin, polled>>
  PROVE  /\ FramesApart' /\ ReportedOnce' /\ DOMAIN sent' = DOMAIN sent
         /\ \A i \in DOMAIN sent :
              /\ sent'[i].mode = sent[i].mode /\ sent'[i].at = sent[i].at
              /\ sent'[i].text = sent[i].text /\ sent'[i].decoded = sent[i].decoded
         /\ \A l \in Polled : LastWindow(l)' = LastWindow(l)
<1>1. /\ DOMAIN sent' = DOMAIN sent
      /\ \A i \in DOMAIN sent :
           /\ sent'[i].mode = sent[i].mode /\ sent'[i].at = sent[i].at
           /\ sent'[i].text = sent[i].text /\ sent'[i].decoded = sent[i].decoded
           /\ sent'[i].reports = sent[i].reports
  BY DecodeTries DEF StreamInv
<1>2. FramesApart'
  BY <1>1 DEF HistoryInv, FramesApart
<1>3. ReportedOnce'
  BY <1>1 DEF HistoryInv, ReportedOnce
<1> QED BY <1>1, <1>2, <1>3 DEF LastWindow, Cover

(* The window after a clear makes the decoder forget, and any other leaves *)
(* it what it has.                                                         *)
LEMMA HistoryDecodeWindow ==
  ASSUME StridesFit, StreamInv, SpectraInv, HistoryInv, NEW m \in Submode, DecodeWindow(m)
  PROVE  HistoryInv'
<1> DEFINE P == SamplesPerPeriod[m]
           end == window[m]
           size == SmallerOf(end, P)
           start == end - size
<1>1. /\ end # None /\ Decode(m, end) /\ window' = [window EXCEPT ![m] = None]
      /\ UNCHANGED <<kin, polled>>
  BY DEF DecodeWindow
<1>2. /\ WindowsWait /\ kin \in Nat /\ window \in [Submode -> Int]
      /\ ends \in [Submode -> Nat] /\ P \in Nat \ {0} /\ end \in Int
  BY SpectrumFacts DEF SpectraInv, StreamInv, StreamType, DecoderType
<1>3. /\ m \in Polled /\ P <= end
      /\ kin # 0 => end = LastWindow(m) /\ end <= kin /\ kin < end + MaxStep
  BY <1>1 DEF SpectraInv, WindowsWait
<1>4. size = P /\ start = end - P /\ start \in Nat /\ start + size = end
  BY <1>2, <1>3 DEF SmallerOf
<1>5. /\ scan' = [mode |-> m, start |-> start, size |-> size]
      /\ ends' = [ends EXCEPT ![m] = end]
      /\ seen' = IF end < ends[m] THEN {e \in seen : e.mode # m} ELSE seen
  BY <1>1 DEF Decode
<1>6. /\ FramesApart' /\ ReportedOnce' /\ DOMAIN sent' = DOMAIN sent
      /\ \A i \in DOMAIN sent :
           /\ sent'[i].mode = sent[i].mode /\ sent'[i].at = sent[i].at
           /\ sent'[i].text = sent[i].text /\ sent'[i].decoded = sent[i].decoded
      /\ \A l \in Polled : LastWindow(l)' = LastWindow(l)
  BY <1>1, <1>2, HistoryFrames
<1> HIDE DEF P, end, size, start
<1>7. /\ ends'[m] = end /\ window'[m] = None
      /\ \A l \in Submode \ {m} : ends'[l] = ends[l] /\ window'[l] = window[l]
  BY <1>1, <1>2, <1>5
<1>8. ScanIsLive'
  <2> SUFFICES ASSUME kin # 0
               PROVE  /\ kin = polled /\ size = P
                      /\ end = LastWindow(m) /\ LastWindow(m) <= kin
                      /\ kin < LastWindow(m) + MaxStep
    BY <1>1, <1>2, <1>3, <1>4, <1>5, <1>6, <1>7 DEF ScanIsLive, P
  <2> QED BY <1>3, <1>4 DEF StreamInv, CursorsFollow
<1>9. SeenType'
  BY <1>5 DEF HistoryInv, SeenType
<1>10. DecodedRemembered'
  <2> SUFFICES ASSUME NEW i \in DOMAIN sent, sent[i].decoded
               PROVE  /\ Remembered(sent[i])'
                      /\ kin = polled /\ SamplesPerPeriod[sent[i].mode] <= kin
                      /\ ends'[sent[i].mode] <= LastWindow(sent[i].mode)
    <3>1. \A i \in DOMAIN sent : sent[i].mode \in Polled
      BY FrameFacts DEF StreamInv
    <3> QED BY <1>1, <1>6, <3>1 DEF DecodedRemembered, Remembered, StandsFor
  <2>1. /\ Remembered(sent[i])
        /\ kin = polled /\ SamplesPerPeriod[sent[i].mode] <= kin
        /\ ends[sent[i].mode] <= LastWindow(sent[i].mode)
    BY DEF HistoryInv, DecodedRemembered
  <2>2. sent[i].mode \in Polled /\ sent[i].mode \in Submode
    BY FrameFacts DEF StreamInv
  <2>3. ends'[sent[i].mode] <= LastWindow(sent[i].mode)
    <3>1. CASE sent[i].mode = m
      <4>1. kin # 0
        BY <1>2, <2>1, <3>1 DEF P
      <4> QED BY <1>2, <1>3, <1>7, <3>1, <4>1
    <3>2. CASE sent[i].mode # m
      BY <1>7, <2>1, <2>2, <3>2
    <3> QED BY <3>1, <3>2
  <2>4. \A e \in seen : e.mode = sent[i].mode => e \in seen'
    <3>1. CASE sent[i].mode = m
      <4>1. ends[m] <= end
        <5>1. kin # 0
          BY <1>2, <2>1, <3>1 DEF P
        <5> QED BY <1>3, <2>1, <3>1, <5>1
      <4>2. ~(end < ends[m])
        <5>1. ends[m] \in Nat
          BY <1>2
        <5> QED BY <1>2, <4>1, <5>1
      <4> QED BY <1>5, <4>2
    <3>2. CASE sent[i].mode # m
      BY <1>5, <3>2
    <3> QED BY <3>1, <3>2
  <2>5. Remembered(sent[i])'
    BY <1>1, <1>6, <2>1, <2>4 DEF Remembered, StandsFor
  <2> QED BY <2>1, <2>3, <2>5
<1>11. ASSUME NEW l \in Polled PROVE HistoryOf(l)'
  <2>1. HistoryOf(l) /\ l \in Submode
    BY StrideFacts DEF HistoryInv
  <2>2. HistoryIsCurrent(l) => HistoryIsCurrent(l)'
    <3> SUFFICES ASSUME HistoryIsCurrent(l), NEW e \in seen', e.mode = l
                 PROVE  \E i \in DOMAIN sent : sent'[i].decoded /\ StandsFor(e, sent'[i])
      BY <1>6 DEF HistoryIsCurrent, StandsFor
    <3>1. e \in seen
      BY <1>5
    <3>2. PICK i \in DOMAIN sent : sent[i].decoded /\ StandsFor(e, sent[i])
      BY <3>1 DEF HistoryIsCurrent
    <3> QED BY <1>6, <3>2 DEF StandsFor
  <2>3. CASE l # m
    <3>1. ends'[l] = ends[l] /\ window'[l] = window[l] /\ seen' \subseteq seen
      BY <1>5, <1>7, <2>1, <2>3
    <3>2. HistoryWillGo(l) => HistoryWillGo(l)'
      BY <1>1, <1>6, <3>1 DEF HistoryWillGo
    <3> QED BY <2>1, <2>2, <3>1, <3>2 DEF HistoryOf
  <2>4. CASE l = m
    <3>1. ends'[m] # 0 /\ ends'[m] >= P
      BY <1>2, <1>3, <1>7
    <3>2. HistoryIsCurrent(m)' \/ HistoryWillGo(m)'
      <4>1. CASE end < ends[m]
        BY <1>5, <4>1 DEF HistoryIsCurrent
      <4>2. CASE ~(end < ends[m]) /\ HistoryWillGo(m)
        <5>1. ends[m] > P /\ ends[m] \in Nat
          BY <1>2, <4>2 DEF HistoryWillGo, P
        <5>2. end > P
          BY <1>2, <4>2, <5>1
        <5>3. kin < P
          BY <1>2, <4>2, <5>2 DEF HistoryWillGo, P, end
        <5> QED BY <1>1, <1>6, <1>7, <4>2, <5>2, <5>3 DEF HistoryWillGo, P
      <4> QED BY <2>1, <2>2, <2>4, <4>1, <4>2 DEF HistoryOf
    <3> QED BY <2>4, <3>1, <3>2 DEF HistoryOf, P
  <2> QED BY <2>3, <2>4
<1> QED BY <1>6, <1>8, <1>9, <1>10, <1>11 DEF HistoryInv

(* A submode that is not scheduled has no history.                         *)
LEMMA HistoryDecodeAnywhere ==
  ASSUME StridesFit, StreamInv, SpectraInv, HistoryInv, NEW m \in Submode,
         DecodeAnywhere(m, kin \div 2)
  PROVE  HistoryInv'
<1> DEFINE end == kin \div 2
           size == SmallerOf(end, SamplesPerPeriod[m])
           start == end - size
<1>1. m \notin Polled /\ Decode(m, end) /\ UNCHANGED <<kin, polled, window>>
  BY DEF DecodeAnywhere, caller
<1>2. /\ kin \in Nat /\ end \in Nat /\ ends \in [Submode -> Nat]
      /\ SamplesPerPeriod[m] \in Nat \ {0}
  BY SpectrumFacts DEF SpectraInv, StreamInv, StreamType, DecoderType
<1>3. size \in Nat /\ start \in Nat
  BY <1>2 DEF SmallerOf
<1>4. /\ scan' = [mode |-> m, start |-> start, size |-> size]
      /\ ends' = [ends EXCEPT ![m] = end]
      /\ seen' = IF end < ends[m] THEN {e \in seen : e.mode # m} ELSE seen
  BY <1>1 DEF Decode
<1>5. /\ FramesApart' /\ ReportedOnce' /\ DOMAIN sent' = DOMAIN sent
      /\ \A i \in DOMAIN sent :
           /\ sent'[i].mode = sent[i].mode /\ sent'[i].at = sent[i].at
           /\ sent'[i].text = sent[i].text /\ sent'[i].decoded = sent[i].decoded
      /\ \A l \in Polled : LastWindow(l)' = LastWindow(l)
  BY <1>1, <1>2, HistoryFrames
<1> HIDE DEF end, size, start
<1>6. seen' = seen
  <2>1. \A e \in seen : e.mode # m
    BY <1>1 DEF HistoryInv, SeenType
  <2> QED BY <1>4, <2>1
<1>7. \A l \in Polled : l \in Submode /\ ends'[l] = ends[l]
  BY <1>1, <1>2, <1>4, StrideFacts
<1>8. ScanIsLive' /\ SeenType'
  BY <1>1, <1>3, <1>4, <1>6 DEF ScanIsLive, HistoryInv, SeenType
<1>9. DecodedRemembered'
  <2>1. \A i \in DOMAIN sent : sent[i].mode \in Polled
    BY FrameFacts DEF StreamInv
  <2> QED BY <1>1, <1>5, <1>6, <1>7, <2>1
          DEF HistoryInv, DecodedRemembered, Remembered, StandsFor
<1>10. ASSUME NEW l \in Polled PROVE HistoryOf(l)'
  <2>1. HistoryOf(l)
    BY DEF HistoryInv
  <2>2. HistoryIsCurrent(l) => HistoryIsCurrent(l)'
    BY <1>5, <1>6 DEF HistoryIsCurrent, StandsFor
  <2>3. HistoryWillGo(l) => HistoryWillGo(l)'
    BY <1>1, <1>5, <1>7 DEF HistoryWillGo
  <2> QED BY <1>6, <1>7, <2>1, <2>2, <2>3 DEF HistoryOf
<1> QED BY <1>5, <1>8, <1>9, <1>10 DEF HistoryInv

(* The scan in which a frame is decoded is of audio received since the     *)
(* last clear, so that the history is of the frames on the air.            *)
LEMMA DecodedIsHeard ==
  ASSUME StridesFit, StreamInv, SpectraInv, HistoryInv, NEW i \in DOMAIN sent,
         NEW late \in 0..Jitter, Decoded(i, late)
  PROVE  LET m == sent[i].mode
             P == SamplesPerPeriod[m]
             S == SamplesForSymbols[m]
         IN  /\ m \in Polled /\ m \in Submode /\ kin = polled /\ P <= kin
             /\ ends[m] # 0 /\ ends[m] = LastWindow(m)
             /\ kin < sent[i].at + P + MaxStep /\ sent[i].at + S <= kin
             /\ HistoryIsCurrent(m)
<1> DEFINE m == sent[i].mode
           at == sent[i].at
           P == SamplesPerPeriod[m]
           S == SamplesForSymbols[m]
<1>1. /\ m \in Polled /\ m \in Submode /\ at \in Nat /\ kin \in Nat
      /\ P \in Nat \ {0} /\ S \in Nat \ {0} /\ MaxStep \in Nat /\ SampleSize \in Nat \ {0}
  <2>1. m \in Polled /\ m \in Submode /\ at \in Nat
    BY FrameFacts DEF StreamInv
  <2>2. /\ S \in Nat \ {0} /\ MaxStep \in Nat /\ SampleSize \in Nat
        /\ P + MaxStep <= SampleSize
    BY <2>1, StrideFacts
  <2>3. P \in Nat \ {0}
    BY <2>1, SpectrumFacts
  <2> QED BY <2>1, <2>2, <2>3 DEF StreamInv, StreamType
<1>2. /\ scan # NoScan /\ scan.mode = m
      /\ at \in scan.start..(scan.start + Reach[m])
      /\ at + S <= scan.start + scan.size
      /\ \A j \in 0..(S - 1) : Sample(at + j) = <<era, at + j>>
  BY DEF Decoded, Whole
<1> HIDE DEF m, at, P, S
<1>3. kin # 0
  <2>1. Sample(at) = <<era, at>>
    BY <1>1, <1>2
  <2>2. CASE kin = 0
    <3> DEFINE x == kin - 1 - at
    <3>1. x \in Int
      BY <1>1
    <3> HIDE DEF x
    <3>2. x % SampleSize \in Nat
      BY <1>1, <3>1
    <3>3. kin - 1 - (x % SampleSize) < 0
      BY <2>2, <3>2
    <3>4. Sample(at) = Silence
      BY <3>3 DEF Sample, x
    <3> QED BY <1>1, <2>1, <3>4 DEF Silence, None
  <2> QED BY <2>2
<1>4. /\ scan.start \in Nat /\ kin = polled
      /\ scan.size = P /\ window[m] = None
      /\ scan.start + scan.size = LastWindow(m) /\ ends[m] = LastWindow(m)
      /\ LastWindow(m) <= kin /\ kin < LastWindow(m) + MaxStep
  BY <1>1, <1>2, <1>3 DEF HistoryInv, ScanIsLive, P
<1>5. scan.start <= at
  <2>1. Reach[m] \in Nat
    BY <1>1, StrideFacts
  <2> QED BY <1>1, <1>2, <1>4, <2>1
<1>6. P <= kin /\ ends[m] # 0 /\ kin < at + P + MaxStep /\ at + S <= kin
  BY <1>1, <1>2, <1>4, <1>5
<1>7. HistoryIsCurrent(m)
  <2>1. HistoryOf(m)
    BY <1>1 DEF HistoryInv
  <2>2. ~ HistoryWillGo(m)
    BY <1>1, <1>4, <1>6 DEF HistoryWillGo, P, None
  <2> QED BY <2>1, <2>2 DEF HistoryOf
<1> QED BY <1>1, <1>4, <1>6, <1>7 DEF m, at, P, S

(* A frame is known exactly if it was decoded before: its own entry is at  *)
(* hand, and entries of its like are too far away.                         *)
LEMMA KnownIfDecoded ==
  ASSUME StridesFit, HistoryReaches, StreamInv, SpectraInv, HistoryInv, NEW i \in DOMAIN sent,
         NEW late \in 0..Jitter, Decoded(i, late)
  PROVE  /\ Known(sent[i], sent[i].at + late) <=> sent[i].decoded
         /\ sent[i].decoded =>
              \E e \in Recent(sent[i].at + late) : StandsFor(e, sent[i])
<1> DEFINE m == sent[i].mode
           at == sent[i].at
           start == at + late
           half == SamplesPerPeriod[m] \div 2
           S == SamplesForSymbols[m]
<1>1. /\ m \in Polled /\ m \in Submode /\ HistoryIsCurrent(m)
      /\ kin < at + SamplesPerPeriod[m] + MaxStep
  BY DecodedIsHeard
<1>2. /\ at \in Nat /\ Jitter \in Nat /\ History \in Nat /\ S \in Nat /\ half \in Int
      /\ S >= half + Jitter /\ Jitter < half /\ Jitter <= History /\ late \in Nat
      /\ late <= Jitter
  <2>1. at \in Nat
    BY FrameFacts DEF StreamInv
  <2>2. Jitter \in Nat /\ History \in Nat /\ S \in Nat /\ S >= half + Jitter
    BY <1>1, StreamAssumption
  <2>3. SamplesPerPeriod[m] \in Nat
    BY <1>1, SpectrumFacts
  <2> QED BY <1>1, <2>1, <2>2, <2>3 DEF HistoryReaches
<1> HIDE DEF m, at, half, S, start
<1>3. ASSUME Known(sent[i], sent[i].at + late) PROVE sent[i].decoded
  <2>1. PICK e \in Recent(start) : /\ e.mode = m /\ e.text = sent[i].text
                                   /\ AbsDiff(e.at, start) < half
    BY <1>3 DEF Known, m, half, start, at
  <2>2. PICK j \in DOMAIN sent : sent[j].decoded /\ StandsFor(e, sent[j])
    BY <1>1, <2>1 DEF HistoryIsCurrent, Recent
  <2>3. /\ sent[j].mode = m /\ sent[j].text = sent[i].text /\ e.at \in Int
        /\ sent[j].at \in Nat /\ sent[j].at <= e.at /\ e.at <= sent[j].at + Jitter
    <3>1. sent[j].at \in Nat
      BY FrameFacts DEF StreamInv
    <3> QED BY <1>2, <2>1, <2>2, <3>1 DEF StandsFor
  <2>4. e.at - start < half /\ start - e.at < half
    <3>1. start \in Int
      BY <1>2 DEF start
    <3> QED BY <1>2, <2>1, <2>3, <3>1 DEF AbsDiff, LargerOf
  <2>5. i \in Nat /\ j \in Nat
    BY DEF StreamInv, StreamType
  <2>6. CASE i < j
    <3>1. at + S <= sent[j].at
      BY <2>3, <2>6 DEF HistoryInv, FramesApart, at, S, m
    <3> QED BY <1>2, <2>3, <2>4, <3>1 DEF start
  <2>7. CASE j < i
    <3>1. sent[j].at + S <= at
      BY <2>3, <2>7 DEF HistoryInv, FramesApart, at, S, m
    <3> QED BY <1>2, <2>3, <2>4, <3>1 DEF start
  <2>8. CASE i = j
    BY <2>2, <2>8
  <2> QED BY <2>5, <2>6, <2>7, <2>8
<1>4. ASSUME sent[i].decoded
      PROVE  /\ Known(sent[i], sent[i].at + late)
             /\ \E e \in Recent(sent[i].at + late) : StandsFor(e, sent[i])
  <2>1. Remembered(sent[i])
    BY <1>4 DEF HistoryInv, DecodedRemembered
  <2>2. PICK e \in seen : StandsFor(e, sent[i])
    <3>1. ~(at + SamplesPerPeriod[m] + MaxStep < kin)
      <4>1. kin \in Nat /\ MaxStep \in Nat /\ SamplesPerPeriod[m] \in Nat
        BY <1>1, SpectrumFacts, StrideFacts DEF StreamInv, StreamType
      <4> QED BY <1>1, <1>2, <4>1
    <3> QED BY <2>1, <3>1 DEF Remembered, at, m
  <2>3. e.mode = m /\ e.text = sent[i].text /\ e.at \in at..(at + Jitter)
    BY <2>2 DEF StandsFor, m, at
  <2>4. e \in Recent(start)
    BY <1>2, <2>3 DEF Recent, LargerOf, start
  <2>5. AbsDiff(e.at, start) < half
    BY <1>2, <2>3 DEF AbsDiff, LargerOf, start
  <2> QED BY <2>2, <2>3, <2>4, <2>5 DEF Known, m, half, start, at
<1> QED BY <1>3, <1>4

(* An entry that has grown too old to keep is of a frame that no window    *)
(* holds any longer.                                                       *)
LEMMA HistoryDecoded ==
  ASSUME StridesFit, HistoryReaches, StreamInv, SpectraInv, HistoryInv, NEW i \in DOMAIN sent,
         NEW late \in 0..Jitter, Decoded(i, late)
  PROVE  HistoryInv'
<1> DEFINE m == sent[i].mode
           start == sent[i].at + late
           new == [sent[i] EXCEPT !.decoded = TRUE,
                                  !.reports = @ + IF Known(sent[i], start) THEN 0 ELSE 1]
           entry == Entry(sent[i], start)
<1>1. /\ seen' = Recent(start) \cup (IF Known(sent[i], start) THEN {} ELSE {entry})
      /\ sent' = [sent EXCEPT ![i] = new]
      /\ UNCHANGED <<kin, polled, window, ends, scan>>
  BY DEF Decoded, caller
<1>2. /\ m \in Polled /\ m \in Submode /\ kin = polled /\ SamplesPerPeriod[m] <= kin
      /\ ends[m] # 0 /\ ends[m] = LastWindow(m)
      /\ sent[i].at + SamplesForSymbols[m] <= kin
      /\ HistoryIsCurrent(m)
  BY DecodedIsHeard
<1>3. /\ Known(sent[i], start) <=> sent[i].decoded
      /\ sent[i].decoded => \E e \in Recent(start) : StandsFor(e, sent[i])
  BY KnownIfDecoded
<1>4. sent[i] \in Tx /\ sent \in Seq(Tx) /\ sent[i].at \in Nat /\ late \in Nat /\ late <= Jitter
      /\ Jitter \in Nat
  <2>1. Jitter \in Nat
    BY StreamAssumption
  <2> QED BY <2>1, FrameFacts DEF StreamInv, StreamType
<1>5. sent[i].reports = (IF sent[i].decoded THEN 1 ELSE 0) /\ sent[i].decoded \in BOOLEAN
  BY <1>4 DEF HistoryInv, ReportedOnce, Tx
<1>6. /\ new.mode = m /\ new.text = sent[i].text /\ new.at = sent[i].at /\ new.decoded = TRUE
      /\ new.reports = 1
  <2>1. sent[i].reports + (IF Known(sent[i], start) THEN 0 ELSE 1) = 1
    BY <1>3, <1>5
  <2> QED BY <1>4, <2>1 DEF Tx
<1>7. StandsFor(entry, sent[i]) /\ entry \in [mode : Polled, text : Text, at : Nat]
      /\ entry.mode = m
  BY <1>2, <1>4 DEF StandsFor, Entry, Tx
<1> HIDE DEF m, start, new, entry
<1>8. /\ DOMAIN sent' = DOMAIN sent /\ sent'[i] = new
      /\ \A j \in DOMAIN sent : j # i => sent'[j] = sent[j]
      /\ \A j \in DOMAIN sent :
           /\ sent'[j].mode = sent[j].mode /\ sent'[j].at = sent[j].at
           /\ sent'[j].text = sent[j].text
           /\ sent[j].decoded => sent'[j].decoded
  BY <1>1, <1>4, <1>6 DEF m
<1>9. /\ Recent(start) \subseteq seen' /\ Recent(start) \subseteq seen
      /\ \A e \in seen' : e \in seen \/ e = entry
      /\ \E e \in seen' : StandsFor(e, sent[i])
  <2>1. Recent(start) \subseteq seen' /\ Recent(start) \subseteq seen
    BY <1>1 DEF Recent
  <2>2. \A e \in seen' : e \in seen \/ e = entry
    BY <1>1, <2>1
  <2>3. \E e \in seen' : StandsFor(e, sent[i])
    BY <1>1, <1>3, <1>7, <2>1
  <2> QED BY <2>1, <2>2, <2>3
<1>10. ScanIsLive' /\ FramesApart'
  <2>1. \A l \in Polled : LastWindow(l)' = LastWindow(l)
    BY <1>1 DEF LastWindow, Cover
  <2>2. ScanIsLive'
    BY <1>1, <2>1 DEF HistoryInv, ScanIsLive
  <2>3. FramesApart'
    BY <1>8 DEF HistoryInv, FramesApart
  <2> QED BY <2>2, <2>3
<1>11. SeenType'
  BY <1>7, <1>9 DEF HistoryInv, SeenType
<1>12. ReportedOnce'
  <2> SUFFICES ASSUME NEW j \in DOMAIN sent
               PROVE  sent'[j].reports = IF sent'[j].decoded THEN 1 ELSE 0
    BY <1>8 DEF ReportedOnce
  <2>1. CASE j = i
    BY <1>6, <1>8, <2>1
  <2>2. CASE j # i
    BY <1>8, <2>2 DEF HistoryInv, ReportedOnce
  <2> QED BY <2>1, <2>2
<1>13. ASSUME NEW l \in Polled PROVE HistoryOf(l)'
  <2>1. HistoryOf(l)
    BY DEF HistoryInv
  <2>2. HistoryIsCurrent(l) => HistoryIsCurrent(l)'
    <3> SUFFICES ASSUME HistoryIsCurrent(l), NEW e \in seen', e.mode = l
                 PROVE  \E j \in DOMAIN sent : sent'[j].decoded /\ StandsFor(e, sent'[j])
      BY <1>8 DEF HistoryIsCurrent, StandsFor
    <3>1. CASE e = entry
      BY <1>6, <1>7, <1>8, <3>1 DEF StandsFor, m
    <3>2. CASE e # entry
      <4>1. PICK j \in DOMAIN sent : sent[j].decoded /\ StandsFor(e, sent[j])
        BY <1>9, <3>2 DEF HistoryIsCurrent
      <4> QED BY <1>8, <4>1 DEF StandsFor
    <3> QED BY <3>1, <3>2
  <2>3. CASE l = m
    BY <1>1, <1>2, <2>1, <2>2, <2>3 DEF HistoryOf
  <2>4. CASE l # m
    <3>1. HistoryWillGo(l) => HistoryWillGo(l)'
      <4> SUFFICES ASSUME HistoryWillGo(l), NEW j \in DOMAIN sent, sent'[j].mode = l
                   PROVE  ~ sent'[j].decoded
        BY <1>1, <1>8 DEF HistoryWillGo
      <4>1. j # i
        BY <1>6, <1>8, <2>4
      <4> QED BY <1>8, <4>1 DEF HistoryWillGo
    <3>2. \A e \in seen' : e.mode = l => e \in seen
      BY <1>7, <1>9, <2>4
    <3> QED BY <1>1, <2>1, <2>2, <3>1, <3>2 DEF HistoryOf
  <2> QED BY <2>3, <2>4
<1>14. DecodedRemembered'
  <2> SUFFICES ASSUME NEW j \in DOMAIN sent, sent'[j].decoded
               PROVE  /\ Remembered(sent[j])'
                      /\ kin = polled /\ SamplesPerPeriod[sent[j].mode] <= kin
                      /\ ends[sent[j].mode] <= LastWindow(sent[j].mode)
    BY <1>1, <1>8 DEF DecodedRemembered, Remembered, StandsFor, LastWindow, Cover
  <2>1. CASE j = i
    <3>1. Remembered(sent[i])'
      BY <1>8, <1>9 DEF Remembered, StandsFor
    <3>2. ends[m] <= LastWindow(m)
      <4>1. ends[m] \in Nat
        BY <1>2 DEF SpectraInv, DecoderType
      <4> QED BY <1>2, <4>1
    <3> QED BY <1>2, <2>1, <3>1, <3>2 DEF m
  <2>2. CASE j # i
    <3>1. /\ Remembered(sent[j])
          /\ kin = polled /\ SamplesPerPeriod[sent[j].mode] <= kin
          /\ ends[sent[j].mode] <= LastWindow(sent[j].mode)
      BY <1>8, <2>2 DEF HistoryInv, DecodedRemembered
    <3>2. ASSUME sent[j].at + SamplesPerPeriod[sent[j].mode] + MaxStep < kin
          PROVE  Remembered(sent[j])'
      BY <1>1, <1>8, <2>2, <3>2 DEF Remembered
    <3>3. ASSUME NEW e \in seen, StandsFor(e, sent[j])
          PROVE  Remembered(sent[j])'
      <4>1. CASE e \in Recent(start)
        BY <1>8, <1>9, <2>2, <3>3, <4>1 DEF Remembered, StandsFor
      <4>2. CASE e \notin Recent(start)
        <5> DEFINE P == SamplesPerPeriod[sent[j].mode]
                   S == SamplesForSymbols[m]
        <5>1. /\ sent[j].at \in Nat /\ sent[j].mode \in Polled /\ sent[j].mode \in Submode
              /\ P \in Nat /\ S \in Nat /\ MaxStep \in Nat /\ History \in Nat
          <6>1. sent[j].at \in Nat /\ sent[j].mode \in Polled /\ sent[j].mode \in Submode
            BY FrameFacts DEF StreamInv
          <6> QED BY <1>2, <6>1, StreamAssumption
        <5>2. e.at \in Nat /\ sent[j].at <= e.at
          BY <1>4, <3>3, <5>1 DEF StandsFor
        <5>3. e.at < LargerOf(0, start - History)
          BY <1>4, <4>2, <5>1, <5>2 DEF Recent, LargerOf, start
        <5>4. e.at < start - History
          BY <1>4, <5>1, <5>2, <5>3 DEF LargerOf, start
        <5>5. P + MaxStep + Jitter <= History + S
          BY <1>2, <5>1 DEF HistoryReaches
        <5>6. sent[j].at + P + MaxStep < kin
          <6>1. sent[i].at + S <= kin /\ kin \in Nat
            BY <1>2 DEF StreamInv, StreamType
          <6> DEFINE a == sent[j].at
                     b == sent[i].at
                     x == e.at
          <6>2. a \in Nat /\ b \in Nat /\ x \in Nat /\ a <= x /\ b + S <= kin
            BY <1>4, <5>1, <5>2, <6>1
          <6>4. x < (b + late) - History
            BY <5>4 DEF start
          <6> HIDE DEF P, S, a, b, x
          <6>3. a + P + MaxStep < kin
            BY <1>4, <5>1, <5>5, <6>1, <6>2, <6>4
          <6> QED BY <6>3 DEF a
        <5> QED BY <1>1, <1>8, <2>2, <5>6 DEF Remembered
      <4> QED BY <4>1, <4>2
    <3>4. Remembered(sent[j])'
      BY <3>1, <3>2, <3>3 DEF Remembered
    <3> QED BY <3>1, <3>4
  <2> QED BY <2>1, <2>2
<1> QED BY <1>10, <1>11, <1>12, <1>13, <1>14 DEF HistoryInv

LEMMA HistoryStep ==
  StridesFit /\ HistoryReaches /\ StreamInv /\ SpectraInv /\ HistoryInv /\ [Next]_vars
    => HistoryInv'
<1> SUFFICES ASSUME StridesFit, HistoryReaches, StreamInv, SpectraInv, HistoryInv, [Next]_vars
             PROVE  HistoryInv'
  OBVIOUS
<1>1. ASSUME UNCHANGED <<kin, polled, window, ends, seen, sent>>, scan' = scan \/ scan' = NoScan
      PROVE  HistoryInv'
  <2>1. ScanIsLive'
    BY <1>1 DEF HistoryInv, ScanIsLive, LastWindow, Cover
  <2>2. SeenType' /\ FramesApart' /\ ReportedOnce'
    BY <1>1 DEF HistoryInv, SeenType, FramesApart, ReportedOnce
  <2>3. DecodedRemembered'
    BY <1>1 DEF HistoryInv, DecodedRemembered, Remembered, StandsFor, LastWindow, Cover
  <2>4. \A m \in Polled : HistoryOf(m)'
    BY <1>1 DEF HistoryInv, HistoryOf, HistoryIsCurrent, HistoryWillGo, StandsFor
  <2> QED BY <2>1, <2>2, <2>3, <2>4 DEF HistoryInv
<1>2. CASE \E n \in 1..MaxStep : Receive(n)
  BY <1>2, HistoryReceive
<1>3. CASE \E m \in Polled, text \in Text : Transmit(m, text)
  BY <1>3, HistoryTransmit
<1>4. CASE Clear
  BY <1>4, HistoryClear
<1>5. CASE \E m \in Submode : DecodeWindow(m)
  BY <1>5, HistoryDecodeWindow
<1>6. CASE \E m \in Submode : DecodeAnywhere(m, kin \div 2)
  BY <1>6, HistoryDecodeAnywhere
<1>7. CASE \E j \in DOMAIN sent, late \in 0..Jitter : Decoded(j, late)
  BY <1>7, HistoryDecoded
<1>8. CASE \E altered \in BOOLEAN : Finish(altered)
  BY <1>1, <1>8 DEF Finish, caller
<1>9. CASE UNCHANGED vars
  BY <1>1, <1>9 DEF vars
<1> QED BY <1>2, <1>3, <1>4, <1>5, <1>6, <1>7, <1>8, <1>9 DEF Next

(* ReportedOnce: however many overlapping windows and passes decode a      *)
(* frame, remember reports it once (rx/time.rs), and it reports a frame    *)
(* that is sent again, after any clears, for a caller that polls for every *)
(* stride and a history that reaches as far as a window.                   *)
THEOREM EveryFrameIsReportedOnce ==
  StridesFit /\ HistoryReaches => (Spec => []ReportedOnce)
<1> SUFFICES ASSUME StridesFit, HistoryReaches PROVE Spec => []ReportedOnce
  OBVIOUS
<1>1. HistoryInv => ReportedOnce
  BY DEF HistoryInv
<1> QED BY <1>1, InvInit, InvStep, SpectraInit, SpectraStep, HistoryInit, HistoryStep, PTL
        DEF Spec
=============================================================================
