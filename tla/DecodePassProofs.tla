-------------------------- MODULE DecodePassProofs --------------------------
(***************************************************************************)
(* Proofs about DecodePass, for any frames, reports, candidates and        *)
(* outcomes of the attempts.  What is proved of the soft combiner's        *)
(* operations is taken from SoftCombinerProofs.                            *)
(***************************************************************************)
EXTENDS DecodePass, FiniteSetTheorems, TLAPS

(* No attempt leaves more rescues than there were, and none is made when   *)
(* none is left (decoder.rs:648 and 710).                                  *)
LEMMA RescuesAreCounted ==
  ASSUME NEW deep \in BOOLEAN, NEW left \in 0..Rescues, NEW o \in Outcomes(deep, left)
  PROVE  o.rescue \in 0..Rescues
<1>1. Rescues \in Nat /\ left \in Nat
  BY PassAssumption
<1>2. ASSUME NEW legacy, NEW l \in 0..Rescues, NEW checks, NEW a \in Aided(legacy, l, checks)
      PROVE  a.rescue \in 0..Rescues
  BY <1>1, <1>2 DEF Aided, Outcome
<1>3. ASSUME NEW legacy, NEW checks, NEW a \in AfterFallback(legacy, left, checks)
      PROVE  a.rescue \in 0..Rescues
  <2>1. CASE left > 0 /\ checks <= RescueChecks
    <3>1. left - 1 \in 0..Rescues
      BY <1>1, <2>1
    <3>2. CASE a = Outcome(TRUE, legacy, left - 1)
      BY <3>1, <3>2 DEF Outcome
    <3>3. CASE \E better \in {c \in Checks : c <= checks} : a \in Aided(legacy, left - 1, better)
      BY <1>2, <3>1, <3>3
    <3> QED BY <1>3, <2>1, <3>2, <3>3 DEF AfterFallback
  <2>2. CASE ~(left > 0 /\ checks <= RescueChecks)
    <3>1. a \in Aided(legacy, left, checks)
      BY <1>3, <2>2 DEF AfterFallback
    <3> QED BY <1>2, <3>1
  <2> QED BY <2>1, <2>2
<1>4. CASE o = Outcome(TRUE, FALSE, left) \/ o = Outcome(TRUE, TRUE, left)
  BY <1>4 DEF Outcome
<1>5. CASE \E checks \in Checks : o \in AfterFallback(~deep, left, checks)
  BY <1>3, <1>5
<1> QED BY <1>4, <1>5 DEF Outcomes

(* What a call returns is at most the number of frames there are           *)
(* (decoder.rs:1734).                                                      *)
LEMMA DistinctAreFrames == Cardinality(Distinct) \in 0..Cardinality(Frame)
<1>1. IsFiniteSet(Frame) /\ Distinct \subseteq Frame
  BY PassAssumption DEF Distinct
<1>2. IsFiniteSet(Distinct) /\ Cardinality(Distinct) <= Cardinality(Frame)
  BY <1>1, FS_Subset
<1>3. Cardinality(Distinct) \in Nat /\ Cardinality(Frame) \in Nat
  BY <1>1, <1>2, FS_CardinalityType
<1> QED BY <1>2, <1>3

-----------------------------------------------------------------------------
(* Every state of the decoder has its type: the passes stop at the last,   *)
(* the rescue budget, a u8 in decoder.rs, is never overdrawn, and no band  *)
(* is tried beyond its end.                                                *)
LEMMA TypeInit == Init => TypeOK
<1>1. 0 \in 0..Cardinality(Frame) /\ 0 \in 0..MaxCandidates /\ Rescues \in 0..Rescues
  BY PassAssumption, FS_CardinalityType
<1>2. Init => saved \in BOOLEAN /\ retried \in BOOLEAN
  BY DEF Init
<1>3. Init => skipped \in 0..MaxCandidates
  BY <1>1 DEF Init
<1>4. Init => stalled \in BOOLEAN /\ improved \in BOOLEAN /\ sicAlt \in BOOLEAN
  BY DEF Init
<1>5. Init => todo \in [deep : BOOLEAN, left : 0..MaxCandidates, waiting : 0..MaxCandidates]
  BY <1>1 DEF Init
<1>6. Init => decodes \in [Frame -> Snr \cup {Unheard}]
  BY DEF Init
<1>7. Init => phase \in {"Idle", "Search", "Try"} /\ ipass \in 1..LastPass
  BY DEF Init, LastPass
<1>8. Init => rescue \in 0..Rescues /\ returned \in 0..Cardinality(Frame)
  BY <1>1 DEF Init
<1> QED BY <1>2, <1>3, <1>4, <1>5, <1>6, <1>7, <1>8 DEF TypeOK

LEMMA FinishType == ASSUME TypeOK, Finish PROVE phase' = "Idle" /\ sicAlt' = FALSE
                                                /\ returned' \in 0..Cardinality(Frame)
BY DistinctAreFrames DEF Finish

LEMMA TypeStep == TypeOK /\ [Next]_vars => TypeOK'
<1> SUFFICES ASSUME TypeOK, [Next]_vars PROVE TypeOK'
  OBVIOUS
<1> USE DEF LastPass
<1>0. Rescues \in Nat /\ MaxCandidates \in Nat
  BY PassAssumption
<1>1. CASE Begin
  <2>1. stalled' \in BOOLEAN /\ improved' \in BOOLEAN /\ sicAlt' \in BOOLEAN
    BY <1>1 DEF Begin
  <2>2. saved' \in BOOLEAN /\ retried' \in BOOLEAN
    BY <1>1 DEF Begin
  <2>3. skipped' \in 0..MaxCandidates
    BY <1>0, <1>1 DEF Begin
  <2>4. decodes' \in [Frame -> Snr \cup {Unheard}] /\ rescue' \in 0..Rescues
    BY <1>0, <1>1 DEF Begin, NoneDecoded
  <2>5. phase' \in {"Idle", "Search", "Try"} /\ ipass' \in 1..LastPass
    BY <1>1 DEF Begin
  <2>6. UNCHANGED <<todo, returned>>
    BY <1>1 DEF Begin
  <2> QED BY <2>1, <2>2, <2>3, <2>4, <2>5, <2>6 DEF TypeOK
<1>2. CASE SkipPass
  BY <1>2 DEF TypeOK, SkipPass, NextPass, Retry
<1>3. CASE NoAlternative
  BY <1>3, FinishType DEF TypeOK, NoAlternative
<1>4. CASE FindCandidates
  <2>1. todo' \in [deep : BOOLEAN, left : 0..MaxCandidates, waiting : 0..MaxCandidates]
    BY <1>4 DEF FindCandidates
  <2>2. retried' \in BOOLEAN /\ sicAlt' \in BOOLEAN
    BY <1>4 DEF FindCandidates, Searching, TypeOK
  <2>3. skipped' \in 0..MaxCandidates
    BY <1>0, <1>4 DEF FindCandidates, Searching
  <2>4. phase' = "Try" /\ improved' = FALSE
    BY <1>4 DEF FindCandidates
  <2>5. UNCHANGED <<ipass, stalled, rescue, decodes, returned, saved>>
    BY <1>4 DEF FindCandidates
  <2> QED BY <2>1, <2>2, <2>3, <2>4, <2>5 DEF TypeOK
<1>5. CASE FindNothing
  <2>1. retried' \in BOOLEAN /\ UNCHANGED <<improved, todo, rescue, decodes, saved>>
    BY <1>5 DEF FindNothing, Searching, TypeOK
  <2>2. skipped' \in 0..MaxCandidates
    BY <1>0, <1>5 DEF FindNothing, Searching
  <2>3. CASE ~Retry /\ sicAlt
    <3>1. ipass' \in 1..LastPass
      BY <1>5, <2>3 DEF FindNothing, FindNothingNext, NextPass, Retry, TypeOK
    <3>2. stalled' = TRUE /\ UNCHANGED <<phase, returned, sicAlt>>
      BY <1>5, <2>3 DEF FindNothing, FindNothingNext
    <3> QED BY <2>1, <2>2, <3>1, <3>2 DEF TypeOK
  <2>4. CASE ~(~Retry /\ sicAlt)
    <3>1. Finish /\ UNCHANGED <<ipass, stalled>>
      BY <1>5, <2>4 DEF FindNothing, FindNothingNext
    <3> QED BY <2>1, <2>2, <3>1, FinishType DEF TypeOK
  <2> QED BY <2>3, <2>4
<1>6. CASE RejectCandidate
  BY <1>0, <1>6 DEF TypeOK, RejectCandidate
<1>7. CASE TryCandidate
  <2>1. PICK bin \in Bin, sig \in Signature, legacySig \in Signature,
             o \in Outcomes(todo.deep, rescue) :
          /\ rescue' = o.rescue
          /\ IF o.ok THEN SaveAlternative /\ \E f \in Frame, snr \in Snr : Record(f, snr)
                     ELSE UNCHANGED <<sicAlt, saved, decodes, reports, improved>>
    BY <1>7 DEF TryCandidate
  <2>2. rescue' \in 0..Rescues
    BY <2>1, RescuesAreCounted DEF TypeOK
  <2>3. sicAlt' \in BOOLEAN /\ saved' \in BOOLEAN
    BY <2>1 DEF SaveAlternative, TypeOK
  <2>4. decodes' \in [Frame -> Snr \cup {Unheard}] /\ improved' \in BOOLEAN
    BY <2>1 DEF Record, TypeOK
  <2>5. todo' \in [deep : BOOLEAN, left : 0..MaxCandidates, waiting : 0..MaxCandidates]
    BY <1>0, <1>7 DEF TryCandidate, TypeOK
  <2> QED BY <1>7, <2>2, <2>3, <2>4, <2>5 DEF TypeOK, TryCandidate
<1>8. CASE OpenDeepBand
  <2>1. todo' \in [deep : BOOLEAN, left : 0..MaxCandidates, waiting : 0..MaxCandidates]
    BY <1>0, <1>8 DEF OpenDeepBand, TypeOK
  <2> QED BY <1>0, <1>8, <2>1 DEF TypeOK, OpenDeepBand
<1>9. CASE EndPass
  <2>1. CASE Retry \/ (~improved /\ ~sicAlt)
    BY <1>9, <2>1, FinishType DEF TypeOK, EndPass
  <2>2. CASE ~(Retry \/ (~improved /\ ~sicAlt))
    BY <1>9, <2>2 DEF TypeOK, EndPass, NextPass, Retry
  <2> QED BY <2>1, <2>2
<1>10. CASE Tick
  BY <1>10 DEF TypeOK, Tick, passVars
<1>11. CASE UNCHANGED vars
  BY <1>11 DEF TypeOK, vars, passVars
<1> QED BY <1>1, <1>2, <1>3, <1>4, <1>5, <1>6, <1>7, <1>8, <1>9, <1>10, <1>11 DEF Next, Step

THEOREM TypeCorrect == Spec => []TypeOK
BY TypeInit, TypeStep, PTL DEF Spec

-----------------------------------------------------------------------------
(* Where the residual and the deep candidates are between the passes.      *)
LEMMA SearchInit == Init => SearchInv
BY DEF Init, SearchInv, Retry, LastPass

LEMMA SearchStep == TypeOK /\ SearchInv /\ [Next]_vars => SearchInv'
<1> SUFFICES ASSUME TypeOK, SearchInv, [Next]_vars PROVE SearchInv'
  OBVIOUS
<1> USE DEF Retry, LastPass
<1>1. CASE Begin
  BY <1>1 DEF SearchInv, Begin
<1>2. CASE SkipPass
  BY <1>2 DEF TypeOK, SearchInv, SkipPass, NextPass
<1>3. CASE NoAlternative
  BY <1>3 DEF TypeOK, SearchInv, NoAlternative, Finish
<1>4. CASE FindCandidates
  BY <1>4 DEF TypeOK, SearchInv, FindCandidates, Searching
<1>5. CASE FindNothing
  <2>1. CASE ~Retry /\ sicAlt
    BY <1>5, <2>1 DEF TypeOK, SearchInv, FindNothing, FindNothingNext, Searching, NextPass
  <2>2. CASE ~(~Retry /\ sicAlt)
    BY <1>5, <2>2 DEF TypeOK, SearchInv, FindNothing, FindNothingNext, Searching, Finish
  <2> QED BY <2>1, <2>2
<1>6. CASE RejectCandidate
  BY <1>6 DEF SearchInv, RejectCandidate
<1>7. CASE TryCandidate
  <2>1. PICK o \in Outcomes(todo.deep, rescue) :
          IF o.ok THEN SaveAlternative /\ \E f \in Frame, snr \in Snr : Record(f, snr)
                  ELSE UNCHANGED <<sicAlt, saved, decodes, reports, improved>>
    BY <1>7 DEF TryCandidate
  <2>2. UNCHANGED <<phase, ipass, stalled, retried, skipped>> /\ phase = "Try"
    BY <1>7 DEF TryCandidate
  <2>3. improved => improved'
    BY <2>1 DEF Record
  <2>4. (sicAlt => sicAlt') /\ (saved' => saved \/ sicAlt')
    BY <2>1 DEF SaveAlternative, TypeOK
  <2> QED BY <2>2, <2>3, <2>4 DEF SearchInv
<1>8. CASE OpenDeepBand
  BY <1>8 DEF TypeOK, SearchInv, OpenDeepBand, SkipsDeepBand
<1>9. CASE EndPass
  <2>1. CASE Retry \/ (~improved /\ ~sicAlt)
    BY <1>9, <2>1 DEF TypeOK, SearchInv, EndPass, Finish
  <2>2. CASE ~(Retry \/ (~improved /\ ~sicAlt))
    BY <1>9, <2>2 DEF TypeOK, SearchInv, EndPass, NextPass
  <2> QED BY <2>1, <2>2
<1>10. CASE Tick
  BY <1>10 DEF SearchInv, Tick, passVars
<1>11. CASE UNCHANGED vars
  BY <1>11 DEF SearchInv, vars, passVars
<1> QED BY <1>1, <1>2, <1>3, <1>4, <1>5, <1>6, <1>7, <1>8, <1>9, <1>10, <1>11 DEF Next, Step

LEMMA SearchInvariance == Spec => []SearchInv
BY TypeInit, TypeStep, SearchInit, SearchStep, PTL DEF Spec

(* SavedResidualIsSearched: a call does not end with a saved residual it   *)
(* has not searched (decoder.rs:1573-1630).                                *)
THEOREM NothingIsLeftOut == Spec => []SavedResidualIsSearched
<1>1. SearchInv => SavedResidualIsSearched
  BY DEF SearchInv, SavedResidualIsSearched
<1> QED BY <1>1, SearchInvariance, PTL

(* DeepBandIsNotForgotten: a call does not end on a pass whose deep        *)
(* candidates it left out (decoder.rs:1629, 1718-1723).                    *)
THEOREM DeepBandIsTried == Spec => []DeepBandIsNotForgotten
<1>1. SearchInv => DeepBandIsNotForgotten
  BY DEF SearchInv, DeepBandIsNotForgotten
<1> QED BY <1>1, SearchInvariance, PTL

-----------------------------------------------------------------------------
ReportsType == reports \in [Frame -> Seq(Snr)]
ReportsInv == ReportsType /\ ReportsImprove

(* A report that is emitted improves on those before it                    *)
(* (decoder.rs:1684-1714).                                                 *)
LEMMA RecordImproves ==
  ASSUME TypeOK, ReportsInv, NEW f \in Frame, NEW snr \in Snr, Record(f, snr)
  PROVE  ReportsInv'
<1>0. snr \in Int /\ Snr \subseteq Int /\ Unheard \notin Snr
  BY PassAssumption
<1>1. CASE ~(decodes[f] = Unheard \/ decodes[f] < snr)
  BY <1>1 DEF ReportsInv, ReportsType, ReportsImprove, Record
<1>2. CASE decodes[f] = Unheard \/ decodes[f] < snr
  <2>1. /\ decodes' = [decodes EXCEPT ![f] = snr]
        /\ reports' = [reports EXCEPT ![f] = Append(@, snr)]
    BY <1>2 DEF Record
  <2>2. reports \in [Frame -> Seq(Snr)] /\ reports[f] \in Seq(Snr)
    BY DEF ReportsInv, ReportsType
  <2>3. reports' \in [Frame -> Seq(Snr)]
    BY <2>1, <2>2
  <2>4. ASSUME NEW i \in DOMAIN reports[f] PROVE reports[f][i] < snr
    <3>1. Len(reports[f]) \in Nat /\ i \in 1..Len(reports[f]) /\ reports[f] # <<>>
      BY <2>2, <2>4
    <3>2. \A k \in 1..Len(reports[f]) : reports[f][k] \in Int
      <4> SUFFICES ASSUME NEW k \in 1..Len(reports[f]) PROVE reports[f][k] \in Int
        OBVIOUS
      <4>1. reports[f][k] \in Snr
        BY <2>2
      <4> QED BY <1>0, <4>1
    <3>3. Len(reports[f]) \in 1..Len(reports[f])
      BY <3>1
    <3>4. decodes[f] = reports[f][Len(reports[f])]
      BY <3>1 DEF ReportsInv, ReportsImprove, Last
    <3>5. decodes[f] < snr
      BY <1>0, <1>2, <2>2, <3>3, <3>4
    <3>6. i = Len(reports[f]) \/ reports[f][i] < reports[f][Len(reports[f])]
      BY <3>1, <3>3, <2>2 DEF ReportsInv, ReportsImprove
    <3> QED BY <1>0, <3>2, <3>3, <3>1, <3>4, <3>5, <3>6
  <2>5. ASSUME NEW g \in Frame
        PROVE  /\ \A i, j \in DOMAIN reports'[g] : i < j => reports'[g][i] < reports'[g][j]
               /\ decodes'[g] = IF reports'[g] = <<>> THEN Unheard ELSE Last(reports'[g])
    <3>1. CASE g # f
      BY <2>1, <2>2, <3>1 DEF ReportsInv, ReportsImprove, TypeOK
    <3>2. CASE g = f
      <4>1. reports'[g] = Append(reports[f], snr) /\ decodes'[g] = snr
        BY <2>1, <2>2, <3>2 DEF TypeOK
      <4>2. /\ Len(reports'[g]) = Len(reports[f]) + 1
            /\ reports'[g][Len(reports[f]) + 1] = snr
            /\ \A k \in 1..Len(reports[f]) : reports'[g][k] = reports[f][k]
            /\ DOMAIN reports'[g] = 1..(Len(reports[f]) + 1)
            /\ DOMAIN reports[f] = 1..Len(reports[f]) /\ Len(reports[f]) \in Nat
            /\ reports'[g] # <<>>
        BY <2>2, <4>1
      <4>3. decodes'[g] = Last(reports'[g])
        BY <4>1, <4>2 DEF Last
      <4>4. ASSUME NEW i \in DOMAIN reports'[g], NEW j \in DOMAIN reports'[g], i < j
            PROVE  reports'[g][i] < reports'[g][j]
        <5>1. i \in 1..Len(reports[f])
          BY <4>2, <4>4
        <5>2. CASE j = Len(reports[f]) + 1
          BY <2>4, <4>2, <5>1, <5>2
        <5>3. CASE j \in 1..Len(reports[f])
          BY <3>2, <4>2, <4>4, <5>1, <5>3 DEF ReportsInv, ReportsImprove
        <5> QED BY <4>2, <4>4, <5>2, <5>3
      <4> QED BY <4>2, <4>3, <4>4
    <3> QED BY <3>1, <3>2
  <2> QED BY <2>3, <2>5 DEF ReportsInv, ReportsType, ReportsImprove
<1> QED BY <1>1, <1>2

LEMMA ReportsInit == Init => ReportsInv
BY DEF Init, ReportsInv, ReportsType, ReportsImprove

LEMMA ReportsStep == TypeOK /\ ReportsInv /\ [Next]_vars => ReportsInv'
<1> SUFFICES ASSUME TypeOK, ReportsInv, [Next]_vars PROVE ReportsInv'
  OBVIOUS
<1>1. CASE UNCHANGED <<decodes, reports>>
  BY <1>1 DEF ReportsInv, ReportsType, ReportsImprove
<1>2. CASE Begin
  BY <1>2 DEF Begin, NoneDecoded, ReportsInv, ReportsType, ReportsImprove
<1>3. CASE TryCandidate
  <2>1. PICK o \in Outcomes(todo.deep, rescue) :
          IF o.ok THEN \E f \in Frame, snr \in Snr : Record(f, snr)
                  ELSE UNCHANGED <<decodes, reports>>
    BY <1>3 DEF TryCandidate
  <2> QED BY <1>1, <2>1, RecordImproves
<1>4. CASE Tick \/ UNCHANGED vars
  BY <1>1, <1>4 DEF Tick, vars, passVars
<1>5. CASE Step /\ ~TryCandidate
  BY <1>1, <1>5 DEF Step, SkipPass, NoAlternative, FindCandidates, FindNothing,
                    RejectCandidate, OpenDeepBand, EndPass
<1> QED BY <1>2, <1>3, <1>4, <1>5 DEF Next

(* ReportsImprove: within a call every report of a frame is better than    *)
(* the ones before it, and the last is the one that is kept.               *)
THEOREM OnlyBetterReports == Spec => []ReportsImprove
<1>1. ReportsInv => ReportsImprove
  BY DEF ReportsInv
<1> QED BY <1>1, TypeInit, TypeStep, ReportsInit, ReportsStep, PTL DEF Spec

(* The frames decoded are those that were reported.                        *)
LEMMA DecodedAreReported ==
  ASSUME TypeOK, ReportsInv
  PROVE  Distinct = {f \in Frame : reports[f] # <<>>}
<1> SUFFICES ASSUME NEW f \in Frame PROVE decodes[f] # Unheard <=> reports[f] # <<>>
  BY DEF Distinct
<1>1. reports[f] \in Seq(Snr) /\ Snr \subseteq Int /\ Unheard \notin Snr
  BY PassAssumption DEF ReportsInv, ReportsType
<1>2. CASE reports[f] = <<>>
  BY <1>2 DEF ReportsInv, ReportsImprove
<1>3. CASE reports[f] # <<>>
  <2>1. Len(reports[f]) \in 1..Len(reports[f])
    BY <1>1, <1>3
  <2>2. reports[f][Len(reports[f])] \in Snr
    BY <1>1, <2>1
  <2>3. decodes[f] = reports[f][Len(reports[f])]
    BY <1>3 DEF ReportsInv, ReportsImprove, Last
  <2> QED BY <1>1, <1>3, <2>2, <2>3
<1> QED BY <1>2, <1>3

(* ReturnsDistinctFrames: what a call returns counts each frame once,      *)
(* however often it was reported (decoder.rs:1734).                        *)
THEOREM CountsFramesOnce == Spec => ReturnsDistinctFrames
<1>1. TypeOK /\ ReportsInv /\ [Next]_vars =>
        [phase # "Idle" /\ phase' = "Idle"
           => returned' = Cardinality({f \in Frame : reports[f] # <<>>})]_vars
  <2> SUFFICES ASSUME TypeOK, ReportsInv, [Next]_vars, ~UNCHANGED vars,
                      phase # "Idle", phase' = "Idle"
               PROVE  returned' = Cardinality({f \in Frame : reports[f] # <<>>})
    OBVIOUS
  <2>1. CASE NoAlternative \/ FindNothing \/ EndPass
    <3>1. Finish
      BY <2>1 DEF NoAlternative, FindNothing, FindNothingNext, EndPass
    <3> QED BY <3>1, DecodedAreReported DEF Finish
  <2>2. CASE Begin \/ SkipPass \/ FindCandidates \/ RejectCandidate \/ TryCandidate
             \/ OpenDeepBand \/ Tick
    BY <2>2 DEF Begin, SkipPass, FindCandidates, RejectCandidate, TryCandidate, OpenDeepBand, Tick
  <2> QED BY <2>1, <2>2 DEF Next, Step
<1>2. Spec => [](TypeOK /\ ReportsInv)
  BY TypeInit, TypeStep, ReportsInit, ReportsStep, PTL DEF Spec
<1> QED BY <1>1, <1>2, PTL DEF Spec, ReturnsDistinctFrames

-----------------------------------------------------------------------------
(* The soft combiners of the decoder.  Sums is one of them with the proofs *)
(* about its operations, which are the same in the other.                  *)
Sums == INSTANCE SoftCombinerProofs WITH entries <- softEntries

LEMMA SumsConstants ==
  /\ \A s \in Signature : Sums!IsFiniteSet(s)
  /\ MaxHamming \in Nat /\ Ttl \in Nat /\ Horizon \in Nat
  /\ \A p \in Part : TimeOf(p) \in Nat
BY PassAssumption DEF Sums!IsFiniteSet, IsFiniteSet, Part, TimeOf

LEMMA SameOperations ==
  ASSUME NEW e
  PROVE  /\ Soft!Flushed(e) = Sums!Flushed(e) /\ Legacy!Flushed(e) = Sums!Flushed(e)
         /\ \A bin, sig : /\ Soft!MarkedDecoded(e, bin, sig) = Sums!MarkedDecoded(e, bin, sig)
                          /\ Legacy!MarkedDecoded(e, bin, sig) = Sums!MarkedDecoded(e, bin, sig)
         /\ \A bin, sig, p : /\ Soft!Combined(e, bin, sig, p) = Sums!Combined(e, bin, sig, p)
                             /\ Legacy!Combined(e, bin, sig, p) = Sums!Combined(e, bin, sig, p)
<1>1. \A b, s : /\ Soft!Retained(b, s) = Sums!Retained(b, s)
                /\ Legacy!Retained(b, s) = Sums!Retained(b, s)
  BY DEF Soft!Retained, Legacy!Retained, Sums!Retained
<1>2. \A s : Soft!Range(s) = Sums!Range(s) /\ Legacy!Range(s) = Sums!Range(s)
  BY DEF Soft!Range, Legacy!Range, Sums!Range
<1>3. Soft!Flushed(e) = Sums!Flushed(e) /\ Legacy!Flushed(e) = Sums!Flushed(e)
  BY <1>1, <1>2 DEF Soft!Flushed, Legacy!Flushed, Sums!Flushed
<1>4. \A bin, sig : /\ Soft!MarkedDecoded(e, bin, sig) = Sums!MarkedDecoded(e, bin, sig)
                    /\ Legacy!MarkedDecoded(e, bin, sig) = Sums!MarkedDecoded(e, bin, sig)
  BY <1>1, <1>2 DEF Soft!MarkedDecoded, Legacy!MarkedDecoded, Sums!MarkedDecoded
<1>5. \A b, sig : /\ Soft!FindEntry(b, sig) = Sums!FindEntry(b, sig)
                  /\ Legacy!FindEntry(b, sig) = Sums!FindEntry(b, sig)
  BY DEF Soft!FindEntry, Legacy!FindEntry, Sums!FindEntry, Soft!Near, Legacy!Near, Sums!Near,
         Soft!Hamming, Legacy!Hamming, Sums!Hamming, Soft!SelectInSeq, Legacy!SelectInSeq,
         Sums!SelectInSeq, Soft!Min, Legacy!Min, Sums!Min, Soft!Cardinality, Legacy!Cardinality,
         Sums!Cardinality
<1>6. \A sig, p : /\ Soft!NewEntry(sig, p) = Sums!NewEntry(sig, p)
                  /\ Legacy!NewEntry(sig, p) = Sums!NewEntry(sig, p)
  BY DEF Soft!NewEntry, Legacy!NewEntry, Sums!NewEntry
<1>7. ASSUME NEW bin, NEW sig, NEW p
      PROVE  /\ Soft!Combined(e, bin, sig, p) = Sums!Combined(e, bin, sig, p)
             /\ Legacy!Combined(e, bin, sig, p) = Sums!Combined(e, bin, sig, p)
  <2> DEFINE f == Sums!Flushed(e)
             i == Sums!FindEntry(f[bin], sig)
             new == Sums!NewEntry(sig, p)
             c == IF i = 0
                  THEN [f EXCEPT ![bin] = Append(@, new)]
                  ELSE [f EXCEPT ![bin][i].parts = @ \cup {p}, ![bin][i].lastSeen = now]
  <2>1. Sums!Combined(e, bin, sig, p) = c
    BY DEF Sums!Combined
  <2>2. Soft!Combined(e, bin, sig, p) = c
    BY <1>3, <1>5, <1>6 DEF Soft!Combined
  <2>3. Legacy!Combined(e, bin, sig, p) = c
    BY <1>3, <1>5, <1>6 DEF Legacy!Combined
  <2> QED BY <2>1, <2>2, <2>3
<1> QED BY <1>3, <1>4, <1>7

-----------------------------------------------------------------------------
(* What holds of both combiners between the candidates.                    *)
Heard(e) ==
  \A bin \in Bin : \A i \in 1..Len(e[bin]) : \A p \in e[bin][i].parts : p[2] # LastPass

Kept(e, t) == Sums!Sound(e, t) /\ Heard(e)

CombinersInv == /\ now \in 0..Horizon
                /\ Kept(softEntries, now) /\ Kept(legacyEntries, now)

LEMMA ThinnedStaysHeard ==
  ASSUME NEW d, Heard(d), NEW e, Sums!Thinned(e, d)
  PROVE  Heard(e)
<1> SUFFICES ASSUME NEW bin \in Bin, NEW i \in 1..Len(e[bin]), NEW p \in e[bin][i].parts
             PROVE  p[2] # LastPass
  BY DEF Heard
<1>1. PICK f : Sums!Selects(f, e[bin], d[bin], Sums!Entry)
  BY DEF Sums!Thinned
<1>2. f[i] \in 1..Len(d[bin]) /\ e[bin][i] = d[bin][f[i]]
  BY <1>1 DEF Sums!Selects
<1> QED BY <1>2 DEF Heard

LEMMA FlushedStaysKept ==
  ASSUME NEW e, Kept(e, now)
  PROVE  Kept(Sums!Flushed(e), now)
<1>1. e \in Sums!Buckets
  BY DEF Kept, Sums!Sound
<1>2. Sums!Thinned(Sums!Flushed(e), e)
  BY <1>1, SumsConstants, Sums!FlushedThins
<1>3. Sums!Sound(Sums!Flushed(e), now)
  BY SumsConstants, Sums!FlushedSound DEF Kept
<1> QED BY <1>2, <1>3, ThinnedStaysHeard DEF Kept

LEMMA MarkedStaysKept ==
  ASSUME NEW e, Kept(e, now), NEW bin \in Bin, NEW sig
  PROVE  Kept(Sums!MarkedDecoded(e, bin, sig), now)
<1>1. e \in Sums!Buckets
  BY DEF Kept, Sums!Sound
<1>2. Sums!Thinned(Sums!MarkedDecoded(e, bin, sig), e)
  BY <1>1, SumsConstants, Sums!MarkedThins
<1>3. Sums!Sound(Sums!MarkedDecoded(e, bin, sig), now)
  BY SumsConstants, Sums!MarkedSound DEF Kept
<1> QED BY <1>2, <1>3, ThinnedStaysHeard DEF Kept

(* A part of a pass before the last leaves a sum without the residual.     *)
LEMMA CombinedStaysHeard ==
  ASSUME NEW e \in Sums!Buckets, Heard(Sums!Flushed(e)), now \in Nat,
         NEW bin \in Bin, NEW sig \in Signature, NEW part \in Part, part[2] # LastPass
  PROVE  Heard(Sums!Combined(e, bin, sig, part))
<1> DEFINE f == Sums!Flushed(e)
           c == Sums!Combined(e, bin, sig, part)
           Added(k) == /\ Len(c[bin]) = Len(f[bin])
                       /\ \A j \in 1..Len(f[bin]) \ {k} : c[bin][j] = f[bin][j]
                       /\ c[bin][k] = [signature |-> f[bin][k].signature,
                                       parts |-> f[bin][k].parts \cup {part}, lastSeen |-> now]
<1>1. /\ \A b \in Bin \ {bin} : c[b] = f[b]
      /\ \/ c[bin] = Append(f[bin], Sums!NewEntry(sig, part))
         \/ \E k \in 1..Len(f[bin]) : Added(k)
  BY SumsConstants, Sums!CombinedCases
<1>2. f \in Sums!Buckets
  BY SumsConstants, Sums!FlushedThins
<1>3. Heard(f)
  OBVIOUS
<1> HIDE DEF f, c
<1>4. f[bin] \in Seq(Sums!Entry) /\ Len(f[bin]) \in Nat
  BY <1>2 DEF Sums!Buckets
<1> SUFFICES ASSUME NEW b \in Bin, NEW i \in 1..Len(c[b]), NEW p \in c[b][i].parts, p # part
             PROVE  p[2] # LastPass
  BY DEF Heard, c
<1>5. i \in 1..Len(f[b]) /\ p \in f[b][i].parts
  <2>1. CASE b # bin
    BY <1>1, <2>1
  <2>2. CASE b = bin /\ c[bin] = Append(f[bin], Sums!NewEntry(sig, part))
    <3>1. CASE i = Len(f[bin]) + 1
      <4>1. c[b][i] = Sums!NewEntry(sig, part)
        BY <1>4, <2>2, <3>1
      <4> QED BY <4>1 DEF Sums!NewEntry
    <3>2. CASE i # Len(f[bin]) + 1
      BY <1>4, <2>2, <3>2
    <3> QED BY <3>1, <3>2
  <2>3. CASE b = bin /\ \E k \in 1..Len(f[bin]) : Added(k)
    <3>1. PICK k \in 1..Len(f[bin]) : Added(k)
      BY <2>3
    <3>2. CASE i = k
      <4>1. c[b][i].parts = f[bin][k].parts \cup {part}
        BY <2>3, <3>1, <3>2
      <4> QED BY <2>3, <3>2, <4>1
    <3>3. CASE i # k
      BY <2>3, <3>1, <3>3
    <3> QED BY <3>2, <3>3
  <2> QED BY <1>1, <2>1, <2>2, <2>3
<1> QED BY <1>3, <1>5 DEF Heard

(* combine in a pass over what was received, nothing in the retry          *)
(* (decoder.rs:550-559, 603-615).                                          *)
LEMMA SummedStaysKept ==
  ASSUME NEW e, Kept(e, now), NEW bin \in Bin, NEW sig \in Signature, now \in 0..Horizon,
         ipass \in 1..LastPass
  PROVE  Kept(Summed(Sums!Combined(e, bin, sig, ThisPart), Sums!Flushed(e)), now)
<1>1. CASE Retry
  BY <1>1, FlushedStaysKept DEF Summed
<1>2. CASE ~Retry
  <2>1. ThisPart \in Part /\ TimeOf(ThisPart) = now /\ ThisPart[2] # LastPass /\ now \in Nat
    BY <1>2, SumsConstants DEF ThisPart, Part, TimeOf, Retry
  <2>2. Sums!Sound(e, now) /\ e \in Sums!Buckets /\ Heard(Sums!Flushed(e))
    BY FlushedStaysKept DEF Kept, Sums!Sound
  <2>3. Sums!Sound(Sums!Combined(e, bin, sig, ThisPart), now)
    BY <2>1, <2>2, SumsConstants, Sums!CombinedSound
  <2>4. Heard(Sums!Combined(e, bin, sig, ThisPart))
    BY <2>1, <2>2, CombinedStaysHeard
  <2> QED BY <1>2, <2>3, <2>4 DEF Summed, Kept
<1> QED BY <1>1, <1>2

LEMMA CombinersInit == Init => CombinersInv
<1> SUFFICES ASSUME Init PROVE CombinersInv
  OBVIOUS
<1>1. now = 0 /\ softEntries = [b \in Bin |-> <<>>] /\ legacyEntries = [b \in Bin |-> <<>>]
  BY DEF Init, Soft!NoEntries, Legacy!NoEntries
<1> DEFINE none == [b \in Bin |-> <<>>]
<1>2. none \in Sums!Buckets /\ \A b \in Bin : none[b] = <<>> /\ 1..Len(none[b]) = {}
  BY DEF Sums!Buckets
<1> HIDE DEF none
<1>3. Kept(none, 0)
  BY <1>2 DEF Kept, Heard, Sums!Sound, Sums!FarApart, Sums!NoGaps
<1> QED BY <1>1, <1>3, SumsConstants DEF CombinersInv, none

LEMMA CombinersStep == TypeOK /\ CombinersInv /\ [Next]_vars => CombinersInv'
<1> SUFFICES ASSUME TypeOK, CombinersInv, [Next]_vars PROVE CombinersInv'
  OBVIOUS
<1>1. /\ now \in 0..Horizon /\ Kept(softEntries, now) /\ Kept(legacyEntries, now)
      /\ ipass \in 1..LastPass
  BY DEF CombinersInv, TypeOK
<1>2. ASSUME Kept(softEntries', now), Kept(legacyEntries', now), now' \in 0..Horizon, now <= now'
      PROVE  CombinersInv'
  <2>1. now \in Nat /\ now' \in Nat
    BY <1>1, <1>2, SumsConstants
  <2>2. \A e : Kept(e, now) => Kept(e, now')
    BY <1>2, <2>1, SumsConstants, Sums!LaterIsSound DEF Kept
  <2> QED BY <1>2, <2>2 DEF CombinersInv
<1>3. ASSUME UNCHANGED <<softEntries, legacyEntries, now>> PROVE CombinersInv'
  BY <1>1, <1>3 DEF CombinersInv
<1>4. Kept(Soft!Flushed(softEntries), now) /\ Kept(Legacy!Flushed(legacyEntries), now)
  BY <1>1, FlushedStaysKept, SameOperations
<1>5. CASE Begin
  <2>1. /\ softEntries' = Soft!Flushed(softEntries) /\ legacyEntries' = Legacy!Flushed(legacyEntries)
        /\ now' = now
    BY <1>5 DEF Begin
  <2> QED BY <1>1, <1>2, <1>4, <2>1, SumsConstants
<1>6. CASE TryCandidate
  <2>1. now' = now
    BY <1>6 DEF TryCandidate
  <2>2. PICK bin \in Bin, sig \in Signature, legacySig \in Signature,
             o \in Outcomes(todo.deep, rescue) : Combiners(o, bin, sig, legacySig)
    BY <1>6 DEF TryCandidate
  <2>3. Kept(SoftSum(bin, sig), now)
    BY <1>1, SummedStaysKept, SameOperations DEF SoftSum
  <2>4. Kept(LegacySum(bin, legacySig), now)
    BY <1>1, SummedStaysKept, SameOperations DEF LegacySum
  <2>5. Kept(Soft!MarkedDecoded(SoftSum(bin, sig), bin, sig), now)
    <3>1. Kept(Sums!MarkedDecoded(SoftSum(bin, sig), bin, sig), now)
      BY <2>3, MarkedStaysKept
    <3> QED BY <3>1, SameOperations
  <2>6. Kept(Legacy!MarkedDecoded(LegacySum(bin, legacySig), bin, legacySig), now)
    <3>1. Kept(Sums!MarkedDecoded(LegacySum(bin, legacySig), bin, legacySig), now)
      BY <2>4, MarkedStaysKept
    <3> QED BY <3>1, SameOperations
  <2>7. Kept(softEntries', now)
    BY <2>2, <2>3, <2>5 DEF Combiners
  <2>8. Kept(legacyEntries', now)
    BY <1>4, <2>2, <2>4, <2>6 DEF Combiners
  <2> QED BY <1>1, <1>2, <2>1, <2>7, <2>8, SumsConstants
<1>7. CASE Tick
  <2>1. now' = now + 1 /\ now < Horizon /\ UNCHANGED <<softEntries, legacyEntries>>
    BY <1>7 DEF Tick
  <2>2. now' \in 0..Horizon /\ now <= now'
    BY <1>1, <2>1, SumsConstants
  <2> QED BY <1>1, <1>2, <2>1, <2>2
<1>8. CASE Step /\ ~TryCandidate
  <2>1. UNCHANGED <<softEntries, legacyEntries, now>>
    BY <1>8 DEF Step, SkipPass, NoAlternative, FindCandidates, FindNothing,
                RejectCandidate, OpenDeepBand, EndPass
  <2> QED BY <1>3, <2>1
<1>9. CASE UNCHANGED vars
  BY <1>3, <1>9 DEF vars
<1> QED BY <1>5, <1>6, <1>7, <1>8, <1>9 DEF Next

LEMMA CombinersInvariance == Spec => []CombinersInv
BY TypeInit, TypeStep, CombinersInit, CombinersStep, PTL DEF Spec

(* OnlyReceivedAudioIsSummed: the pass over the alternative residual       *)
(* leaves nothing in the combiners' sums (decoder.rs:555-559, 608-615,     *)
(* 1578-1583).                                                             *)
THEOREM ResidualIsNeverSummed == Spec => []OnlyReceivedAudioIsSummed
<1>1. ASSUME NEW e, Kept(e, now), NEW p \in Parts(e) PROVE p[2] # LastPass
  <2>1. PICK bin \in Bin : \E i \in DOMAIN e[bin] : p \in e[bin][i].parts
    BY <1>1 DEF Parts
  <2>2. e[bin] \in Seq(Sums!Entry)
    BY <1>1 DEF Kept, Sums!Sound, Sums!Buckets
  <2>3. DOMAIN e[bin] = 1..Len(e[bin])
    BY <2>2
  <2> QED BY <1>1, <2>1, <2>3 DEF Kept, Heard
<1>2. CombinersInv => OnlyReceivedAudioIsSummed
  BY <1>1 DEF CombinersInv, OnlyReceivedAudioIsSummed
<1> QED BY <1>2, CombinersInvariance, PTL

(* EntriesFarApart and SumsHaveNoGaps of both combiners: one candidate may *)
(* combine and forget, and several passes combine at one time, which no    *)
(* step of SoftCombiner alone does (decoder.rs:550-615, 771-773).          *)
THEOREM CombinersKeepTheirPromises ==
  Spec => [](/\ Soft!EntriesFarApart /\ Soft!SumsHaveNoGaps
             /\ Legacy!EntriesFarApart /\ Legacy!SumsHaveNoGaps)
<1>1. \A a, b : /\ Soft!Near(a, b) = Sums!Near(a, b)
                /\ Legacy!Near(a, b) = Sums!Near(a, b)
  BY DEF Soft!Near, Legacy!Near, Sums!Near, Soft!Hamming, Legacy!Hamming, Sums!Hamming,
         Soft!Cardinality, Legacy!Cardinality, Sums!Cardinality
<1>2. \A s : /\ Soft!Min(s) = Sums!Min(s) /\ Soft!Max(s) = Sums!Max(s)
             /\ Legacy!Min(s) = Sums!Min(s) /\ Legacy!Max(s) = Sums!Max(s)
  BY DEF Soft!Min, Soft!Max, Legacy!Min, Legacy!Max, Sums!Min, Sums!Max
<1>3. ASSUME CombinersInv PROVE Soft!EntriesFarApart /\ Legacy!EntriesFarApart
  <2>1. Sums!Sound(softEntries, now) /\ Sums!Sound(legacyEntries, now)
    BY <1>3 DEF CombinersInv, Kept
  <2> QED BY <1>1, <2>1, SumsConstants, Sums!SoundIsFarApart
          DEF Soft!EntriesFarApart, Legacy!EntriesFarApart
<1>4. ASSUME CombinersInv PROVE Soft!SumsHaveNoGaps
  <2>1. Sums!Sound(softEntries, now)
    BY <1>4 DEF CombinersInv, Kept
  <2> QED BY <1>2, <2>1, SumsConstants, Sums!SoundHasNoGaps DEF Soft!SumsHaveNoGaps
<1>5. ASSUME CombinersInv PROVE Legacy!SumsHaveNoGaps
  <2>1. Sums!Sound(legacyEntries, now)
    BY <1>5 DEF CombinersInv, Kept
  <2> QED BY <1>2, <2>1, SumsConstants, Sums!SoundHasNoGaps DEF Legacy!SumsHaveNoGaps
<1>6. CombinersInv => /\ Soft!EntriesFarApart /\ Soft!SumsHaveNoGaps
                      /\ Legacy!EntriesFarApart /\ Legacy!SumsHaveNoGaps
  BY <1>3, <1>4, <1>5
<1> QED BY <1>6, CombinersInvariance, PTL
=============================================================================
