----------------------------- MODULE DecodePass -----------------------------
(***************************************************************************)
(* One call of the decoder for one submode (decoder.rs): up to three       *)
(* passes over the samples, subtracting what was decoded in the first two, *)
(* and a fourth over a residual the subtraction left as an alternative.    *)
(* Each pass searches candidates in two bands, clear ones and deep ones,   *)
(* and tries to decode each (js8dec); what fails is kept in the soft       *)
(* combiners for later calls.  The signal processing is left out: which    *)
(* candidates there are, and which attempts succeed, is arbitrary.         *)
(***************************************************************************)
EXTENDS Integers, FiniteSets, SequencesExt

CONSTANTS Frame,          \* frames that may be decoded
          Snr,            \* signal reports
          Unheard,        \* a frame that was not decoded in this call
          Bin, Signature, MaxHamming, Ttl, Horizon,  \* see SoftCombiner
          Rescues,        \* rescue attempts a call may make
          RescueChecks,   \* failed parity checks that are worth a rescue
          AidedChecks,    \* failed checks that are worth an aided attempt
          Checks,         \* numbers of failed checks that occur
          MaxCandidates   \* bound: candidates of a band

ASSUME PassAssumption ==
  /\ IsFiniteSet(Frame)
  /\ Snr \subseteq Int /\ Unheard \notin Snr
  /\ Rescues \in Nat /\ MaxCandidates \in Nat
  /\ Checks \subseteq Nat /\ AidedChecks \in Nat /\ RescueChecks \in Nat
  /\ AidedChecks <= RescueChecks
  /\ \A s \in Signature : IsFiniteSet(s)
  /\ MaxHamming \in Nat /\ Ttl \in Nat /\ Horizon \in Nat

VARIABLES
  phase,     \* Idle between calls, Search before a pass, Try in it
  ipass,     \* the pass
  stalled,   \* passes before the last one are pointless
  improved,  \* this pass has found something new
  todo,      \* the band that is tried, candidates left in it and in the deep one
  sicAlt,    \* the alternative residual is kept
  rescue,    \* rescue attempts left
  decodes,   \* the report of each frame decoded in this call
  returned,  \* what the last call returned
  softEntries, legacyEntries,  \* the two soft combiners
  now,       \* the monotonic clock
  reports,   \* history: the reports emitted for each frame in this call
  saved,     \* history: an alternative was saved in this call
  retried,   \* history: it was searched
  skipped    \* history: deep candidates the last searched pass left out
passVars == <<ipass, stalled, improved, todo, sicAlt, rescue, decodes, reports,
              saved, retried, skipped>>
vars == <<phase, passVars, returned, softEntries, legacyEntries, now>>

LastPass == 4
Retry == ipass = LastPass
Subtract == ipass < 3

(* A part of a sum is the time and the pass it was heard in.               *)
Part == (0..Horizon) \X (1..LastPass)
TimeOf(p) == p[1]
ThisPart == <<now, ipass>>

Soft == INSTANCE SoftCombiner WITH entries <- softEntries
Legacy == INSTANCE SoftCombiner WITH entries <- legacyEntries

Distinct == {f \in Frame : decodes[f] # Unheard}

-----------------------------------------------------------------------------
(* js8dec: what becomes of a candidate that passes the sync gate, and the  *)
(* rescue attempts left after it.  First the summed likelihoods are tried; *)
(* for a clear candidate those of the legacy combiner follow.              *)
Outcome(ok, legacy, left) == [ok |-> ok, legacy |-> legacy, rescue |-> left]

(* The aided attempt, with a rescue of its own, for a near codeword.       *)
Aided(legacy, left, checks) ==
  {Outcome(FALSE, legacy, left)}
    \cup (IF checks \in 1..AidedChecks
          THEN {Outcome(TRUE, legacy, left)}
                 \cup (IF left > 0 THEN {Outcome(ok, legacy, left - 1) : ok \in BOOLEAN}
                                   ELSE {})
          ELSE {})

(* Mutant: a rescue is made whether or not one is left.                    *)
AfterFallbackUnbounded(legacy, left, checks) ==
  IF checks <= RescueChecks
  THEN {Outcome(TRUE, legacy, left - 1)}
         \cup UNION {Aided(legacy, left - 1, better) : better \in {c \in Checks : c <= checks}}
  ELSE Aided(legacy, left, checks)

(* The rescue, which may come closer to a codeword, then the aided attempt. *)
AfterFallback(legacy, left, checks) ==
  IF left > 0 /\ checks <= RescueChecks
  THEN {Outcome(TRUE, legacy, left - 1)}
         \cup UNION {Aided(legacy, left - 1, better) : better \in {c \in Checks : c <= checks}}
  ELSE Aided(legacy, left, checks)

Outcomes(deep, left) ==
  {Outcome(TRUE, FALSE, left)}
    \cup (IF deep THEN {} ELSE {Outcome(TRUE, TRUE, left)})
    \cup UNION {AfterFallback(~deep, left, checks) : checks \in Checks}

(* Mutant: the residual's likelihoods are summed as well.                  *)
SummedAlways(sum, flushed) == sum

(* The retry neither uses the combiner's sums nor adds to them.            *)
Summed(sum, flushed) == IF Retry THEN flushed ELSE sum

SoftSum(bin, sig) ==
  Summed(Soft!Combined(softEntries, bin, sig, ThisPart), Soft!Flushed(softEntries))

LegacySum(bin, sig) ==
  Summed(Legacy!Combined(legacyEntries, bin, sig, ThisPart), Legacy!Flushed(legacyEntries))

(* mark_decoded, in the combiners this candidate went through.             *)
Combiners(o, bin, sig, legacySig) ==
  /\ softEntries' = IF o.ok THEN Soft!MarkedDecoded(SoftSum(bin, sig), bin, sig)
                            ELSE SoftSum(bin, sig)
  /\ legacyEntries' = IF ~o.legacy THEN Legacy!Flushed(legacyEntries)
                      ELSE IF o.ok THEN Legacy!MarkedDecoded(LegacySum(bin, legacySig), bin, legacySig)
                                   ELSE LegacySum(bin, legacySig)

(* The subtraction of a decoded frame may save the other residual, once.   *)
SaveAlternative ==
  /\ sicAlt' \in (IF Subtract THEN {sicAlt, TRUE} ELSE {sicAlt})
  /\ saved' = (saved \/ sicAlt')

(* Mutant: a frame that is already known is reported each time.            *)
RecordEvery(f, snr) ==
  /\ decodes' = [decodes EXCEPT ![f] = snr]
  /\ reports' = [reports EXCEPT ![f] = Append(@, snr)]
  /\ improved' = TRUE

(* A frame is reported when it is new, and again when heard better.        *)
Record(f, snr) ==
  IF decodes[f] = Unheard \/ decodes[f] < snr
  THEN /\ decodes' = [decodes EXCEPT ![f] = snr]
       /\ reports' = [reports EXCEPT ![f] = Append(@, snr)]
       /\ improved' = TRUE
  ELSE UNCHANGED <<decodes, reports, improved>>

-----------------------------------------------------------------------------
Init == /\ phase = "Idle"
        /\ ipass = 1
        /\ stalled = FALSE /\ improved = FALSE /\ sicAlt = FALSE
        /\ todo = [deep |-> FALSE, left |-> 0, waiting |-> 0]
        /\ rescue = Rescues
        /\ decodes = [f \in Frame |-> Unheard]
        /\ returned = 0
        /\ softEntries = Soft!NoEntries /\ legacyEntries = Legacy!NoEntries
        /\ now = 0
        /\ reports = [f \in Frame |-> <<>>]
        /\ saved = FALSE /\ retried = FALSE /\ skipped = 0

(* Mutant: what one call decoded is still known in the next.               *)
KnownFromBefore == decodes

NoneDecoded == [f \in Frame |-> Unheard]

(* Mutant: the passes are not counted.                                     *)
SamePass == ipass

NextPass == ipass + 1

Tick == /\ now < Horizon
        /\ now' = now + 1
        /\ UNCHANGED <<phase, passVars, returned, softEntries, legacyEntries>>

Begin == /\ phase = "Idle"
         /\ phase' = "Search"
         /\ ipass' = 1
         /\ stalled' = FALSE /\ improved' = FALSE /\ sicAlt' = FALSE
         /\ rescue' = Rescues
         /\ decodes' = NoneDecoded
         /\ softEntries' = Soft!Flushed(softEntries)
         /\ legacyEntries' = Legacy!Flushed(legacyEntries)
         /\ reports' = [f \in Frame |-> <<>>]
         /\ saved' = FALSE /\ retried' = FALSE /\ skipped' = 0
         /\ UNCHANGED <<todo, returned, now>>

Finish == /\ phase' = "Idle"
          /\ returned' = Cardinality(Distinct)
          /\ sicAlt' = FALSE

(* A stalled call goes on to the last pass.                                *)
SkipPass == /\ phase = "Search"
            /\ stalled /\ ~Retry
            /\ ipass' = NextPass
            /\ UNCHANGED <<phase, stalled, improved, todo, sicAlt, rescue, decodes, returned,
                           softEntries, legacyEntries, now, reports, saved, retried, skipped>>

NoAlternative == /\ phase = "Search"
                 /\ Retry /\ ~sicAlt
                 /\ Finish
                 /\ UNCHANGED <<ipass, stalled, improved, todo, rescue, decodes,
                                softEntries, legacyEntries, now, reports, saved, retried, skipped>>

(* The search of a pass; the last one takes the alternative residual.      *)
Searching == /\ phase = "Search"
             /\ IF Retry THEN sicAlt ELSE ~stalled
             /\ retried' = (retried \/ Retry)
             /\ skipped' = 0

FindCandidates ==
  /\ Searching
  /\ \E clear, deep \in 0..MaxCandidates :
       /\ clear + deep > 0
       /\ todo' = [deep |-> FALSE, left |-> clear, waiting |-> deep]
  /\ phase' = "Try"
  /\ improved' = FALSE
  /\ sicAlt' = (sicAlt /\ ~Retry)
  /\ UNCHANGED <<ipass, stalled, rescue, decodes, returned, softEntries, legacyEntries, now,
                 reports, saved>>

(* Mutant: a pass without candidates ends the call.                        *)
FindNothingFinish == Finish /\ UNCHANGED <<ipass, stalled>>

FindNothingNext ==
  IF ~Retry /\ sicAlt
  THEN stalled' = TRUE /\ ipass' = NextPass /\ UNCHANGED <<phase, returned, sicAlt>>
  ELSE Finish /\ UNCHANGED <<ipass, stalled>>

FindNothing == /\ Searching
               /\ FindNothingNext
               /\ UNCHANGED <<improved, todo, rescue, decodes, softEntries, legacyEntries, now,
                              reports, saved>>

(* A candidate that fails the sync gate.                                   *)
RejectCandidate ==
  /\ phase = "Try" /\ todo.left > 0
  /\ todo' = [todo EXCEPT !.left = @ - 1]
  /\ UNCHANGED <<phase, ipass, stalled, improved, sicAlt, rescue, decodes, returned,
                 softEntries, legacyEntries, now, reports, saved, retried, skipped>>

TryCandidate ==
  /\ phase = "Try" /\ todo.left > 0
  /\ todo' = [todo EXCEPT !.left = @ - 1]
  /\ \E bin \in Bin, sig, legacySig \in Signature, o \in Outcomes(todo.deep, rescue) :
       /\ rescue' = o.rescue
       /\ Combiners(o, bin, sig, legacySig)
       /\ IF o.ok THEN SaveAlternative /\ \E f \in Frame, snr \in Snr : Record(f, snr)
                  ELSE UNCHANGED <<sicAlt, saved, decodes, reports, improved>>
  /\ UNCHANGED <<phase, ipass, stalled, returned, now, retried, skipped>>

(* Mutant: the last two passes, too, leave the deep band out.              *)
LeavesDeepBandOut == improved

SkipsDeepBand == improved /\ ipass < 3

(* The clear band is done; the deep one is searched unless the pass has    *)
(* improved and another one follows.                                       *)
OpenDeepBand ==
  /\ phase = "Try" /\ todo.left = 0 /\ ~todo.deep
  /\ todo' = [deep |-> TRUE, left |-> IF SkipsDeepBand THEN 0 ELSE todo.waiting, waiting |-> 0]
  /\ skipped' = IF SkipsDeepBand THEN todo.waiting ELSE 0
  /\ UNCHANGED <<phase, ipass, stalled, improved, sicAlt, rescue, decodes, returned,
                 softEntries, legacyEntries, now, reports, saved, retried>>

EndPass ==
  /\ phase = "Try" /\ todo.left = 0 /\ todo.deep
  /\ IF Retry \/ (~improved /\ ~sicAlt)
     THEN Finish /\ UNCHANGED <<ipass, stalled>>
     ELSE /\ phase' = "Search"
          /\ ipass' = NextPass
          /\ stalled' = (stalled \/ ~improved)
          /\ UNCHANGED <<returned, sicAlt>>
  /\ UNCHANGED <<improved, todo, rescue, decodes, softEntries, legacyEntries, now, reports,
                 saved, retried, skipped>>

Step == \/ SkipPass \/ NoAlternative \/ FindCandidates \/ FindNothing
        \/ RejectCandidate \/ TryCandidate \/ OpenDeepBand \/ EndPass

Next == Begin \/ Step \/ Tick

Spec == Init /\ [][Next]_vars

(* A call runs on its caller's thread until it is done.                    *)
FairSpec == Spec /\ WF_vars(Step)

-----------------------------------------------------------------------------
TypeOK == /\ phase \in {"Idle", "Search", "Try"}
          /\ ipass \in 1..LastPass
          /\ stalled \in BOOLEAN /\ improved \in BOOLEAN /\ sicAlt \in BOOLEAN
          /\ todo \in [deep : BOOLEAN, left : 0..MaxCandidates, waiting : 0..MaxCandidates]
          /\ rescue \in 0..Rescues
          /\ decodes \in [Frame -> Snr \cup {Unheard}]
          /\ returned \in 0..Cardinality(Frame)
          /\ saved \in BOOLEAN /\ retried \in BOOLEAN
          /\ skipped \in 0..MaxCandidates

(* In one call a frame is reported again only with a better signal report, *)
(* the last of them is the one that is kept, and the count that is         *)
(* returned is that of the frames, not of the reports.                     *)
ReportsImprove ==
  \A f \in Frame :
    /\ \A i, j \in DOMAIN reports[f] : i < j => reports[f][i] < reports[f][j]
    /\ decodes[f] = IF reports[f] = <<>> THEN Unheard ELSE Last(reports[f])

ReturnsDistinctFrames ==
  [][phase # "Idle" /\ phase' = "Idle"
       => returned' = Cardinality({f \in Frame : reports[f] # <<>>})]_vars

(* What makes the two properties after it inductive: where the residual    *)
(* and the deep candidates are between the passes of a call.               *)
SearchInv ==
  /\ retried => Retry
  /\ phase = "Idle" => (saved => retried) /\ skipped = 0
  /\ phase = "Search" => /\ ~retried
                         /\ stalled => skipped = 0
                         /\ Retry => skipped = 0
  /\ phase = "Try" => /\ Retry => retried
                      /\ skipped > 0 => improved /\ ipass < 3
                      /\ ~Retry => ~stalled
  /\ phase # "Idle" /\ saved => sicAlt \/ retried

(* A residual that was saved as an alternative is searched before the call *)
(* ends: however the passes before it went.                                *)
SavedResidualIsSearched == phase = "Idle" /\ saved => retried

(* A call does not end on a pass whose deep candidates it left out.        *)
DeepBandIsNotForgotten == phase = "Idle" => skipped = 0

(* The combiners sum what was received, never the alternative residual,    *)
(* in which a neighbouring frame may be erased.                            *)
Parts(entries) ==
  UNION {UNION {entries[bin][i].parts : i \in DOMAIN entries[bin]} : bin \in Bin}

OnlyReceivedAudioIsSummed ==
  \A p \in Parts(softEntries) \cup Parts(legacyEntries) : p[2] # LastPass

(* Every call returns.                                                     *)
CallsReturn == phase # "Idle" ~> phase = "Idle"
=============================================================================
