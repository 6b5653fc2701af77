---------------------------- MODULE SoftCombiner ----------------------------
(***************************************************************************)
(* The soft combiner (internal/soft_combiner.rs): log-likelihoods of weak  *)
(* candidates that look alike are summed over repeated receptions, until   *)
(* one decodes or they grow old.  A sum is represented by the parts it was *)
(* made of, a frequency and time bin by a model value, and a signature by  *)
(* the set of its one bits.                                                *)
(***************************************************************************)
EXTENDS Integers, FiniteSets, SequencesExt

CONSTANTS Bin,         \* frequency and time bins (CoarseKey)
          Signature,   \* signatures that occur
          MaxHamming,  \* MAX_HAMMING: bits two signatures of one entry may differ in
          Ttl,         \* how long an entry lives after its last part
          Part,        \* what may be summed: a reception
          TimeOf(_),   \* when it was heard
          Horizon      \* bound: time explored

ASSUME CombinerAssumption ==
  /\ \A s \in Signature : IsFiniteSet(s)
  /\ MaxHamming \in Nat /\ Ttl \in Nat /\ Horizon \in Nat
  /\ \A p \in Part : TimeOf(p) \in Nat

VARIABLES entries,  \* the bucket of each bin, empty when there is none
          now       \* the monotonic clock
combinerVars == <<entries, now>>

Hamming(a, b) == Cardinality((a \ b) \cup (b \ a))
Near(a, b) == Hamming(a, b) <= MaxHamming

NoEntries == [b \in Bin |-> <<>>]

(* Vec::retain: the entries of a bucket that are among some, in their      *)
(* order.  It is SelectSeq, written out as a function for the proofs.      *)
Retained(bucket, some) ==
  LET upTo[i \in 0..Len(bucket)] ==
        IF i = 0 THEN <<>>
        ELSE IF bucket[i] \in some THEN Append(upTo[i - 1], bucket[i])
        ELSE upTo[i - 1]
  IN  upTo[Len(bucket)]

(* Mutant: an entry lives one unit of time too long.                       *)
FlushedLate(e) ==
  [b \in Bin |-> Retained(e[b], {x \in Range(e[b]) : now - x.lastSeen <= Ttl + 1})]

Flushed(e) ==
  [b \in Bin |-> Retained(e[b], {x \in Range(e[b]) : now - x.lastSeen <= Ttl})]

(* Mutant: only an entry with the very same signature is found.            *)
FirstEqual(bucket, sig) == SelectInSeq(bucket, LAMBDA x : x.signature = sig)

(* find_entry: the first entry near a signature, zero if there is none.    *)
FindEntry(bucket, sig) == SelectInSeq(bucket, LAMBDA x : Near(sig, x.signature))

NewEntry(sig, part) == [signature |-> sig, parts |-> {part}, lastSeen |-> now]

(* combine flushes first; an entry keeps the signature it was made with.   *)
Combined(e, bin, sig, part) ==
  LET f == Flushed(e)
      i == FindEntry(f[bin], sig)
  IN  IF i = 0
      THEN [f EXCEPT ![bin] = Append(@, NewEntry(sig, part))]
      ELSE [f EXCEPT ![bin][i].parts = @ \cup {part}, ![bin][i].lastSeen = now]

(* mark_decoded forgets the entries made with that signature.              *)
MarkedDecoded(e, bin, sig) ==
  [e EXCEPT ![bin] = Retained(@, {x \in Range(@) : x.signature # sig})]

-----------------------------------------------------------------------------
Init == /\ entries = NoEntries
        /\ now = 0

Tick == /\ now < Horizon
        /\ now' = now + 1
        /\ UNCHANGED entries

Flush == /\ entries' = Flushed(entries)
         /\ UNCHANGED now

Combine(bin, sig) ==
  /\ \E p \in Part : TimeOf(p) = now /\ entries' = Combined(entries, bin, sig, p)
  /\ UNCHANGED now

MarkDecoded(bin, sig) ==
  /\ entries' = MarkedDecoded(entries, bin, sig)
  /\ UNCHANGED now

Next == \/ Tick \/ Flush
        \/ \E bin \in Bin, sig \in Signature : Combine(bin, sig) \/ MarkDecoded(bin, sig)

Spec == Init /\ [][Next]_combinerVars

-----------------------------------------------------------------------------
(* No two entries of a bin are near each other, so that a reception is     *)
(* never spread over entries that stand for the same signal.               *)
EntriesFarApart ==
  \A bin \in Bin : \A i, j \in DOMAIN entries[bin] :
    i # j => ~Near(entries[bin][i].signature, entries[bin][j].signature)

(* A sum never bridges a silence longer than Ttl: of its parts only the    *)
(* first was not heard within Ttl of an earlier one, and the last one is   *)
(* what the entry's age is measured from.                                  *)
SumsHaveNoGaps ==
  \A bin \in Bin : \A i \in DOMAIN entries[bin] :
    LET x == entries[bin][i]
        times == {TimeOf(p) : p \in x.parts}
    IN  /\ \A t \in times : t # Min(times) => \E u \in times : u \in (t - Ttl)..(t - 1)
        /\ x.lastSeen = Max(times)
=============================================================================
