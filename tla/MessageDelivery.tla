--------------------------- MODULE MessageDelivery ---------------------------
(***************************************************************************)
(* What a receiver of buffered messages promises its caller over a channel *)
(* that loses and repeats frames: a result is reported only for a message  *)
(* some station really sent on that stream, and never ahead of it.  A      *)
(* checksum covers the payload alone, so a result whose own text or whose  *)
(* own header was lost may join the header of one message with the payload *)
(* of a later one; that is the most the code promises, and it is stated so.*)
(***************************************************************************)
EXTENDS Integers, SequencesExt

CONSTANTS
  Channel,      \* concurrent transmissions
  BufferKey,    \* streams the receiver tells apart
  KeysOf(_),    \* the streams a channel's frames may be filed under
  Traffic,      \* the messages stations may send
  NoCommand, Placeholder

VARIABLES
  sent,        \* the messages begun on each channel and their first slots
  delivered    \* the results reported for each stream

vars == <<sent, delivered>>

(* The slot of the directed frame of a sent message: a compound message    *)
(* has a frame with the sender's call before it.                           *)
HeaderSlot(s) == s.first + (IF s.message.compound THEN 1 ELSE 0)

(* Result r bears the header of the sent message s.                        *)
BearsHeaderOf(r, s) ==
  /\ s.message.command # NoCommand
  /\ r.utc = HeaderSlot(s)
  /\ r.from = IF s.message.compound THEN Placeholder ELSE s.message.from
  /\ r.to = s.message.to
  /\ r.command = s.message.command

(* Result r may be reported for stream k.                                  *)
Genuine(k, r) ==
  \E c \in Channel : \E i \in DOMAIN sent[c] :
    /\ k \in KeysOf(c)
    /\ BearsHeaderOf(r, sent[c][i])
    /\ r.checksum = "valid" =>
         \E d \in Channel : \E j \in DOMAIN sent[d] :
           /\ k \in KeysOf(d)
           /\ d = c => i <= j
           /\ r.payload = sent[d][j].message.text

Init ==
  /\ sent = [c \in Channel |-> <<>>]
  /\ delivered = [k \in BufferKey |-> <<>>]

(* Messages begun on one channel start in ever later slots.                *)
Send(c, s) ==
  /\ s.message \in Traffic /\ s.first \in Nat
  /\ \A i \in DOMAIN sent[c] : HeaderSlot(sent[c][i]) < s.first
  /\ sent' = [sent EXCEPT ![c] = Append(@, s)]
  /\ UNCHANGED delivered

Deliver(k, r) ==
  /\ Genuine(k, r)
  /\ delivered' = [delivered EXCEPT ![k] = Append(@, r)]
  /\ UNCHANGED sent

(* What is sent or reported is read off the state the step leads to.       *)
Next ==
  \/ \E c \in Channel : sent'[c] # <<>> /\ Send(c, Last(sent'[c]))
  \/ \E k \in BufferKey : delivered'[k] # <<>> /\ Deliver(k, Last(delivered'[k]))

Spec == Init /\ [][Next]_vars
=============================================================================
