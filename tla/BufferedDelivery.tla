-------------------------- MODULE BufferedDelivery --------------------------
(***************************************************************************)
(* Buffered messages end to end: the frames build_message_frames makes of  *)
(* a message (src/src/varicode/mod.rs), sent one per slot, decoded by a    *)
(* receiver that may miss a frame or report it more than once, and the     *)
(* assembler of MessageBufferAssembler the decoded frames are pushed into. *)
(*                                                                         *)
(* A channel is a frequency and a submode on which one transmission at a   *)
(* time is in progress; its messages may come from different stations.     *)
(* The decoder's estimate of a frame's frequency varies within Estimates,  *)
(* and within one decode pass it emits a frame again when it finds it with *)
(* a better signal report (src/src/decoder.rs, decode).           *)
(***************************************************************************)
EXTENDS MessageBufferAssembler

CONSTANTS
  Channel,       \* concurrent transmissions
  SubmodeOf,     \* the submode of each channel
  Estimates,     \* the frequencies the decoder may report for each channel
  Traffic,       \* the messages stations may send
  FragmentLen,   \* characters one data frame holds
  MayMiss,       \* whether a slot may pass without its frame being decoded
  MaxDecodes,    \* how often one frame is reported at most
  MaxMessages,   \* messages of each channel (bound of the model)
  MayClear,      \* whether the caller ever calls clear
  Silence        \* nothing is on the air

(* A message: command NoCommand is free text, compound tells that one of   *)
(* the two calls must be sent in a frame of its own; free text names none. *)
Message == [from : Call, to : Call, command : Command, text : Text,
            compound : BOOLEAN]

Frame == [last : BOOLEAN, kind : FrameKind, from : Address, to : Address,
          command : Command, text : Text]

ASSUME ChannelAssumption ==
  /\ SubmodeOf \in [Channel -> Submode]
  /\ Estimates \in [Channel -> SUBSET Int]
  /\ Traffic \subseteq Message
  /\ \A m \in Traffic : /\ Checksum16(m.text) \in Text
                        /\ m.command = NoCommand => ~ m.compound
ASSUME FragmentAssumption == FragmentLen \in Nat \ {0}
ASSUME AirAssumption ==
  /\ MayMiss \in BOOLEAN /\ MayClear \in BOOLEAN
  /\ MaxDecodes \in Nat /\ MaxMessages \in [Channel -> Nat]
  /\ Silence \notin Frame

VARIABLES
  sent,       \* history: the messages begun on each channel, with their first slot
  queue,      \* frames of the current message not yet on the air
  onAir,      \* the frame on the air in the current slot
  slot,       \* slots of each channel so far
  decodes,    \* how often the frame on the air has been reported
  delivered   \* history: the results the caller received for each stream

airVars == <<sent, queue, onAir, slot, decodes>>
vars    == <<buffers, event, sent, queue, onAir, slot, decodes, delivered>>
-----------------------------------------------------------------------------
(* build_message_frames.                                                   *)

HeaderFrame(kind, from, to, command) ==
  [last |-> FALSE, kind |-> kind, from |-> from, to |-> to,
   command |-> command, text |-> <<>>]

Headers(m) ==
  IF m.command = NoCommand THEN <<>>
  ELSE IF m.compound
       THEN << HeaderFrame("compound", m.from, m.to, NoCommand),
               HeaderFrame("directed", Placeholder, m.to, m.command) >>
       ELSE << HeaderFrame("directed", m.from, m.to, m.command) >>

(* The text the data frames carry: a checksum is added to a payload that   *)
(* is not empty.                                                           *)
DataText(m) ==
  IF CarriesChecksum(m.to, m.command) /\ m.text # <<>>
  THEN m.text \o <<Space>> \o Checksum16(m.text)
  ELSE m.text

DataFrames(t) ==
  [i \in 1..((Len(t) + FragmentLen - 1) \div FragmentLen) |->
     [last |-> FALSE, kind |-> "data", from |-> Placeholder, to |-> Placeholder,
      command |-> NoCommand,
      text |-> SubSeq(t, (i - 1) * FragmentLen + 1, Min({i * FragmentLen, Len(t)}))]]

FramesOf(m) ==
  LET frames == Headers(m) \o DataFrames(DataText(m))
  IN  [i \in DOMAIN frames |-> [frames[i] EXCEPT !.last = (i = Len(frames))]]
-----------------------------------------------------------------------------
DecodedAt(c, f) ==
  [submode |-> SubmodeOf[c], frequency |-> f, utc |-> slot[c],
   last |-> onAir[c].last, kind |-> onAir[c].kind, from |-> onAir[c].from,
   to |-> onAir[c].to, command |-> onAir[c].command, text |-> onAir[c].text]

KeysOf(c) == {[submode |-> SubmodeOf[c], frequency_offset |-> WholeHz(f)] :
                f \in Estimates[c]}

(* The slot of channel c can end: its frame was decoded or is missed.      *)
SlotMayEnd(c) == onAir[c] = Silence \/ decodes[c] > 0 \/ MayMiss

Advance(c, frame) ==
  /\ onAir' = [onAir EXCEPT ![c] = frame]
  /\ slot' = [slot EXCEPT ![c] = @ + 1]
  /\ decodes' = [decodes EXCEPT ![c] = 0]

(* A station begins a message: its first frame goes on the air.            *)
BeginMessage(c, m) ==
  /\ queue[c] = <<>>
  /\ SlotMayEnd(c)
  /\ Len(sent[c]) < MaxMessages[c]
  /\ FramesOf(m) # <<>>
  /\ sent' = [sent EXCEPT ![c] = Append(@, [message |-> m, first |-> slot[c] + 1])]
  /\ queue' = [queue EXCEPT ![c] = Tail(FramesOf(m))]
  /\ Advance(c, Head(FramesOf(m)))
  /\ UNCHANGED <<buffers, event, delivered>>

(* The next frame of the message goes on the air.                          *)
ContinueMessage(c) ==
  /\ queue[c] # <<>>
  /\ SlotMayEnd(c)
  /\ queue' = [queue EXCEPT ![c] = Tail(@)]
  /\ Advance(c, Head(queue[c]))
  /\ UNCHANGED <<sent, buffers, event, delivered>>

(* A report of the frame on the air, which only Decode(c) makes.           *)
Report(c) ==
  /\ onAir[c] # Silence
  /\ decodes[c] < MaxDecodes
  /\ decodes' = [decodes EXCEPT ![c] = @ + 1]

(* The decoder reports the frame on the air; the caller pushes it.         *)
Decode(c) ==
  /\ Report(c)
  /\ \E d \in {DecodedAt(c, f) : f \in Estimates[c]} : PushDecoded(d)
  /\ delivered' =
       IF event'.type = "Completed"
       THEN [delivered EXCEPT ![event'.key] = Append(@, event'.result)]
       ELSE delivered
  /\ UNCHANGED <<sent, queue, onAir, slot>>

ClearBuffers ==
  /\ MayClear
  /\ Clear
  /\ UNCHANGED <<airVars, delivered>>

AirInit ==
  /\ sent = [c \in Channel |-> <<>>]
  /\ queue = [c \in Channel |-> <<>>]
  /\ onAir = [c \in Channel |-> Silence]
  /\ slot = [c \in Channel |-> 0]
  /\ decodes = [c \in Channel |-> 0]
  /\ delivered = [k \in BufferKey |-> <<>>]

BufferedInit == Init /\ AirInit

Next ==
  \/ \E c \in Channel : \/ \E m \in Traffic : BeginMessage(c, m)
                        \/ ContinueMessage(c)
                        \/ Decode(c)
  \/ ClearBuffers

Spec == BufferedInit /\ [][Next]_vars

(* The radio keeps sending what it has queued and every slot is searched.  *)
FairSpec ==
  Spec /\ \A c \in Channel : WF_vars(ContinueMessage(c)) /\ WF_decodes(Report(c))
-----------------------------------------------------------------------------
(* Properties                                                              *)

AirTypeOK ==
  /\ TypeOK
  /\ sent \in [Channel -> Seq([message : Traffic, first : Nat])]
  /\ queue \in [Channel -> Seq(Frame)]
  /\ onAir \in [Channel -> Frame \cup {Silence}]
  /\ slot \in [Channel -> Nat]
  /\ decodes \in [Channel -> Nat]
  /\ delivered \in [BufferKey -> Seq(Result)]

(* The streams no other channel's frames are filed under: those of a       *)
(* channel far enough from the others in frequency, or in another submode. *)
OwnStreams(c) == {k \in KeysOf(c) : \A b \in Channel : k \in KeysOf(b) => b = c}

(* What makes DeliveredInOrder inductive: no buffer of stream k and no     *)
(* result from one bears a slot channel c has not reached, and while the   *)
(* slot of a directed frame lasts no result bears it yet.                  *)
StreamInv(c, k) ==
  /\ buffers[k] # NoBuffer => buffers[k].utc <= slot[c]
  /\ \A i \in DOMAIN delivered[k] :
       delivered[k][i].was_buffered =>
         /\ delivered[k][i].utc <= slot[c]
         /\ onAir[c] # Silence /\ onAir[c].kind = "directed"
              => delivered[k][i].utc < slot[c]
         /\ buffers[k] # NoBuffer => delivered[k][i].utc < buffers[k].utc

InOrder(k) ==
  \A i, j \in DOMAIN delivered[k] :
    i < j /\ delivered[k][i].was_buffered /\ delivered[k][j].was_buffered
      => delivered[k][i].utc < delivered[k][j].utc

(* The results of a channel's own stream that came from a buffer, by the   *)
(* slot in which the header that opened it was heard, never repeat a       *)
(* header and never go back to an older one, whatever frames are missed,   *)
(* reported twice or reported at a drifting frequency, and whatever other  *)
(* channels do (MessageBufferAssembler::push_decoded removes a buffer as   *)
(* it completes and replaces it at a new header).                          *)
DeliveredInOrder ==
  \A c \in Channel : \A k \in OwnStreams(c) : InOrder(k)

(* The inductive invariant behind DeliveredInOrder.                        *)
DeliveryInv ==
  /\ AirTypeOK
  /\ \A c \in Channel : \A k \in OwnStreams(c) : StreamInv(c, k) /\ InOrder(k)

(* What the receiver promises, as a specification of its own: whatever is  *)
(* lost, repeated or filed under a neighbouring stream, no result is made  *)
(* up (finalize_buffered_payload drops a payload whose checksum fails).    *)
Promise == INSTANCE MessageDelivery
Delivery == Promise!Spec

(* The remaining properties are about a receiver that decodes every frame  *)
(* once and at a steady frequency: the stream of a channel is then one.    *)
StreamOf(c) == CHOOSE k \in KeysOf(c) : TRUE

ResultOf(s) ==
  LET m == s.message IN
  [from |-> IF m.compound THEN Placeholder ELSE m.from,
   to |-> m.to, command |-> m.command, payload |-> m.text,
   checksum |-> IF m.text # <<>> /\ CarriesChecksum(m.to, m.command)
                THEN "valid" ELSE "none",
   utc |-> s.first + (IF m.compound THEN 1 ELSE 0),
   was_buffered |-> m.text # <<>>]

(* The messages of channel c whose frames have all been decoded.           *)
Received(c) ==
  IF queue[c] = <<>> /\ decodes[c] > 0 THEN sent[c]
  ELSE IF sent[c] = <<>> THEN <<>> ELSE Front(sent[c])

IsDirected(m) == m.command # NoCommand

(* The results are those of the directed ones of the messages, each once   *)
(* and in their order: the n-th is that of the message at its place.       *)
AreTheResultsOf(results, messages) ==
  \E place \in [DOMAIN results -> DOMAIN messages] :
    /\ \A i, j \in DOMAIN results : i < j => place[i] < place[j]
    /\ \A n \in DOMAIN messages :
         IsDirected(messages[n].message) <=> \E i \in DOMAIN results : place[i] = n
    /\ \A i \in DOMAIN results : results[i] = ResultOf(messages[place[i]])

(* Channels do not disturb each other and no message is lost, repeated or  *)
(* altered: each stream has reported exactly the commands received on its  *)
(* channel, as they were sent and in that order, however the frames of the *)
(* channels interleave (one buffer per BufferKey in push_decoded).         *)
ExactDelivery ==
  \A c \in Channel : AreTheResultsOf(delivered[StreamOf(c)], Received(c))

(* What that asks of the constants.  The receiver hears every frame once,  *)
(* each channel at one whole hertz of its own.                             *)
HearsAllOnce ==
  /\ ~ MayMiss /\ ~ MayClear /\ MaxDecodes <= 1
  /\ \A c \in Channel : \A k, l \in KeysOf(c) : k = l
  /\ \A b, c \in Channel : KeysOf(b) \cap KeysOf(c) # {} => b = c
  /\ \A c \in Channel : KeysOf(c) # {}

(* And of a command with a payload: it is a buffered one, the text of its  *)
(* data frames is not set in spaces (the receiver trims them off), and the *)
(* checksum has the length that is cut off.  A command without one is      *)
(* complete with its directed frame (handle_directed).                     *)
Deliverable ==
  \A m \in Traffic : IsDirected(m) =>
    IF m.text = <<>>
    THEN m.command \in BufferedCommand =>
           ~ m.compound /\ Placeholder \notin {m.from, m.to}
    ELSE /\ m.command \in BufferedCommand
         /\ DataText(m)[Len(DataText(m))] # Space
         /\ CarriesChecksum(m.to, m.command) =>
              m.text[1] # Space /\ Len(Checksum16(m.text)) = ChecksumLen

(* A message that is begun is reported in the end: its last frame closes   *)
(* the buffer its header opened.                                           *)
EveryMessageReported ==
  \A c \in Channel : \A n \in 1..MaxMessages[c] :
    Len(sent[c]) = n ~>
      Len(delivered[StreamOf(c)])
          >= Quantify(1..Min({n, Len(sent[c])}), LAMBDA i : IsDirected(sent[c][i].message))

(* A command without a payload is complete with its directed frame, which  *)
(* is then the last one (test empty_cmds, src/src/rx/reassembly.rs:438:    *)
(* "empty {cmd} did not complete").                                        *)
EmptyCommandCompletes ==
  [][\A c \in Channel :
       Decode(c) /\ onAir[c].kind = "directed" /\ onAir[c].last
         => event'.type = "Completed"]_vars
=============================================================================
