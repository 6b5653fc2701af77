---------------------- MODULE BufferedDeliveryProofs ----------------------
(***************************************************************************)
(* Proofs about BufferedDelivery, for any number of channels, any traffic  *)
(* and any lengths of messages.  Whatever frames are missed, repeated or   *)
(* filed under a neighbouring stream: types, the order of the buffered     *)
(* results of a stream, what each result is assembled from, and that the   *)
(* receiver implements MessageDelivery.  For a receiver that hears every   *)
(* frame once: every command is reported exactly as it was sent.           *)
(***************************************************************************)
EXTENDS BufferedDelivery, SequenceTheorems, ArithmeticLemmas

-----------------------------------------------------------------------------
(* The text operators return text.                                         *)

LEMMA NonSpaceIndices ==
  ASSUME NEW t \in Text
  PROVE  /\ SelectLastInSeq(t, NotSpace) \in 0..Len(t)
         /\ SelectInSeq(t, NotSpace) \in 0..Len(t)
<1> DEFINE I == {i \in 1..Len(t) : NotSpace(t[i])}
<1>1. Len(t) \in Nat
  BY DEF Text
<1>2. SelectLastInSeq(t, NotSpace) = IF I # {} THEN Max(I) ELSE 0
  BY DEF SelectLastInSeq
<1>3. SelectInSeq(t, NotSpace) = IF I # {} THEN Min(I) ELSE 0
  BY DEF SelectInSeq
<1>4. CASE I = {}
  BY <1>1, <1>2, <1>3, <1>4
<1>5. CASE I # {}
  <2>1. I \in SUBSET (0..Len(t)) /\ I \in SUBSET Nat
    BY <1>1
  <2>2. Max(I) \in I
    BY <1>1, <1>5, <2>1, NaturalMaximum DEF Max
  <2>3. Min(I) \in I
    BY <1>5, <2>1, NaturalMinimum DEF Min
  <2> QED BY <1>2, <1>3, <1>5, <2>1, <2>2, <2>3
<1> QED BY <1>4, <1>5

LEMMA TrimType ==
  ASSUME NEW t \in Text
  PROVE  TrimRight(t) \in Text /\ TrimLeft(t) \in Text
<1>1. Len(t) \in Nat /\ \A i \in 1..Len(t) : t[i] \in Char
  BY DEF Text
<1>2. TrimRight(t) \in Seq(Char)
  BY <1>1, NonSpaceIndices, SubSeqProperties DEF TrimRight
<1>3. TrimLeft(t) \in Seq(Char)
  <2> DEFINE first == SelectInSeq(t, NotSpace)
  <2>1. first \in 0..Len(t)
    BY NonSpaceIndices
  <2>2. CASE first = 0
    BY <2>2 DEF TrimLeft
  <2>3. CASE first # 0
    <3>1. SubSeq(t, first, Len(t)) \in Seq(Char)
      BY <1>1, <2>1, <2>3, SubSeqProperties
    <3> QED BY <2>3, <3>1 DEF TrimLeft
  <2> QED BY <2>2, <2>3
<1> QED BY <1>2, <1>3 DEF Text

LEMMA FinalizeType ==
  ASSUME NEW to, NEW command, NEW t \in Text
  PROVE  FinalizeBufferedPayload(to, command, t) \in
           [payload : Text, checksum : {"none", "valid", "invalid"}]
<1> DEFINE message == TrimLeft(t)
           n == Len(message) - ChecksumLen - 1
<1>1. message \in Seq(Char)
  BY TrimType DEF Text
<1>2. n \in Int /\ n <= Len(message) /\ \A i \in 1..Len(message) : message[i] \in Char
  BY <1>1, TextAssumption
<1>3. SubSeq(message, 1, n) \in Seq(Char)
  BY <1>2, SubSeqProperties
<1>4. QED
  BY <1>1, <1>3 DEF FinalizeBufferedPayload, Text

LEMMA WholeHzType ==
  ASSUME NEW f \in Int
  PROVE  WholeHz(f) \in 0..MaxHz
<1>1. f >= 0 => f \div HzUnit \in Nat
  BY HzAssumption, DivMod
<1> QED BY <1>1, HzAssumption DEF WholeHz

LEMMA MinPair ==
  ASSUME NEW a \in Int, NEW b \in Int
  PROVE  Min({a, b}) \in Int /\ Min({a, b}) <= a /\ Min({a, b}) <= b
<1>1. \E x \in {a, b} : \A y \in {a, b} : x <= y
  OBVIOUS
<1> QED BY <1>1 DEF Min

LEMMA DataFramesType ==
  ASSUME NEW t \in Text
  PROVE  DataFrames(t) \in Seq(Frame)
<1> DEFINE n == (Len(t) + FragmentLen - 1) \div FragmentLen
           fragment(i) == SubSeq(t, (i - 1) * FragmentLen + 1,
                                    Min({i * FragmentLen, Len(t)}))
<1>1. Len(t) \in Nat /\ \A j \in 1..Len(t) : t[j] \in Char
  BY DEF Text
<1>2. n \in Nat
  BY <1>1, FragmentAssumption, DivMod
<1>3. ASSUME NEW i \in 1..n PROVE fragment(i) \in Text
  <2> DEFINE lo == (i - 1) * FragmentLen + 1
             up == i * FragmentLen
             hi == Min({up, Len(t)})
  <2>1. lo \in Nat \ {0} /\ up \in Nat
    BY <1>2, FragmentAssumption
  <2> HIDE DEF n, lo, up
  <2>2. hi \in Int /\ hi <= Len(t)
    <3>1. up \in Int /\ Len(t) \in Int
      BY <1>1, <2>1
    <3> QED BY <3>1, MinPair, Zenon
  <2> HIDE DEF hi
  <2>3. SubSeq(t, lo, hi) \in Seq(Char)
    BY <1>1, <2>1, <2>2, SubSeqProperties
  <2> QED BY <2>3 DEF Text, lo, up, hi
<1>4. ASSUME NEW i \in 1..n PROVE DataFrames(t)[i] \in Frame
  BY <1>3, CommandAssumption DEF DataFrames, Frame, FrameKind, Address
<1>5. DataFrames(t) \in [1..n -> Frame]
  BY <1>4 DEF DataFrames
<1> QED BY <1>2, <1>5, SeqDef

LEMMA DataFrameKind ==
  ASSUME NEW t \in Text, NEW i \in 1..Len(DataFrames(t))
  PROVE  DataFrames(t)[i].kind = "data"
<1>1. DOMAIN DataFrames(t) = 1..Len(DataFrames(t))
  BY DataFramesType, LenProperties
<1> QED BY <1>1 DEF DataFrames

LEMMA PartsType ==
  ASSUME NEW m \in Traffic
  PROVE  DataText(m) \in Text /\ Headers(m) \in Seq(Frame)
<1>1. m \in Message /\ Checksum16(m.text) \in Text
  BY ChannelAssumption
<1>2. DataText(m) \in Text
  <2>1. m.text \in Seq(Char) /\ <<Space>> \in Seq(Char) /\ Checksum16(m.text) \in Seq(Char)
    BY <1>1, TextAssumption DEF Message, Text
  <2>2. m.text \o <<Space>> \o Checksum16(m.text) \in Seq(Char)
    BY <2>1, ConcatProperties
  <2> QED BY <2>1, <2>2 DEF DataText, Text
<1>3. Headers(m) \in Seq(Frame)
  <2>1. <<>> \in Text
    BY DEF Text
  <2>2. ASSUME NEW kind \in FrameKind, NEW from \in Address, NEW to \in Address,
               NEW command \in Command
        PROVE  HeaderFrame(kind, from, to, command) \in Frame
    BY <2>1 DEF HeaderFrame, Frame
  <2>3. /\ m.from \in Address /\ m.to \in Address /\ Placeholder \in Address
        /\ m.command \in Command /\ NoCommand \in Command
        /\ "directed" \in FrameKind /\ "compound" \in FrameKind
    BY <1>1, CommandAssumption DEF Message, Address, FrameKind
  <2>4. /\ HeaderFrame("compound", m.from, m.to, NoCommand) \in Frame
        /\ HeaderFrame("directed", Placeholder, m.to, m.command) \in Frame
        /\ HeaderFrame("directed", m.from, m.to, m.command) \in Frame
    BY <2>2, <2>3
  <2> QED BY <2>4 DEF Headers
<1> QED BY <1>2, <1>3

LEMMA FramesType ==
  ASSUME NEW m \in Traffic
  PROVE  FramesOf(m) \in Seq(Frame)
<1> DEFINE frames == Headers(m) \o DataFrames(DataText(m))
<1>4. frames \in Seq(Frame)
  BY PartsType, DataFramesType, ConcatProperties
<1>5. FramesOf(m) = [i \in DOMAIN frames |-> [frames[i] EXCEPT !.last = (i = Len(frames))]]
  BY DEF FramesOf
<1> HIDE DEF frames
<1>6. Len(frames) \in Nat /\ DOMAIN frames = 1..Len(frames)
  BY <1>4, LenProperties
<1>7. ASSUME NEW i \in 1..Len(frames)
      PROVE  [frames[i] EXCEPT !.last = (i = Len(frames))] \in Frame
  <2>1. frames[i] \in Frame
    BY <1>4, ElementOfSeq
  <2> QED BY <2>1 DEF Frame
<1>8. FramesOf(m) \in [1..Len(frames) -> Frame]
  BY <1>5, <1>6, <1>7
<1> QED BY <1>6, <1>8, SeqDef
-----------------------------------------------------------------------------
(* Type correctness.                                                       *)

LEMMA KeyType ==
  ASSUME NEW d \in Decoded
  PROVE  KeyOf(d) \in BufferKey
<1>1. d.submode \in Submode /\ d.frequency \in Int
  BY DEF Decoded
<1>2. WholeHz(d.frequency) \in 0..MaxHz
  BY <1>1, WholeHzType
<1> QED BY <1>1, <1>2 DEF KeyOf, BufferKey

LEMMA FinishType ==
  ASSUME NEW k \in BufferKey, NEW b \in BufferState
  PROVE  /\ FinishState(k, b) \in Event
         /\ FinishState(k, b).type = "Completed" =>
              /\ FinishState(k, b).key = k
              /\ FinishState(k, b).result \in Result
              /\ FinishState(k, b).result.was_buffered
              /\ FinishState(k, b).result.utc = b.utc
<1> DEFINE done == FinalizeBufferedPayload(b.to, b.command, TrimRight(b.text))
<1>1. TrimRight(b.text) \in Text
  BY TrimType DEF BufferState
<1>2. done \in [payload : Text, checksum : {"none", "valid", "invalid"}]
  BY <1>1, FinalizeType
<1> HIDE DEF done
<1> DEFINE result == [from |-> b.from, to |-> b.to, command |-> b.command,
                      payload |-> done.payload, checksum |-> done.checksum,
                      utc |-> b.utc, was_buffered |-> TRUE]
<1>3. CASE done.checksum = "invalid"
  <2>1. FinishState(k, b) = [type |-> "DroppedInvalidChecksum", key |-> k]
    BY <1>3 DEF FinishState, done
  <2> QED BY <2>1 DEF Event
<1>4. CASE done.checksum # "invalid"
  <2>1. FinishState(k, b) = [type |-> "Completed", key |-> k, result |-> result]
    BY <1>4 DEF FinishState, done
  <2>2. result \in Result
    BY <1>2, <1>4 DEF Result, BufferState
  <2> QED BY <2>1, <2>2 DEF Event
<1> QED BY <1>3, <1>4

LEMMA PushType ==
  ASSUME NEW d \in Decoded, TypeOK, PushDecoded(d)
  PROVE  TypeOK'
<1> DEFINE k == KeyOf(d)
<1>1. k \in BufferKey
  BY KeyType
<1> HIDE DEF k
<1>2. CASE StartBuffer(d)
  <2>1. [from |-> d.from, to |-> d.to, command |-> d.command,
         utc |-> d.utc, text |-> <<>>] \in BufferState
    BY DEF Decoded, BufferState, Text
  <2>2. buffers' \in [BufferKey -> BufferState \cup {NoBuffer}]
    BY <1>1, <1>2, <2>1 DEF StartBuffer, TypeOK, k
  <2>3. event' \in Event
    BY <1>1, <1>2 DEF StartBuffer, Event, k
  <2> QED BY <2>2, <2>3 DEF TypeOK
<1>3. CASE CompleteDirected(d)
  <2>1. [from |-> d.from, to |-> d.to, command |-> d.command,
         payload |-> d.text, checksum |-> "none",
         utc |-> d.utc, was_buffered |-> FALSE] \in Result
    BY DEF Decoded, Result
  <2>2. event' \in Event
    BY <1>1, <1>3, <2>1 DEF CompleteDirected, Event, k
  <2> QED BY <1>3, <2>2 DEF CompleteDirected, TypeOK
<1>4. CASE IgnoreFrame(d)
  BY <1>4 DEF IgnoreFrame, TypeOK, Event
<1>5. CASE AppendFragment(d)
  <2>1. buffers[k] \in BufferState
    BY <1>1, <1>5 DEF AppendFragment, TypeOK, k
  <2>2. buffers[k].text \in Seq(Char) /\ d.text \in Seq(Char)
    BY <2>1 DEF BufferState, Decoded, Text
  <2>3. buffers[k].text \o d.text \in Seq(Char)
    BY <2>2, ConcatProperties
  <2>4. [buffers[k] EXCEPT !.text = @ \o d.text] \in BufferState
    BY <2>1, <2>3 DEF BufferState, Text
  <2>5. buffers' = [buffers EXCEPT ![k] = [buffers[k] EXCEPT !.text = @ \o d.text]]
    BY <1>5 DEF AppendFragment, k
  <2>6. event' \in Event
    BY <1>1, <1>5 DEF AppendFragment, Event, k
  <2> QED BY <1>1, <2>4, <2>5, <2>6 DEF TypeOK
<1>6. CASE FinishBuffer(d)
  <2>1. buffers[k] \in BufferState
    BY <1>1, <1>6 DEF FinishBuffer, TypeOK, k
  <2>2. buffers[k].text \in Seq(Char) /\ d.text \in Seq(Char)
    BY <2>1 DEF BufferState, Decoded, Text
  <2>3. buffers[k].text \o d.text \in Seq(Char)
    BY <2>2, ConcatProperties
  <2>4. [buffers[k] EXCEPT !.text = @ \o d.text] \in BufferState
    BY <2>1, <2>3 DEF BufferState, Text
  <2>5. event' \in Event
    BY <1>1, <1>6, <2>4, FinishType DEF FinishBuffer, k
  <2>6. buffers' \in [BufferKey -> BufferState \cup {NoBuffer}]
    BY <1>6 DEF FinishBuffer, TypeOK
  <2> QED BY <2>5, <2>6 DEF TypeOK
<1> QED BY <1>2, <1>3, <1>4, <1>5, <1>6 DEF PushDecoded

LEMMA DecodedType ==
  ASSUME AirTypeOK, NEW c \in Channel, onAir[c] # Silence, NEW f \in Estimates[c]
  PROVE  /\ DecodedAt(c, f) \in Decoded
         /\ DecodedAt(c, f).kind = onAir[c].kind
         /\ DecodedAt(c, f).utc = slot[c]
         /\ KeyOf(DecodedAt(c, f)) \in KeysOf(c)
<1>1. onAir[c] \in Frame /\ slot[c] \in Nat
  BY DEF AirTypeOK
<1>2. f \in Int /\ SubmodeOf[c] \in Submode
  BY ChannelAssumption
<1> QED BY <1>1, <1>2 DEF DecodedAt, Decoded, Frame, KeyOf, KeysOf

LEMMA AirTypeInit == BufferedInit => AirTypeOK
<1> SUFFICES ASSUME BufferedInit PROVE AirTypeOK
  OBVIOUS
<1>1. TypeOK
  BY DEF BufferedInit, Init, TypeOK, Event
<1>2. \A S : <<>> \in Seq(S)
  BY EmptySeq
<1> QED BY <1>1, <1>2 DEF BufferedInit, AirInit, AirTypeOK

LEMMA AdvanceType ==
  ASSUME AirTypeOK, NEW c \in Channel, NEW frame \in Frame, Advance(c, frame)
  PROVE  /\ onAir' \in [Channel -> Frame \cup {Silence}]
         /\ slot' \in [Channel -> Nat]
         /\ decodes' \in [Channel -> Nat]
<1>1. slot[c] + 1 \in Nat
  BY DEF AirTypeOK
<1> QED BY <1>1 DEF Advance, AirTypeOK

LEMMA AirTypeStep == AirTypeOK /\ [Next]_vars => AirTypeOK'
<1> SUFFICES ASSUME AirTypeOK, [Next]_vars PROVE AirTypeOK'
  OBVIOUS
<1>1. ASSUME NEW c \in Channel, NEW m \in Traffic, BeginMessage(c, m) PROVE AirTypeOK'
  <2>1. FramesOf(m) \in Seq(Frame) /\ FramesOf(m) # <<>>
    BY <1>1, FramesType DEF BeginMessage
  <2>2. Head(FramesOf(m)) \in Frame /\ Tail(FramesOf(m)) \in Seq(Frame)
    BY <2>1, HeadTailProperties
  <2>3. [message |-> m, first |-> slot[c] + 1] \in [message : Traffic, first : Nat]
    <3>1. slot[c] \in Nat
      BY DEF AirTypeOK
    <3> QED BY <3>1
  <2>4. Append(sent[c], [message |-> m, first |-> slot[c] + 1])
          \in Seq([message : Traffic, first : Nat])
    <3>1. sent[c] \in Seq([message : Traffic, first : Nat])
      BY DEF AirTypeOK
    <3> QED BY <2>3, <3>1, AppendProperties
  <2>5. Advance(c, Head(FramesOf(m)))
    BY <1>1 DEF BeginMessage
  <2>6. /\ onAir' \in [Channel -> Frame \cup {Silence}]
        /\ slot' \in [Channel -> Nat]
        /\ decodes' \in [Channel -> Nat]
    BY <2>2, <2>5, AdvanceType
  <2>7. sent' \in [Channel -> Seq([message : Traffic, first : Nat])]
    BY <1>1, <2>4 DEF BeginMessage, AirTypeOK
  <2>8. queue' \in [Channel -> Seq(Frame)]
    BY <1>1, <2>2 DEF BeginMessage, AirTypeOK
  <2>9. TypeOK' /\ delivered' \in [BufferKey -> Seq(Result)]
    BY <1>1 DEF BeginMessage, AirTypeOK, TypeOK
  <2> QED BY <2>6, <2>7, <2>8, <2>9 DEF AirTypeOK
<1>2. ASSUME NEW c \in Channel, ContinueMessage(c) PROVE AirTypeOK'
  <2>1. queue[c] \in Seq(Frame) /\ queue[c] # <<>>
    BY <1>2 DEF ContinueMessage, AirTypeOK
  <2>2. Head(queue[c]) \in Frame /\ Tail(queue[c]) \in Seq(Frame)
    BY <2>1, HeadTailProperties
  <2>3. Advance(c, Head(queue[c]))
    BY <1>2 DEF ContinueMessage
  <2>4. /\ onAir' \in [Channel -> Frame \cup {Silence}]
        /\ slot' \in [Channel -> Nat]
        /\ decodes' \in [Channel -> Nat]
    BY <2>2, <2>3, AdvanceType
  <2>5. queue' \in [Channel -> Seq(Frame)]
    BY <1>2, <2>2 DEF ContinueMessage, AirTypeOK
  <2> QED BY <1>2, <2>4, <2>5 DEF ContinueMessage, AirTypeOK, TypeOK
<1>3. ASSUME NEW c \in Channel, Decode(c) PROVE AirTypeOK'
  <2>1. PICK f \in Estimates[c] : PushDecoded(DecodedAt(c, f))
    BY <1>3 DEF Decode
  <2>2. onAir[c] # Silence
    BY <1>3 DEF Decode, Report
  <2>3. TypeOK'
    BY <2>1, <2>2, DecodedType, PushType DEF AirTypeOK
  <2>4. delivered' \in [BufferKey -> Seq(Result)]
    <3>1. CASE event'.type = "Completed"
      <4>1. event'.key \in BufferKey /\ event'.result \in Result
        BY <2>3, <3>1 DEF TypeOK, Event, NoEvent
      <4>2. Append(delivered[event'.key], event'.result) \in Seq(Result)
        BY <4>1, AppendProperties DEF AirTypeOK
      <4> QED BY <1>3, <3>1, <4>1, <4>2 DEF Decode, AirTypeOK
    <3>2. CASE event'.type # "Completed"
      BY <1>3, <3>2 DEF Decode, AirTypeOK
    <3> QED BY <3>1, <3>2
  <2>5. decodes' \in [Channel -> Nat]
    <3>1. decodes[c] + 1 \in Nat
      BY DEF AirTypeOK
    <3> QED BY <1>3, <3>1 DEF Decode, Report, AirTypeOK
  <2> QED BY <1>3, <2>3, <2>4, <2>5 DEF Decode, AirTypeOK
<1>4. ASSUME ClearBuffers PROVE AirTypeOK'
  BY <1>4 DEF ClearBuffers, Clear, airVars, AirTypeOK, TypeOK, Event
<1>5. ASSUME UNCHANGED vars PROVE AirTypeOK'
  BY <1>5 DEF vars, AirTypeOK, TypeOK
<1> QED BY <1>1, <1>2, <1>3, <1>4, <1>5 DEF Next

(* Every reachable state is well typed: what the assembler stores and      *)
(* reports for any frames are buffers and results of the declared shape.   *)
THEOREM TypeCorrect == Spec => []AirTypeOK
<1>1. BufferedInit => AirTypeOK
  BY AirTypeInit
<1>2. AirTypeOK /\ [Next]_vars => AirTypeOK'
  BY AirTypeStep
<1> QED BY <1>1, <1>2, PTL DEF Spec
-----------------------------------------------------------------------------
(* The order of the results of a stream.                                   *)

(* A decode reports nothing, or one result at its own stream: the one      *)
(* whole frame it is, or the buffer it closes.                             *)
LEMMA DecodeCases ==
  ASSUME AirTypeOK, NEW c \in Channel, Decode(c)
  PROVE  \E k \in KeysOf(c) \cap BufferKey :
           /\ \A j \in BufferKey \ {k} :
                buffers'[j] = buffers[j] /\ delivered'[j] = delivered[j]
           /\ \/ /\ onAir[c].kind = "directed"
                 /\ buffers'[k] # NoBuffer
                 /\ buffers'[k].utc = slot[c]
                 /\ delivered'[k] = delivered[k]
              \/ \E r \in Result :
                   /\ ~ r.was_buffered
                   /\ buffers'[k] = buffers[k]
                   /\ delivered'[k] = Append(delivered[k], r)
              \/ /\ buffers[k] = NoBuffer => buffers'[k] = NoBuffer
                 /\ buffers'[k] # NoBuffer => buffers'[k].utc = buffers[k].utc
                 /\ delivered'[k] = delivered[k]
              \/ \E r \in Result :
                   /\ onAir[c].kind = "data"
                   /\ buffers[k] # NoBuffer
                   /\ buffers'[k] = NoBuffer
                   /\ r.was_buffered
                   /\ r.utc = buffers[k].utc
                   /\ delivered'[k] = Append(delivered[k], r)
<1>1. onAir[c] # Silence
  BY DEF Decode, Report
<1>2. PICK f \in Estimates[c] : PushDecoded(DecodedAt(c, f))
  BY DEF Decode
<1> DEFINE d == DecodedAt(c, f)
           k == KeyOf(d)
<1>3. /\ d \in Decoded /\ d.kind = onAir[c].kind /\ d.utc = slot[c]
      /\ k \in KeysOf(c) /\ k \in BufferKey
  BY <1>1, DecodedType, KeyType
<1>4. PushDecoded(d) /\ TypeOK
  BY <1>2 DEF AirTypeOK
<1>5. delivered' = IF event'.type = "Completed"
                   THEN [delivered EXCEPT ![event'.key] = Append(@, event'.result)]
                   ELSE delivered
  BY DEF Decode
<1>6. /\ buffers \in [BufferKey -> BufferState \cup {NoBuffer}]
      /\ delivered \in [BufferKey -> Seq(Result)]
  BY DEF AirTypeOK, TypeOK
<1> HIDE DEF d
<1> k \in KeysOf(c) \cap BufferKey
  BY <1>3
<1> WITNESS k \in KeysOf(c) \cap BufferKey
<1>7. CASE StartBuffer(d)
  <2>1. event'.type # "Completed"
    BY <1>7 DEF StartBuffer
  <2> DEFINE b == [from |-> d.from, to |-> d.to, command |-> d.command,
                   utc |-> d.utc, text |-> <<>>]
  <2>2. b \in BufferState /\ b.utc = d.utc
    BY <1>3 DEF Decoded, BufferState, Text
  <2>3. buffers' = [buffers EXCEPT ![k] = b]
    BY <1>7 DEF StartBuffer
  <2>4. onAir[c].kind = "directed"
    BY <1>3, <1>7 DEF StartBuffer
  <2> HIDE DEF b, k
  <2> QED BY <1>3, <1>5, <1>6, <2>1, <2>2, <2>3, <2>4, BufferAssumption
<1>8. CASE CompleteDirected(d)
  <2> DEFINE r == [from |-> d.from, to |-> d.to, command |-> d.command,
                   payload |-> d.text, checksum |-> "none",
                   utc |-> d.utc, was_buffered |-> FALSE]
  <2>1. r \in Result /\ ~ r.was_buffered
    BY <1>3 DEF Decoded, Result
  <2>2. event'.type = "Completed" /\ event'.key = k /\ event'.result = r
    BY <1>8 DEF CompleteDirected
  <2>3. buffers' = buffers
    BY <1>8 DEF CompleteDirected
  <2> HIDE DEF r, k
  <2> QED BY <1>3, <1>5, <1>6, <2>1, <2>2, <2>3
<1>9. CASE IgnoreFrame(d)
  BY <1>5, <1>9 DEF IgnoreFrame, NoEvent
<1>10. CASE AppendFragment(d)
  <2>1. event'.type # "Completed"
    BY <1>10 DEF AppendFragment
  <2>2. buffers[k] \in BufferState /\ buffers[k] # NoBuffer
    BY <1>3, <1>6, <1>10 DEF AppendFragment
  <2>3. buffers' = [buffers EXCEPT ![k] = [buffers[k] EXCEPT !.text = @ \o d.text]]
    BY <1>10 DEF AppendFragment
  <2>4. [buffers[k] EXCEPT !.text = @ \o d.text].utc = buffers[k].utc
    BY <2>2 DEF BufferState
  <2> HIDE DEF k
  <2> QED BY <1>3, <1>5, <1>6, <2>1, <2>2, <2>3, <2>4
<1>11. CASE FinishBuffer(d)
  <2>1. buffers[k] \in BufferState /\ buffers[k] # NoBuffer
    BY <1>3, <1>6, <1>11 DEF FinishBuffer
  <2> DEFINE b == [buffers[k] EXCEPT !.text = @ \o d.text]
  <2>2. b \in BufferState /\ b.utc = buffers[k].utc
    <3>1. buffers[k].text \in Seq(Char) /\ d.text \in Seq(Char)
      BY <1>3, <2>1 DEF BufferState, Decoded, Text
    <3>2. buffers[k].text \o d.text \in Seq(Char)
      BY <3>1, ConcatProperties
    <3> QED BY <2>1, <3>2 DEF BufferState, Text
  <2>3. event' = FinishState(k, b)
    BY <1>11 DEF FinishBuffer
  <2>4. /\ buffers' = [buffers EXCEPT ![k] = NoBuffer]
        /\ onAir[c].kind = "data"
    BY <1>3, <1>11 DEF FinishBuffer
  <2>5. CASE event'.type = "Completed"
    <3>1. /\ event'.key = k /\ event'.result \in Result
          /\ event'.result.was_buffered /\ event'.result.utc = buffers[k].utc
      BY <1>3, <2>2, <2>3, <2>5, FinishType
    <3> HIDE DEF b, k
    <3> QED BY <1>3, <1>5, <1>6, <2>1, <2>4, <2>5, <3>1
  <2>6. CASE event'.type # "Completed"
    <3> HIDE DEF b, k
    <3> QED BY <1>3, <1>5, <1>6, <2>1, <2>4, <2>6
  <2> QED BY <2>5, <2>6
<1> QED BY <1>4, <1>7, <1>8, <1>9, <1>10, <1>11 DEF PushDecoded

LEMMA AppendResult ==
  ASSUME NEW s \in Seq(Result), NEW r \in Result
  PROVE  /\ Len(s) \in Nat
         /\ DOMAIN s = 1..Len(s)
         /\ DOMAIN Append(s, r) = 1..(Len(s) + 1)
         /\ \A i \in 1..Len(s) : Append(s, r)[i] = s[i]
         /\ Append(s, r)[Len(s) + 1] = r
<1>1. DOMAIN s = 1..Len(s) /\ Len(s) \in Nat
  BY LenProperties
<1>2. Append(s, r) \in Seq(Result) /\ Len(Append(s, r)) = Len(s) + 1
  BY AppendProperties
<1>3. DOMAIN Append(s, r) = 1..(Len(s) + 1)
  BY <1>2, LenProperties
<1> QED BY <1>1, <1>3, AppendProperties

LEMMA StreamInvOfDecode ==
  ASSUME AirTypeOK, AirTypeOK', NEW c \in Channel, Decode(c),
         NEW k \in KeysOf(c) \cap BufferKey,
         StreamInv(c, k), InOrder(k),
         \/ /\ onAir[c].kind = "directed"
            /\ buffers'[k] # NoBuffer
            /\ buffers'[k].utc = slot[c]
            /\ delivered'[k] = delivered[k]
         \/ \E r \in Result :
              /\ ~ r.was_buffered
              /\ buffers'[k] = buffers[k]
              /\ delivered'[k] = Append(delivered[k], r)
         \/ /\ buffers[k] = NoBuffer => buffers'[k] = NoBuffer
            /\ buffers'[k] # NoBuffer => buffers'[k].utc = buffers[k].utc
            /\ delivered'[k] = delivered[k]
         \/ \E r \in Result :
              /\ onAir[c].kind = "data"
              /\ buffers[k] # NoBuffer
              /\ buffers'[k] = NoBuffer
              /\ r.was_buffered
              /\ r.utc = buffers[k].utc
              /\ delivered'[k] = Append(delivered[k], r)
  PROVE  StreamInv(c, k)' /\ InOrder(k)'
<1>1. /\ onAir[c] # Silence
      /\ slot'[c] = slot[c] /\ onAir'[c] = onAir[c] /\ slot[c] \in Nat
      /\ delivered[k] \in Seq(Result)
      /\ buffers[k] # NoBuffer => buffers[k].utc \in Nat
  BY DEF Decode, Report, AirTypeOK, TypeOK, BufferState
<1>2. CASE /\ onAir[c].kind = "directed"
           /\ buffers'[k] # NoBuffer
           /\ buffers'[k].utc = slot[c]
           /\ delivered'[k] = delivered[k]
  BY <1>1, <1>2 DEF StreamInv, InOrder
<1>3. ASSUME NEW r \in Result, ~ r.was_buffered, buffers'[k] = buffers[k],
             delivered'[k] = Append(delivered[k], r)
      PROVE  StreamInv(c, k)' /\ InOrder(k)'
  <2>1. /\ DOMAIN delivered[k] = 1..Len(delivered[k]) /\ Len(delivered[k]) \in Nat
        /\ DOMAIN delivered'[k] = 1..(Len(delivered[k]) + 1)
        /\ \A i \in 1..Len(delivered[k]) : delivered'[k][i] = delivered[k][i]
        /\ delivered'[k][Len(delivered[k]) + 1] = r
    BY <1>1, <1>3, AppendResult
  <2>2. \A i \in DOMAIN delivered'[k] : delivered'[k][i].was_buffered =>
          i \in DOMAIN delivered[k] /\ delivered'[k][i] = delivered[k][i]
    BY <1>3, <2>1
  <2>3. StreamInv(c, k)'
    BY <1>1, <1>3, <2>2 DEF StreamInv
  <2>4. InOrder(k)'
    BY <2>2 DEF InOrder
  <2> QED BY <2>3, <2>4
<1>4. CASE /\ buffers[k] = NoBuffer => buffers'[k] = NoBuffer
           /\ buffers'[k] # NoBuffer => buffers'[k].utc = buffers[k].utc
           /\ delivered'[k] = delivered[k]
  BY <1>1, <1>4 DEF StreamInv, InOrder
<1>5. ASSUME NEW r \in Result, onAir[c].kind = "data", buffers[k] # NoBuffer,
             buffers'[k] = NoBuffer, r.was_buffered, r.utc = buffers[k].utc,
             delivered'[k] = Append(delivered[k], r)
      PROVE  StreamInv(c, k)' /\ InOrder(k)'
  <2>1. /\ DOMAIN delivered[k] = 1..Len(delivered[k]) /\ Len(delivered[k]) \in Nat
        /\ DOMAIN delivered'[k] = 1..(Len(delivered[k]) + 1)
        /\ \A i \in 1..Len(delivered[k]) : delivered'[k][i] = delivered[k][i]
        /\ delivered'[k][Len(delivered[k]) + 1] = r
    BY <1>1, <1>5, AppendResult
  <2>2. \A i \in DOMAIN delivered'[k] :
          i \in DOMAIN delivered[k] \/ i = Len(delivered[k]) + 1
    BY <2>1
  <2>3. r.utc <= slot[c] /\ ~ onAir[c].kind = "directed"
    BY <1>5 DEF StreamInv
  <2>4. StreamInv(c, k)'
    BY <1>1, <1>5, <2>1, <2>2, <2>3 DEF StreamInv
  <2>5. InOrder(k)'
    <3> SUFFICES ASSUME NEW i \in DOMAIN delivered'[k], NEW j \in DOMAIN delivered'[k],
                        i < j, delivered'[k][i].was_buffered, delivered'[k][j].was_buffered
                 PROVE  delivered'[k][i].utc < delivered'[k][j].utc
      BY DEF InOrder
    <3>1. i \in DOMAIN delivered[k] /\ delivered'[k][i] = delivered[k][i]
      BY <2>1
    <3>2. CASE j \in DOMAIN delivered[k]
      BY <2>1, <3>1, <3>2 DEF InOrder
    <3>3. CASE j = Len(delivered[k]) + 1
      BY <1>5, <2>1, <3>1, <3>3 DEF StreamInv
    <3> QED BY <2>2, <3>2, <3>3
  <2> QED BY <2>4, <2>5
<1> QED BY <1>2, <1>3, <1>4, <1>5

LEMMA KeysOfType ==
  ASSUME NEW c \in Channel
  PROVE  KeysOf(c) \subseteq BufferKey
<1>1. SubmodeOf[c] \in Submode /\ Estimates[c] \subseteq Int
  BY ChannelAssumption
<1>2. \A f \in Estimates[c] : WholeHz(f) \in 0..MaxHz
  BY <1>1, WholeHzType
<1> QED BY <1>1, <1>2 DEF KeysOf, BufferKey

LEMMA DeliveryInvInit == BufferedInit => DeliveryInv
<1> SUFFICES ASSUME BufferedInit PROVE DeliveryInv
  OBVIOUS
<1>1. AirTypeOK
  BY AirTypeInit
<1>2. \A k \in BufferKey : buffers[k] = NoBuffer /\ DOMAIN delivered[k] = {}
  BY DEF BufferedInit, Init, AirInit
<1>3. \A c \in Channel : \A k \in OwnStreams(c) : StreamInv(c, k) /\ InOrder(k)
  BY <1>2, KeysOfType DEF OwnStreams, StreamInv, InOrder
<1> QED BY <1>1, <1>3 DEF DeliveryInv

(* A new slot begins on channel c.                                         *)
LEMMA StreamInvOfAdvance ==
  ASSUME AirTypeOK, NEW c \in Channel, NEW frame \in Frame, Advance(c, frame),
         buffers' = buffers, delivered' = delivered,
         NEW b \in Channel, NEW k \in KeysOf(b), StreamInv(b, k)
  PROVE  StreamInv(b, k)'
<1>1. k \in BufferKey
  BY KeysOfType
<1>2. /\ slot[b] \in Nat
      /\ delivered[k] \in Seq(Result)
      /\ buffers[k] # NoBuffer => buffers[k].utc \in Nat
  BY <1>1 DEF AirTypeOK, TypeOK, BufferState
<1>3. \A i \in DOMAIN delivered[k] : delivered[k][i].utc \in Nat
  <2>1. \A i \in DOMAIN delivered[k] : delivered[k][i] \in Result
    BY <1>2, LenProperties, ElementOfSeq
  <2> QED BY <2>1 DEF Result
<1>4. CASE b = c
  <2>1. slot'[b] = slot[b] + 1
    BY <1>4 DEF Advance, AirTypeOK
  <2> QED BY <1>2, <1>3, <2>1 DEF StreamInv
<1>5. CASE b # c
  <2>1. slot'[b] = slot[b] /\ onAir'[b] = onAir[b]
    BY <1>5 DEF Advance, AirTypeOK
  <2> QED BY <2>1 DEF StreamInv
<1> QED BY <1>4, <1>5

LEMMA DeliveryInvStep == DeliveryInv /\ [Next]_vars => DeliveryInv'
<1> SUFFICES ASSUME DeliveryInv, [Next]_vars PROVE DeliveryInv'
  OBVIOUS
<1>1. AirTypeOK /\ AirTypeOK'
  BY AirTypeStep DEF DeliveryInv
<1> SUFFICES ASSUME NEW b \in Channel, NEW k \in OwnStreams(b)
             PROVE  StreamInv(b, k)' /\ InOrder(k)'
  BY <1>1 DEF DeliveryInv, OwnStreams, KeysOf
<1>2. /\ k \in KeysOf(b) /\ k \in BufferKey
      /\ \A c \in Channel : k \in KeysOf(c) => c = b
  BY KeysOfType DEF OwnStreams
<1>3. StreamInv(b, k) /\ InOrder(k)
  BY DEF DeliveryInv
<1>4. ASSUME NEW c \in Channel, NEW frame \in Frame, Advance(c, frame),
             buffers' = buffers, delivered' = delivered
      PROVE  StreamInv(b, k)' /\ InOrder(k)'
  BY <1>1, <1>2, <1>3, <1>4, StreamInvOfAdvance DEF InOrder
<1>5. ASSUME NEW c \in Channel, NEW m \in Traffic, BeginMessage(c, m)
      PROVE  StreamInv(b, k)' /\ InOrder(k)'
  <2>1. Head(FramesOf(m)) \in Frame
    BY <1>5, FramesType, HeadTailProperties DEF BeginMessage
  <2> QED BY <1>4, <1>5, <2>1 DEF BeginMessage
<1>6. ASSUME NEW c \in Channel, ContinueMessage(c)
      PROVE  StreamInv(b, k)' /\ InOrder(k)'
  <2>1. queue[c] \in Seq(Frame) /\ queue[c] # <<>>
    BY <1>1, <1>6 DEF ContinueMessage, AirTypeOK
  <2>2. Head(queue[c]) \in Frame
    BY <2>1, HeadTailProperties
  <2> QED BY <1>4, <1>6, <2>2 DEF ContinueMessage
<1>7. CASE UNCHANGED <<buffers, delivered, slot, onAir>>
  BY <1>3, <1>7 DEF StreamInv, InOrder
<1>8. ASSUME NEW c \in Channel, Decode(c)
      PROVE  StreamInv(b, k)' /\ InOrder(k)'
  <2>1. CASE /\ buffers'[k] = buffers[k] /\ delivered'[k] = delivered[k]
             /\ slot' = slot /\ onAir' = onAir
    BY <1>3, <2>1 DEF StreamInv, InOrder
  <2>2. slot' = slot /\ onAir' = onAir
    BY <1>8 DEF Decode
  <2>3. CASE c = b
    BY <1>1, <1>2, <1>3, <1>8, <2>1, <2>2, <2>3, DecodeCases, StreamInvOfDecode
  <2>4. CASE c # b
    <3>1. k \notin KeysOf(c)
      BY <1>2, <2>4
    <3>2. buffers'[k] = buffers[k] /\ delivered'[k] = delivered[k]
      BY <1>1, <1>2, <1>8, <3>1, DecodeCases
    <3> QED BY <2>1, <2>2, <3>2
  <2> QED BY <2>3, <2>4
<1>9. CASE ClearBuffers
  <2>1. /\ \A j \in BufferKey : buffers'[j] = NoBuffer
        /\ delivered' = delivered /\ slot' = slot /\ onAir' = onAir
    BY <1>9 DEF ClearBuffers, Clear, airVars
  <2> QED BY <1>2, <1>3, <2>1 DEF StreamInv, InOrder
<1>10. CASE UNCHANGED vars
  BY <1>7, <1>10 DEF vars
<1> QED BY <1>5, <1>6, <1>8, <1>9, <1>10 DEF Next

(* The results a channel's own stream reports from its buffers bear ever   *)
(* later headers, so none is reported twice, whatever other channels do.   *)
THEOREM ResultsInOrder == Spec => []DeliveredInOrder
<1>1. BufferedInit => DeliveryInv
  BY DeliveryInvInit
<1>2. DeliveryInv /\ [Next]_vars => DeliveryInv'
  BY DeliveryInvStep
<1>3. DeliveryInv => DeliveredInOrder
  BY DEF DeliveryInv, DeliveredInOrder
<1> QED BY <1>1, <1>2, <1>3, PTL DEF Spec
-----------------------------------------------------------------------------
(* Results are genuine: the refinement of MessageDelivery.                 *)

(* The texts a receiver can collect from the data frames of messages S in  *)
(* any order, whatever it misses and however often it hears one.           *)
Fragments(S) ==
  {t \in Text : \E m \in S : \E p \in DOMAIN FramesOf(m) :
     FramesOf(m)[p].kind = "data" /\ t = FramesOf(m)[p].text}

Mixed(S) ==
  {t \in Text :
     \A T \in SUBSET Text :
       <<>> \in T /\ (\A u \in T, g \in Fragments(S) : u \o g \in T) => t \in T}

LEMMA MixedGrows ==
  /\ \A S : <<>> \in Mixed(S)
  /\ \A S : \A t \in Mixed(S), g \in Fragments(S) : t \o g \in Mixed(S)
  /\ \A S, R : S \subseteq R => Mixed(S) \subseteq Mixed(R)
<1>1. \A S : <<>> \in Mixed(S)
  BY EmptySeq DEF Mixed, Text
<1>2. ASSUME NEW S, NEW t \in Mixed(S), NEW g \in Fragments(S)
      PROVE  t \o g \in Mixed(S)
  <2>1. t \in Seq(Char) /\ g \in Seq(Char)
    BY DEF Mixed, Fragments, Text
  <2>2. t \o g \in Text
    BY <2>1, ConcatProperties DEF Text
  <2>3. ASSUME NEW T \in SUBSET Text, <<>> \in T,
               \A u \in T, h \in Fragments(S) : u \o h \in T
        PROVE  t \o g \in T
    <3>1. t \in T
      BY <2>3 DEF Mixed
    <3> QED BY <2>3, <3>1
  <2> QED BY <2>2, <2>3 DEF Mixed
<1>3. ASSUME NEW S, NEW R, S \subseteq R
      PROVE  Mixed(S) \subseteq Mixed(R)
  <2>1. Fragments(S) \subseteq Fragments(R)
    BY <1>3 DEF Fragments
  <2> QED BY <2>1 DEF Mixed
<1> QED BY <1>1, <1>2, <1>3

(* The p-th frame of a message: one of its headers, then its data frames.  *)
LEMMA FrameAt ==
  ASSUME NEW m \in Traffic, NEW p \in 1..Len(FramesOf(m))
  PROVE  LET h == Len(Headers(m))
             data == DataFrames(DataText(m))
             frame == IF p <= h THEN Headers(m)[p] ELSE data[p - h]
         IN  /\ h \in Nat /\ Len(data) \in Nat /\ Len(FramesOf(m)) = h + Len(data)
             /\ frame \in Frame /\ FramesOf(m)[p] \in Frame
             /\ FramesOf(m)[p] = [frame EXCEPT !.last = (p = Len(FramesOf(m)))]
<1> DEFINE data == DataFrames(DataText(m))
           frames == Headers(m) \o data
<1>1. FramesOf(m) \in Seq(Frame) /\ DOMAIN FramesOf(m) = 1..Len(FramesOf(m))
  BY FramesType, LenProperties
<1>2. DataText(m) \in Text /\ Headers(m) \in Seq(Frame)
  BY PartsType
<1>3. data \in Seq(Frame)
  BY <1>2, DataFramesType
<1>4. FramesOf(m) = [i \in DOMAIN frames |-> [frames[i] EXCEPT !.last = (i = Len(frames))]]
  BY DEF FramesOf
<1> HIDE DEF data
<1>5. frames \in Seq(Frame) /\ Len(frames) = Len(Headers(m)) + Len(data)
  BY <1>2, <1>3, ConcatProperties
<1>6. /\ DOMAIN frames = 1..Len(frames) /\ Len(data) \in Nat
      /\ Len(Headers(m)) \in Nat
  BY <1>2, <1>3, <1>5, LenProperties
<1>7. \A i \in 1..Len(Headers(m)) + Len(data) :
        frames[i] = IF i <= Len(Headers(m)) THEN Headers(m)[i]
                    ELSE data[i - Len(Headers(m))]
  BY <1>2, <1>3, ConcatProperties
<1> HIDE DEF frames
<1>8. Len(FramesOf(m)) = Len(frames)
  <2>1. DOMAIN FramesOf(m) = 1..Len(frames)
    BY <1>4, <1>6
  <2>2. Len(FramesOf(m)) \in Nat /\ Len(frames) \in Nat
    BY <1>1, <1>5, LenProperties
  <2> QED BY <1>1, <2>1, <2>2
<1>9. frames[p] \in Frame /\ FramesOf(m)[p] \in Frame
  BY <1>1, <1>5, <1>8, ElementOfSeq
<1>10. FramesOf(m)[p] = [frames[p] EXCEPT !.last = (p = Len(frames))]
  BY <1>4, <1>6, <1>8
<1> QED BY <1>5, <1>6, <1>7, <1>8, <1>9, <1>10 DEF data

(* The headers of a message: the directed one is the last of them.         *)
LEMMA HeaderAt ==
  ASSUME NEW m \in Traffic, NEW p \in 1..Len(Headers(m))
  PROVE  LET h == IF m.compound THEN 2 ELSE 1 IN
         /\ m.command # NoCommand /\ Len(Headers(m)) = h
         /\ p < h => Headers(m)[p].kind = "compound"
         /\ p = h => Headers(m)[p] =
                       HeaderFrame("directed", IF m.compound THEN Placeholder ELSE m.from,
                                   m.to, m.command)
<1>1. m.compound \in BOOLEAN
  BY ChannelAssumption DEF Message
<1>2. CASE m.command = NoCommand
  BY <1>2 DEF Headers
<1>3. CASE m.command # NoCommand /\ m.compound
  <2>1. Len(Headers(m)) = 2 /\ p \in {1, 2}
    BY <1>3 DEF Headers
  <2>2. /\ Headers(m)[1] = HeaderFrame("compound", m.from, m.to, NoCommand)
        /\ Headers(m)[2] = HeaderFrame("directed", Placeholder, m.to, m.command)
    BY <1>3 DEF Headers
  <2>3. CASE p = 1
    <3>1. Headers(m)[p].kind = "compound"
      BY <2>2, <2>3 DEF HeaderFrame
    <3> QED BY <1>3, <2>1, <2>3, <3>1
  <2>4. CASE p = 2
    BY <1>3, <2>1, <2>2, <2>4
  <2> QED BY <2>1, <2>3, <2>4
<1>4. CASE m.command # NoCommand /\ ~ m.compound
  <2>1. Len(Headers(m)) = 1 /\ p = 1
    BY <1>4 DEF Headers
  <2>2. Headers(m)[1] = HeaderFrame("directed", m.from, m.to, m.command)
    BY <1>4 DEF Headers
  <2> QED BY <1>4, <2>1, <2>2
<1> QED BY <1>1, <1>2, <1>3, <1>4

(* Where the frames of a message stand: a directed frame only in its       *)
(* header slot.                                                            *)
LEMMA FramePlaces ==
  ASSUME NEW m \in Traffic, NEW p \in 1..Len(FramesOf(m))
  PROVE  /\ FramesOf(m)[p] \in Frame
         /\ m.compound => Len(FramesOf(m)) >= 2
         /\ FramesOf(m)[p].kind = "data" =>
              /\ FramesOf(m)[p].text \in Fragments({m})
              /\ \E q \in 1..Len(DataFrames(DataText(m))) :
                   FramesOf(m)[p].text = DataFrames(DataText(m))[q].text
         /\ FramesOf(m)[p].kind = "directed" =>
              /\ m.command # NoCommand
              /\ p = 1 + (IF m.compound THEN 1 ELSE 0)
              /\ FramesOf(m)[p].from = IF m.compound THEN Placeholder ELSE m.from
              /\ FramesOf(m)[p].to = m.to
              /\ FramesOf(m)[p].command = m.command
<1> DEFINE h == Len(Headers(m))
           data == DataFrames(DataText(m))
           frame == IF p <= h THEN Headers(m)[p] ELSE data[p - h]
<1>1. /\ h \in Nat /\ Len(data) \in Nat /\ Len(FramesOf(m)) = h + Len(data)
      /\ frame \in Frame /\ FramesOf(m)[p] \in Frame
      /\ FramesOf(m)[p] = [frame EXCEPT !.last = (p = Len(FramesOf(m)))]
  BY FrameAt
<1> HIDE DEF frame
<1>2. /\ FramesOf(m)[p].kind = frame.kind /\ FramesOf(m)[p].from = frame.from
      /\ FramesOf(m)[p].to = frame.to /\ FramesOf(m)[p].command = frame.command
      /\ FramesOf(m)[p].text = frame.text
  BY <1>1 DEF Frame
<1>3. FramesOf(m)[p].kind = "data" => FramesOf(m)[p].text \in Fragments({m})
  <2>1. p \in DOMAIN FramesOf(m)
    BY FramesType, LenProperties
  <2> QED BY <1>1, <2>1 DEF Fragments, Frame
<1>4. m.compound => Len(FramesOf(m)) >= 2
  <2> SUFFICES ASSUME m.compound PROVE Len(FramesOf(m)) >= 2
    OBVIOUS
  <2>1. m.command # NoCommand
    BY ChannelAssumption
  <2>2. h = 2
    BY <2>1 DEF Headers
  <2> HIDE DEF h, data
  <2> QED BY <1>1, <2>2
<1>5. CASE p <= h
  <2>1. frame = Headers(m)[p] /\ p \in 1..h
    BY <1>1, <1>5 DEF frame
  <2>2. LET g == IF m.compound THEN 2 ELSE 1 IN
        /\ m.command # NoCommand /\ h = g
        /\ p < g => frame.kind = "compound"
        /\ p = g => frame = HeaderFrame("directed",
                              IF m.compound THEN Placeholder ELSE m.from, m.to, m.command)
    BY <2>1, HeaderAt
  <2> QED BY <1>1, <1>2, <1>3, <1>4, <2>1, <2>2 DEF HeaderFrame
<1>6. CASE p > h
  <2>1. p - h \in 1..Len(data) /\ frame = data[p - h]
    BY <1>1, <1>6 DEF frame
  <2>2. frame.kind = "data"
    BY <2>1, PartsType, DataFrameKind
  <2> QED BY <1>1, <1>2, <1>3, <1>4, <2>1, <2>2
<1> QED BY <1>1, <1>5, <1>6

(* The frame on the air is a frame of the last message begun, in its slot, *)
(* and the rest of that message is queued; earlier ones are over.          *)
OnAirInv(c) ==
  IF onAir[c] = Silence THEN sent[c] = <<>> /\ queue[c] = <<>>
  ELSE LET n == Len(sent[c])
           s == sent[c][n]
           frames == FramesOf(s.message)
           p == slot[c] - s.first + 1
       IN  /\ n > 0
           /\ p \in 1..Len(frames)
           /\ onAir[c] = frames[p]
           /\ Len(queue[c]) = Len(frames) - p
           /\ \A i \in 1..Len(queue[c]) : queue[c][i] = frames[p + i]
           /\ \A i \in 1..(n - 1) : Promise!HeaderSlot(sent[c][i]) < s.first

(* The messages sent on stream k from the i-th of channel c on.            *)
SentSince(k, c, i) ==
  {m \in Traffic : \E d \in Channel : \E j \in DOMAIN sent[d] :
     /\ k \in KeysOf(d)
     /\ d = c => i <= j
     /\ m = sent[d][j].message}

(* An open buffer bears the header of a message sent on its stream, and    *)
(* its text was collected from messages sent since.                        *)
BufferInv(k) ==
  buffers[k] # NoBuffer =>
    \E c \in Channel : \E i \in DOMAIN sent[c] :
      /\ k \in KeysOf(c)
      /\ Promise!BearsHeaderOf(buffers[k], sent[c][i])
      /\ buffers[k].text \in Mixed(SentSince(k, c, i))

(* Result r is what the check of its command makes of one of the texts T.  *)
Confirms(r, T) ==
  \E t \in T :
    LET done == FinalizeBufferedPayload(r.to, r.command, TrimRight(t))
    IN  done.checksum = "valid" /\ r.payload = done.payload

(* The same of a result, if its checksum confirmed it.                     *)
Assembled(k, r) ==
  \E c \in Channel : \E i \in DOMAIN sent[c] :
    /\ k \in KeysOf(c)
    /\ Promise!BearsHeaderOf(r, sent[c][i])
    /\ r.checksum = "valid" => Confirms(r, Mixed(SentSince(k, c, i)))

ResultsAssembled ==
  \A k \in BufferKey : \A i \in DOMAIN delivered[k] : Assembled(k, delivered[k][i])

GenuineInv ==
  /\ AirTypeOK
  /\ \A c \in Channel : OnAirInv(c)
  /\ \A k \in BufferKey : BufferInv(k)
  /\ ResultsAssembled

LEMMA SentType ==
  ASSUME AirTypeOK, NEW c \in Channel
  PROVE  /\ sent[c] \in Seq([message : Traffic, first : Nat])
         /\ Len(sent[c]) \in Nat
         /\ DOMAIN sent[c] = 1..Len(sent[c])
         /\ \A i \in 1..Len(sent[c]) :
              /\ sent[c][i].message \in Traffic /\ sent[c][i].first \in Nat
              /\ sent[c][i] \in [message : Traffic, first : Nat]
<1>1. sent[c] \in Seq([message : Traffic, first : Nat])
  BY DEF AirTypeOK
<1>2. Len(sent[c]) \in Nat /\ DOMAIN sent[c] = 1..Len(sent[c])
  BY <1>1, LenProperties
<1>3. \A i \in 1..Len(sent[c]) : sent[c][i] \in [message : Traffic, first : Nat]
  BY <1>1, ElementOfSeq
<1> QED BY <1>1, <1>2, <1>3

LEMMA GenuineInvInit == BufferedInit => GenuineInv
<1> SUFFICES ASSUME BufferedInit PROVE GenuineInv
  OBVIOUS
<1>1. AirTypeOK
  BY AirTypeInit
<1>2. /\ \A c \in Channel : onAir[c] = Silence /\ sent[c] = <<>> /\ queue[c] = <<>>
      /\ \A k \in BufferKey : buffers[k] = NoBuffer /\ DOMAIN delivered[k] = {}
  BY DEF BufferedInit, Init, AirInit
<1> QED BY <1>1, <1>2 DEF GenuineInv, OnAirInv, BufferInv, ResultsAssembled

(* Once its queue is empty the header slots of all messages of a channel   *)
(* have been reached.                                                      *)
LEMMA HeadersReached ==
  ASSUME AirTypeOK, NEW c \in Channel, OnAirInv(c), queue[c] = <<>>,
         NEW i \in DOMAIN sent[c]
  PROVE  Promise!HeaderSlot(sent[c][i]) <= slot[c]
<1> DEFINE n == Len(sent[c])
           s == sent[c][n]
           frames == FramesOf(s.message)
           p == slot[c] - s.first + 1
<1>1. /\ n \in Nat /\ i \in 1..n /\ n \in 1..n /\ slot[c] \in Nat
      /\ s.message \in Traffic /\ s.first \in Nat
      /\ sent[c][i].message \in Traffic /\ sent[c][i].first \in Nat
  <2>1. n \in Nat /\ i \in 1..n
    BY SentType
  <2>2. n \in 1..n
    BY <2>1
  <2> QED BY <2>1, <2>2, SentType DEF AirTypeOK
<1>2. onAir[c] # Silence
  BY DEF OnAirInv
<1>3. /\ p \in 1..Len(frames) /\ Len(queue[c]) = Len(frames) - p
      /\ \A j \in 1..(n - 1) : Promise!HeaderSlot(sent[c][j]) < s.first
  BY <1>2 DEF OnAirInv
<1>4. Len(queue[c]) = 0 /\ Len(frames) \in Nat
  BY <1>1, FramesType, LenProperties
<1>5. s.message.compound => Len(frames) >= 2
  BY <1>1, <1>3, FramePlaces
<1>6. CASE i < n
  <2>1. Promise!HeaderSlot(sent[c][i]) < s.first
    BY <1>1, <1>3, <1>6
  <2>2. Promise!HeaderSlot(sent[c][i]) \in Int /\ p >= 1 /\ p \in Int
    BY <1>1, <1>3 DEF Promise!HeaderSlot
  <2> QED BY <1>1, <2>1, <2>2
<1>7. CASE i = n
  <2>1. p = Len(frames) /\ slot[c] = s.first + p - 1
    BY <1>1, <1>3, <1>4
  <2>2. Promise!HeaderSlot(s) = s.first + (IF s.message.compound THEN 1 ELSE 0)
    BY DEF Promise!HeaderSlot
  <2>3. Len(frames) >= 1
    BY <1>3, <1>4
  <2> HIDE DEF frames, p
  <2> QED BY <1>1, <1>4, <1>5, <1>7, <2>1, <2>2, <2>3
<1> QED BY <1>1, <1>6, <1>7

LEMMA SentGrows ==
  ASSUME AirTypeOK,
         \/ \E c \in Channel : \E s \in [message : Traffic, first : Nat] :
              sent' = [sent EXCEPT ![c] = Append(@, s)]
         \/ sent' = sent,
         NEW k \in BufferKey
  PROVE  /\ \A d \in Channel : \A i \in DOMAIN sent[d] :
              i \in DOMAIN sent'[d] /\ sent'[d][i] = sent[d][i]
         /\ \A d \in Channel : \A i \in Nat : SentSince(k, d, i) \subseteq SentSince(k, d, i)'
         /\ \A r : Assembled(k, r) => Assembled(k, r)'
         /\ buffers'[k] = buffers[k] /\ BufferInv(k) => BufferInv(k)'
<1>1. \A d \in Channel : \A i \in DOMAIN sent[d] :
        i \in DOMAIN sent'[d] /\ sent'[d][i] = sent[d][i]
  <2> SUFFICES ASSUME NEW d \in Channel, NEW i \in DOMAIN sent[d]
               PROVE  i \in DOMAIN sent'[d] /\ sent'[d][i] = sent[d][i]
    OBVIOUS
  <2>1. ASSUME NEW c \in Channel, NEW s \in [message : Traffic, first : Nat],
               sent' = [sent EXCEPT ![c] = Append(@, s)], d = c
        PROVE  i \in DOMAIN sent'[d] /\ sent'[d][i] = sent[d][i]
    <3>1. sent[c] \in Seq([message : Traffic, first : Nat]) /\ i \in 1..Len(sent[c])
           /\ Len(sent[c]) \in Nat
      BY <2>1, SentType
    <3>2. sent'[c] = Append(sent[c], s)
      BY <2>1 DEF AirTypeOK
    <3>3. /\ Append(sent[c], s) \in Seq([message : Traffic, first : Nat])
          /\ Len(Append(sent[c], s)) = Len(sent[c]) + 1
          /\ Append(sent[c], s)[i] = sent[c][i]
      BY <3>1, AppendProperties
    <3>4. DOMAIN Append(sent[c], s) = 1..(Len(sent[c]) + 1)
      BY <3>3, LenProperties
    <3> QED BY <2>1, <3>1, <3>2, <3>3, <3>4
  <2>2. ASSUME NEW c \in Channel, NEW s \in [message : Traffic, first : Nat],
               sent' = [sent EXCEPT ![c] = Append(@, s)], d # c
        PROVE  i \in DOMAIN sent'[d] /\ sent'[d][i] = sent[d][i]
    <3>1. sent'[d] = sent[d]
      BY <2>2 DEF AirTypeOK
    <3> QED BY <3>1
  <2>3. CASE sent' = sent
    BY <2>3
  <2> QED BY <2>1, <2>2, <2>3
<1>2. \A d \in Channel : \A i \in Nat : SentSince(k, d, i) \subseteq SentSince(k, d, i)'
  BY <1>1 DEF SentSince, KeysOf
<1>3. \A d \in Channel : \A i \in DOMAIN sent[d] :
        Mixed(SentSince(k, d, i)) \subseteq Mixed(SentSince(k, d, i)')
  <2> SUFFICES ASSUME NEW d \in Channel, NEW i \in DOMAIN sent[d]
               PROVE  Mixed(SentSince(k, d, i)) \subseteq Mixed(SentSince(k, d, i)')
    OBVIOUS
  <2>1. i \in Nat
    BY SentType
  <2> QED BY <1>2, <2>1, MixedGrows
<1>4. ASSUME NEW r, Assembled(k, r)
      PROVE  Assembled(k, r)'
  <2>1a. PICK d \in Channel : \E i \in DOMAIN sent[d] :
          /\ k \in KeysOf(d)
          /\ Promise!BearsHeaderOf(r, sent[d][i])
          /\ r.checksum = "valid" => Confirms(r, Mixed(SentSince(k, d, i)))
    BY <1>4 DEF Assembled
  <2>1. PICK i \in DOMAIN sent[d] :
          /\ k \in KeysOf(d)
          /\ Promise!BearsHeaderOf(r, sent[d][i])
          /\ r.checksum = "valid" => Confirms(r, Mixed(SentSince(k, d, i)))
    BY <2>1a
  <2>2. i \in DOMAIN sent'[d] /\ sent'[d][i] = sent[d][i]
    BY <1>1
  <2>3. Promise!BearsHeaderOf(r, sent'[d][i])
    BY <2>1, <2>2
  <2>4. r.checksum = "valid" => Confirms(r, Mixed(SentSince(k, d, i)'))
    BY <1>3, <2>1 DEF Confirms
  <2> QED BY <2>1, <2>2, <2>3, <2>4 DEF Assembled, KeysOf
<1>5. ASSUME buffers'[k] = buffers[k], BufferInv(k)
      PROVE  BufferInv(k)'
  <2> SUFFICES ASSUME buffers[k] # NoBuffer PROVE BufferInv(k)'
    BY <1>5 DEF BufferInv
  <2>1a. PICK d \in Channel : \E i \in DOMAIN sent[d] :
          /\ k \in KeysOf(d)
          /\ Promise!BearsHeaderOf(buffers[k], sent[d][i])
          /\ buffers[k].text \in Mixed(SentSince(k, d, i))
    BY <1>5 DEF BufferInv
  <2>1. PICK i \in DOMAIN sent[d] :
          /\ k \in KeysOf(d)
          /\ Promise!BearsHeaderOf(buffers[k], sent[d][i])
          /\ buffers[k].text \in Mixed(SentSince(k, d, i))
    BY <2>1a
  <2>2. i \in DOMAIN sent'[d] /\ sent'[d][i] = sent[d][i]
    BY <1>1
  <2>3. Promise!BearsHeaderOf(buffers'[k], sent'[d][i])
    BY <1>5, <2>1, <2>2
  <2>4. buffers'[k].text \in Mixed(SentSince(k, d, i)')
    BY <1>3, <1>5, <2>1
  <2> QED BY <2>1, <2>2, <2>3, <2>4 DEF BufferInv, KeysOf
<1> QED BY <1>1, <1>2, <1>4, <1>5

LEMMA OnAirOfBegin ==
  ASSUME AirTypeOK, NEW c \in Channel, NEW m \in Traffic, BeginMessage(c, m), OnAirInv(c)
  PROVE  OnAirInv(c)'
<1> DEFINE n == Len(sent[c])
           s == [message |-> m, first |-> slot[c] + 1]
           frames == FramesOf(m)
<1>1. slot[c] \in Nat /\ s \in [message : Traffic, first : Nat]
  <2>1. slot[c] \in Nat
    BY DEF AirTypeOK
  <2> QED BY <2>1
<1>2. /\ frames \in Seq(Frame) /\ frames # <<>> /\ Len(frames) \in Nat /\ Len(frames) >= 1
      /\ Head(frames) = frames[1] /\ Head(frames) \in Frame
      /\ Tail(frames) \in Seq(Frame)
      /\ Len(Tail(frames)) = Len(frames) - 1
      /\ \A i \in 1..Len(Tail(frames)) : Tail(frames)[i] = frames[1 + i]
  <2>1. frames \in Seq(Frame) /\ frames # <<>>
    BY FramesType DEF BeginMessage
  <2>2. Len(frames) \in Nat \ {0}
    BY <2>1, EmptySeq
  <2> HIDE DEF frames
  <2>3. Head(frames) = frames[1]
    BY <2>1
  <2>4. /\ Head(frames) \in Frame /\ Tail(frames) \in Seq(Frame)
        /\ Len(Tail(frames)) = Len(frames) - 1
        /\ \A i \in 1..Len(Tail(frames)) : Tail(frames)[i] = frames[i + 1]
    BY <2>1, HeadTailProperties
  <2>5. \A i \in 1..Len(Tail(frames)) : i + 1 = 1 + i
    OBVIOUS
  <2> QED BY <2>1, <2>2, <2>3, <2>4, <2>5
<1>3. /\ onAir'[c] = frames[1] /\ queue'[c] = Tail(frames) /\ slot'[c] = slot[c] + 1
      /\ sent'[c] = Append(sent[c], s) /\ queue[c] = <<>>
  BY <1>2 DEF BeginMessage, Advance, AirTypeOK
<1>4. n \in Nat /\ DOMAIN sent[c] = 1..n /\ sent[c] \in Seq([message : Traffic, first : Nat])
  BY SentType
<1>5. /\ Len(sent'[c]) = n + 1 /\ sent'[c][n + 1] = s
      /\ \A i \in 1..n : sent'[c][i] = sent[c][i]
  BY <1>1, <1>3, <1>4, AppendProperties
<1>6. \A i \in 1..n : Promise!HeaderSlot(sent'[c][i]) < s.first
  <2> SUFFICES ASSUME NEW i \in 1..n PROVE Promise!HeaderSlot(sent[c][i]) < s.first
    BY <1>5
  <2>1. Promise!HeaderSlot(sent[c][i]) <= slot[c]
    BY <1>3, <1>4, HeadersReached
  <2>2. Promise!HeaderSlot(sent[c][i]) \in Int
    <3>1. sent[c][i].first \in Nat
      BY <1>4, SentType
    <3> QED BY <3>1 DEF Promise!HeaderSlot
  <2> QED BY <1>1, <2>1, <2>2
<1>7. onAir'[c] # Silence
  BY <1>2, <1>3, AirAssumption
<1>8. slot'[c] - s.first + 1 = 1 /\ s.message = m
  BY <1>1, <1>3
<1> HIDE DEF frames, s, n
<1> QED BY <1>2, <1>3, <1>4, <1>5, <1>6, <1>7, <1>8 DEF OnAirInv, frames

LEMMA OnAirOfContinue ==
  ASSUME AirTypeOK, NEW c \in Channel, ContinueMessage(c), OnAirInv(c)
  PROVE  OnAirInv(c)'
<1> DEFINE n == Len(sent[c])
           s == sent[c][n]
           frames == FramesOf(s.message)
           p == slot[c] - s.first + 1
<1>1. queue[c] # <<>> /\ queue[c] \in Seq(Frame) /\ slot[c] \in Nat
  BY DEF ContinueMessage, AirTypeOK
<1>2. onAir[c] # Silence
  BY <1>1 DEF OnAirInv
<1>3. /\ n > 0 /\ p \in 1..Len(frames) /\ onAir[c] = frames[p]
      /\ Len(queue[c]) = Len(frames) - p
      /\ \A i \in 1..Len(queue[c]) : queue[c][i] = frames[p + i]
      /\ \A i \in 1..(n - 1) : Promise!HeaderSlot(sent[c][i]) < s.first
  BY <1>2 DEF OnAirInv
<1>4. n \in 1..n /\ s.message \in Traffic /\ s.first \in Nat
  <2>1. n \in 1..n
    BY <1>3, SentType
  <2> QED BY <2>1, SentType
<1>5. /\ Len(queue[c]) \in Nat \ {0} /\ Head(queue[c]) = queue[c][1]
      /\ Head(queue[c]) \in Frame
      /\ Len(Tail(queue[c])) = Len(queue[c]) - 1
      /\ \A i \in 1..Len(Tail(queue[c])) : Tail(queue[c])[i] = queue[c][i + 1]
  BY <1>1, EmptySeq, HeadTailProperties
<1>6. /\ onAir'[c] = Head(queue[c]) /\ queue'[c] = Tail(queue[c])
      /\ slot'[c] = slot[c] + 1 /\ sent' = sent
  BY DEF ContinueMessage, Advance, AirTypeOK
<1>7. Len(frames) \in Nat /\ p \in Nat
  BY <1>3, <1>4, FramesType, LenProperties
<1>8. slot'[c] - s.first + 1 = p + 1
  BY <1>1, <1>4, <1>6
<1> HIDE DEF frames, p, s, n
<1>9. p + 1 \in 1..Len(frames) /\ onAir'[c] = frames[p + 1]
  BY <1>3, <1>5, <1>6, <1>7
<1>10. /\ Len(queue'[c]) = Len(frames) - (p + 1)
       /\ \A i \in 1..Len(queue'[c]) : queue'[c][i] = frames[(p + 1) + i]
  <2>1. Len(queue'[c]) = Len(frames) - (p + 1)
    BY <1>3, <1>5, <1>6, <1>7
  <2>2. ASSUME NEW i \in 1..Len(queue'[c])
        PROVE  queue'[c][i] = frames[(p + 1) + i]
    <3>1. i + 1 \in 1..Len(queue[c]) /\ queue'[c][i] = queue[c][i + 1]
      BY <1>5, <1>6
    <3>2. queue[c][i + 1] = frames[p + (i + 1)]
      BY <1>3, <3>1
    <3>3. p + (i + 1) = (p + 1) + i
      BY <1>7
    <3> QED BY <3>1, <3>2, <3>3
  <2> QED BY <2>1, <2>2
<1>11. onAir'[c] # Silence
  BY <1>5, <1>6, AirAssumption
<1> QED BY <1>3, <1>6, <1>8, <1>9, <1>10, <1>11 DEF OnAirInv, frames, p, s, n

(* What a frame on the air bears.                                          *)
LEMMA FrameOnAir ==
  ASSUME AirTypeOK, NEW c \in Channel, OnAirInv(c), onAir[c] # Silence
  PROVE  \E i \in DOMAIN sent[c] :
           /\ i = Len(sent[c])
           /\ sent[c][i].message \in Traffic
           /\ onAir[c] \in Frame
           /\ onAir[c].kind = "data" =>
                onAir[c].text \in Fragments({sent[c][i].message})
           /\ onAir[c].kind = "directed" =>
                /\ sent[c][i].message.command # NoCommand
                /\ slot[c] = Promise!HeaderSlot(sent[c][i])
                /\ onAir[c].from = IF sent[c][i].message.compound THEN Placeholder
                                   ELSE sent[c][i].message.from
                /\ onAir[c].to = sent[c][i].message.to
                /\ onAir[c].command = sent[c][i].message.command
<1> DEFINE n == Len(sent[c])
           s == sent[c][n]
           frames == FramesOf(s.message)
           p == slot[c] - s.first + 1
<1>1. n > 0 /\ p \in 1..Len(frames) /\ onAir[c] = frames[p]
  BY DEF OnAirInv
<1>2. n \in DOMAIN sent[c] /\ s.message \in Traffic /\ s.first \in Nat /\ slot[c] \in Nat
  <2>1. n \in 1..n /\ n \in DOMAIN sent[c]
    BY <1>1, SentType
  <2> QED BY <2>1, SentType DEF AirTypeOK
<1>3. /\ frames[p] \in Frame
      /\ frames[p].kind = "data" => frames[p].text \in Fragments({s.message})
      /\ frames[p].kind = "directed" =>
           /\ s.message.command # NoCommand
           /\ p = 1 + (IF s.message.compound THEN 1 ELSE 0)
           /\ frames[p].from = IF s.message.compound THEN Placeholder ELSE s.message.from
           /\ frames[p].to = s.message.to
           /\ frames[p].command = s.message.command
  BY <1>1, <1>2, FramePlaces
<1>4. p = 1 + (IF s.message.compound THEN 1 ELSE 0)
        => slot[c] = s.first + (IF s.message.compound THEN 1 ELSE 0)
  BY <1>2
<1> HIDE DEF frames, p
<1> QED BY <1>1, <1>2, <1>3, <1>4 DEF Promise!HeaderSlot

(* A buffer that closes with a result reports its header and its text.     *)
LEMMA FinishReports ==
  ASSUME NEW k \in BufferKey, NEW b \in BufferState,
         FinishState(k, b).type = "Completed"
  PROVE  LET r == FinishState(k, b).result
         IN  /\ r.utc = b.utc /\ r.from = b.from /\ r.to = b.to /\ r.command = b.command
             /\ r.checksum = "valid" => \A T : b.text \in T => Confirms(r, T)
<1> DEFINE done == FinalizeBufferedPayload(b.to, b.command, TrimRight(b.text))
           result == [from |-> b.from, to |-> b.to, command |-> b.command,
                      payload |-> done.payload, checksum |-> done.checksum,
                      utc |-> b.utc, was_buffered |-> TRUE]
<1>1. FinishState(k, b) = [type |-> "Completed", key |-> k, result |-> result]
  BY DEF FinishState
<1>2. FinishState(k, b).result = result
  BY <1>1
<1>3. result.checksum = "valid" => \A T : b.text \in T => Confirms(result, T)
  <2>1. /\ result.checksum = done.checksum /\ result.payload = done.payload
        /\ result.to = b.to /\ result.command = b.command
    OBVIOUS
  <2> QED BY <2>1 DEF Confirms
<1>4. /\ result.utc = b.utc /\ result.from = b.from
      /\ result.to = b.to /\ result.command = b.command
  OBVIOUS
<1> HIDE DEF result
<1> QED BY <1>2, <1>3, <1>4

(* A decode leaves every buffer with the header of a message sent on its   *)
(* stream and text of messages sent since, and reports such a result.      *)
LEMMA GenuineOfDecode ==
  ASSUME AirTypeOK, AirTypeOK', NEW c \in Channel, Decode(c), OnAirInv(c),
         \A k \in BufferKey : BufferInv(k)
  PROVE  /\ \A k \in BufferKey : BufferInv(k)'
         /\ \/ delivered' = delivered
            \/ \E k \in BufferKey : \E r \in Result :
                 /\ Assembled(k, r)
                 /\ delivered' = [delivered EXCEPT ![k] = Append(@, r)]
<1>1. onAir[c] # Silence
  BY DEF Decode, Report
<1>2. PICK f \in Estimates[c] : PushDecoded(DecodedAt(c, f))
  BY DEF Decode
<1> DEFINE d == DecodedAt(c, f)
           k == KeyOf(d)
<1>3. /\ d \in Decoded /\ d.kind = onAir[c].kind /\ d.utc = slot[c]
      /\ k \in KeysOf(c) /\ k \in BufferKey
      /\ d.from = onAir[c].from /\ d.to = onAir[c].to
      /\ d.command = onAir[c].command /\ d.text = onAir[c].text
  BY <1>1, DecodedType, KeyType DEF DecodedAt
<1>4. PushDecoded(d)
  BY <1>2
<1>5. /\ delivered' = IF event'.type = "Completed"
                      THEN [delivered EXCEPT ![event'.key] = Append(@, event'.result)]
                      ELSE delivered
      /\ sent' = sent
  BY DEF Decode
<1>6. buffers \in [BufferKey -> BufferState \cup {NoBuffer}]
  BY DEF AirTypeOK, TypeOK
<1>7. PICK n \in DOMAIN sent[c] :
        /\ n = Len(sent[c])
        /\ sent[c][n].message \in Traffic
        /\ onAir[c] \in Frame
        /\ onAir[c].kind = "data" =>
             onAir[c].text \in Fragments({sent[c][n].message})
        /\ onAir[c].kind = "directed" =>
             /\ sent[c][n].message.command # NoCommand
             /\ slot[c] = Promise!HeaderSlot(sent[c][n])
             /\ onAir[c].from = IF sent[c][n].message.compound THEN Placeholder
                                ELSE sent[c][n].message.from
             /\ onAir[c].to = sent[c][n].message.to
             /\ onAir[c].command = sent[c][n].message.command
  BY <1>1, FrameOnAir
<1> HIDE DEF d, k
<1>8. ASSUME NEW r, d.kind = "directed", r.utc = d.utc, r.from = d.from, r.to = d.to,
             r.command = d.command
      PROVE  Promise!BearsHeaderOf(r, sent[c][n])
  BY <1>3, <1>7, <1>8 DEF Promise!BearsHeaderOf
<1>9. ASSUME NEW j \in BufferKey, buffers'[j] = buffers[j]
      PROVE  BufferInv(j)'
  BY <1>5, <1>9, SentGrows
<1>10. ASSUME NEW b, buffers' = [buffers EXCEPT ![k] = b],
              b # NoBuffer =>
                \E e \in Channel : \E i \in DOMAIN sent[e] :
                  /\ k \in KeysOf(e)
                  /\ Promise!BearsHeaderOf(b, sent[e][i])
                  /\ b.text \in Mixed(SentSince(k, e, i))
       PROVE  \A j \in BufferKey : BufferInv(j)'
  <2> SUFFICES ASSUME NEW j \in BufferKey PROVE BufferInv(j)'
    OBVIOUS
  <2>1. CASE j = k
    <3>1. buffers'[j] = b
      BY <1>3, <1>6, <1>10, <2>1
    <3> SUFFICES ASSUME b # NoBuffer PROVE BufferInv(j)'
      BY <3>1 DEF BufferInv
    <3>2. PICK e \in Channel : \E i \in DOMAIN sent[e] :
            /\ k \in KeysOf(e)
            /\ Promise!BearsHeaderOf(b, sent[e][i])
            /\ b.text \in Mixed(SentSince(k, e, i))
      BY <1>10
    <3>3. PICK i \in DOMAIN sent[e] :
            /\ k \in KeysOf(e)
            /\ Promise!BearsHeaderOf(b, sent[e][i])
            /\ b.text \in Mixed(SentSince(k, e, i))
      BY <3>2
    <3>4. i \in DOMAIN sent'[e] /\ j \in KeysOf(e)
      BY <1>5, <2>1, <3>3
    <3>5. Promise!BearsHeaderOf(buffers'[j], sent'[e][i])
      BY <1>5, <3>1, <3>3
    <3>6. SentSince(j, e, i)' = SentSince(k, e, i)
      BY <1>5, <2>1 DEF SentSince, KeysOf
    <3>7. buffers'[j].text \in Mixed(SentSince(j, e, i)')
      BY <3>1, <3>3, <3>6
    <3> QED BY <3>4, <3>5, <3>7 DEF BufferInv, KeysOf
  <2>2. CASE j # k
    <3>1. buffers'[j] = buffers[j]
      BY <1>3, <1>6, <1>10, <2>2
    <3> QED BY <1>9, <3>1
  <2> QED BY <2>1, <2>2
<1>11. CASE StartBuffer(d)
  <2> DEFINE b == [from |-> d.from, to |-> d.to, command |-> d.command,
                   utc |-> d.utc, text |-> <<>>]
  <2>1. buffers' = [buffers EXCEPT ![k] = b] /\ d.kind = "directed"
        /\ event'.type # "Completed"
    BY <1>11 DEF StartBuffer, k
  <2>2. Promise!BearsHeaderOf(b, sent[c][n])
    BY <1>8, <2>1
  <2>3. b.text \in Mixed(SentSince(k, c, n))
    BY MixedGrows
  <2> HIDE DEF b
  <2>4. \A j \in BufferKey : BufferInv(j)'
    BY <1>3, <1>7, <1>10, <2>1, <2>2, <2>3
  <2> QED BY <1>5, <2>1, <2>4
<1>12. CASE CompleteDirected(d)
  <2> DEFINE r == [from |-> d.from, to |-> d.to, command |-> d.command,
                   payload |-> d.text, checksum |-> "none",
                   utc |-> d.utc, was_buffered |-> FALSE]
  <2>1. r \in Result
    BY <1>3 DEF Decoded, Result
  <2>2. /\ event'.type = "Completed" /\ event'.key = k /\ event'.result = r
        /\ buffers' = buffers /\ d.kind = "directed"
    BY <1>12 DEF CompleteDirected, k
  <2>3. Promise!BearsHeaderOf(r, sent[c][n]) /\ r.checksum # "valid"
    BY <1>8, <2>2
  <2> HIDE DEF r
  <2>4. Assembled(k, r)
    BY <1>3, <1>7, <2>3 DEF Assembled
  <2> QED BY <1>3, <1>5, <1>9, <2>1, <2>2, <2>4
<1>13. CASE IgnoreFrame(d)
  BY <1>5, <1>9, <1>13 DEF IgnoreFrame, NoEvent
<1>14. ASSUME d.kind = "data", buffers[k] # NoBuffer
       PROVE  /\ [buffers[k] EXCEPT !.text = @ \o d.text] \in BufferState
              /\ \E e \in Channel : \E i \in DOMAIN sent[e] :
                   /\ k \in KeysOf(e)
                   /\ Promise!BearsHeaderOf(
                        [buffers[k] EXCEPT !.text = @ \o d.text], sent[e][i])
                   /\ [buffers[k] EXCEPT !.text = @ \o d.text].text
                        \in Mixed(SentSince(k, e, i))
  <2>1. buffers[k] \in BufferState
    BY <1>3, <1>6, <1>14
  <2> DEFINE b == [buffers[k] EXCEPT !.text = @ \o d.text]
  <2>2. b \in BufferState
    <3>1. buffers[k].text \in Seq(Char) /\ d.text \in Seq(Char)
      BY <1>3, <2>1 DEF BufferState, Decoded, Text
    <3>2. buffers[k].text \o d.text \in Seq(Char)
      BY <3>1, ConcatProperties
    <3> QED BY <2>1, <3>2 DEF BufferState, Text
  <2>3. /\ b.text = buffers[k].text \o d.text /\ b.utc = buffers[k].utc
        /\ b.from = buffers[k].from /\ b.to = buffers[k].to
        /\ b.command = buffers[k].command
    BY <2>1 DEF BufferState
  <2> HIDE DEF b
  <2>4. PICK e \in Channel : \E i \in DOMAIN sent[e] :
          /\ k \in KeysOf(e)
          /\ Promise!BearsHeaderOf(buffers[k], sent[e][i])
          /\ buffers[k].text \in Mixed(SentSince(k, e, i))
    BY <1>3, <1>14 DEF BufferInv
  <2>5. PICK i \in DOMAIN sent[e] :
          /\ k \in KeysOf(e)
          /\ Promise!BearsHeaderOf(buffers[k], sent[e][i])
          /\ buffers[k].text \in Mixed(SentSince(k, e, i))
    BY <2>4
  <2>6. Promise!BearsHeaderOf(b, sent[e][i])
    BY <2>3, <2>5 DEF Promise!BearsHeaderOf
  <2>7. d.text \in Fragments(SentSince(k, e, i))
    <3>1. c = e => i <= n
      BY <1>7, SentType
    <3>2. sent[c][n].message \in SentSince(k, e, i)
      BY <1>3, <1>7, <3>1 DEF SentSince
    <3>3. d.text \in Fragments({sent[c][n].message})
      BY <1>3, <1>7, <1>14
    <3> QED BY <3>2, <3>3 DEF Fragments
  <2>8. b.text \in Mixed(SentSince(k, e, i))
    BY <2>3, <2>5, <2>7, MixedGrows
  <2>9. /\ b \in BufferState
        /\ \E ee \in Channel : \E ii \in DOMAIN sent[ee] :
             /\ k \in KeysOf(ee)
             /\ Promise!BearsHeaderOf(b, sent[ee][ii])
             /\ b.text \in Mixed(SentSince(k, ee, ii))
    BY <2>2, <2>5, <2>6, <2>8
  <2> QED BY <2>9 DEF b
<1>15. CASE AppendFragment(d)
  <2>1. /\ d.kind = "data" /\ buffers[k] # NoBuffer /\ event'.type # "Completed"
        /\ buffers' = [buffers EXCEPT ![k] = [buffers[k] EXCEPT !.text = @ \o d.text]]
    BY <1>15 DEF AppendFragment, k
  <2>2. \A j \in BufferKey : BufferInv(j)'
    BY <1>10, <1>14, <2>1
  <2> QED BY <1>5, <2>1, <2>2
<1>16. CASE FinishBuffer(d)
  <2> DEFINE b == [buffers[k] EXCEPT !.text = @ \o d.text]
  <2>1. /\ d.kind = "data" /\ buffers[k] # NoBuffer
        /\ buffers' = [buffers EXCEPT ![k] = NoBuffer]
        /\ event' = FinishState(k, b)
    BY <1>16 DEF FinishBuffer, k
  <2>2. /\ b \in BufferState
        /\ \E e \in Channel : \E i \in DOMAIN sent[e] :
             /\ k \in KeysOf(e)
             /\ Promise!BearsHeaderOf(b, sent[e][i])
             /\ b.text \in Mixed(SentSince(k, e, i))
    BY <1>14, <2>1
  <2> HIDE DEF b
  <2>3. \A j \in BufferKey : BufferInv(j)'
    BY <1>10, <2>1
  <2>4. CASE event'.type # "Completed"
    BY <1>5, <2>3, <2>4
  <2>5. CASE event'.type = "Completed"
    <3> DEFINE r == event'.result
    <3>1. event'.key = k /\ r \in Result
      BY <1>3, <2>1, <2>2, <2>5, FinishType
    <3>2. /\ r.utc = b.utc /\ r.from = b.from /\ r.to = b.to /\ r.command = b.command
          /\ r.checksum = "valid" => \A T : b.text \in T => Confirms(r, T)
      BY <1>3, <2>1, <2>2, <2>5, FinishReports
    <3>3. delivered' = [delivered EXCEPT ![k] = Append(@, r)]
      BY <1>5, <2>5, <3>1
    <3> HIDE DEF r
    <3>4. PICK e \in Channel : \E i \in DOMAIN sent[e] :
            /\ k \in KeysOf(e)
            /\ Promise!BearsHeaderOf(b, sent[e][i])
            /\ b.text \in Mixed(SentSince(k, e, i))
      BY <2>2
    <3>5. PICK i \in DOMAIN sent[e] :
            /\ k \in KeysOf(e)
            /\ Promise!BearsHeaderOf(b, sent[e][i])
            /\ b.text \in Mixed(SentSince(k, e, i))
      BY <3>4
    <3>6. Promise!BearsHeaderOf(r, sent[e][i])
      BY <3>2, <3>5 DEF Promise!BearsHeaderOf
    <3>7. r.checksum = "valid" => Confirms(r, Mixed(SentSince(k, e, i)))
      BY <3>2, <3>5
    <3>8. Assembled(k, r)
      BY <3>5, <3>6, <3>7 DEF Assembled
    <3> QED BY <1>3, <2>3, <3>1, <3>3, <3>8
  <2> QED BY <2>4, <2>5
<1> QED BY <1>4, <1>11, <1>12, <1>13, <1>15, <1>16 DEF PushDecoded

LEMMA AppendedResult ==
  ASSUME AirTypeOK, NEW k \in BufferKey, NEW r \in Result,
         delivered' = [delivered EXCEPT ![k] = Append(@, r)]
  PROVE  /\ delivered'[k] = Append(delivered[k], r)
         /\ delivered'[k] # <<>> /\ Promise!Last(delivered'[k]) = r
         /\ \A j \in BufferKey : \A i \in DOMAIN delivered'[j] :
              \/ i \in DOMAIN delivered[j] /\ delivered'[j][i] = delivered[j][i]
              \/ j = k /\ delivered'[j][i] = r
<1>1. delivered[k] \in Seq(Result) /\ delivered'[k] = Append(delivered[k], r)
  BY DEF AirTypeOK
<1>2. /\ Append(delivered[k], r) \in Seq(Result) /\ Append(delivered[k], r) # <<>>
      /\ Len(Append(delivered[k], r)) = Len(delivered[k]) + 1
      /\ Append(delivered[k], r)[Len(delivered[k]) + 1] = r
  BY <1>1, AppendProperties
<1>3. Promise!Last(delivered'[k]) = r
  BY <1>1, <1>2 DEF Promise!Last
<1>4. /\ DOMAIN delivered[k] = 1..Len(delivered[k]) /\ Len(delivered[k]) \in Nat
      /\ DOMAIN delivered'[k] = 1..(Len(delivered[k]) + 1)
      /\ \A i \in 1..Len(delivered[k]) : delivered'[k][i] = delivered[k][i]
      /\ delivered'[k][Len(delivered[k]) + 1] = r
  BY <1>1, AppendResult
<1>5. ASSUME NEW j \in BufferKey, NEW i \in DOMAIN delivered'[j]
      PROVE  \/ i \in DOMAIN delivered[j] /\ delivered'[j][i] = delivered[j][i]
             \/ j = k /\ delivered'[j][i] = r
  <2>1. CASE j = k
    BY <1>4, <2>1
  <2>2. CASE j # k
    <3>1. delivered'[j] = delivered[j]
      BY <2>2 DEF AirTypeOK
    <3> QED BY <3>1
  <2> QED BY <2>1, <2>2
<1> QED BY <1>1, <1>2, <1>3, <1>5

(* One channel's message begins in a later slot than all its headers.      *)
LEMMA BeginIsSend ==
  ASSUME AirTypeOK, NEW c \in Channel, NEW m \in Traffic, BeginMessage(c, m), OnAirInv(c)
  PROVE  \E s \in [message : Traffic, first : Nat] :
           /\ sent' = [sent EXCEPT ![c] = Append(@, s)]
           /\ Promise!Next
<1> DEFINE s == [message |-> m, first |-> slot[c] + 1]
<1>1. slot[c] \in Nat
  BY DEF AirTypeOK
<1>2. s \in [message : Traffic, first : Nat]
  BY <1>1
<1>3. /\ sent' = [sent EXCEPT ![c] = Append(@, s)] /\ queue[c] = <<>>
      /\ delivered' = delivered
  BY DEF BeginMessage
<1>4. sent[c] \in Seq([message : Traffic, first : Nat])
  BY SentType
<1>5. sent'[c] = Append(sent[c], s)
  BY <1>3 DEF AirTypeOK
<1>6. sent'[c] # <<>> /\ Promise!Last(sent'[c]) = s
  BY <1>2, <1>4, <1>5, AppendProperties DEF Promise!Last
<1>7. \A i \in DOMAIN sent[c] : Promise!HeaderSlot(sent[c][i]) < s.first
  <2> SUFFICES ASSUME NEW i \in DOMAIN sent[c]
               PROVE  Promise!HeaderSlot(sent[c][i]) < s.first
    OBVIOUS
  <2>1. Promise!HeaderSlot(sent[c][i]) <= slot[c]
    BY <1>3, HeadersReached
  <2>2. sent[c][i].first \in Nat
    BY SentType
  <2>3. Promise!HeaderSlot(sent[c][i]) \in Int
    BY <2>2 DEF Promise!HeaderSlot
  <2> QED BY <1>1, <2>1, <2>3
<1>8. s.message \in Traffic /\ s.first \in Nat
  BY <1>2
<1> HIDE DEF s
<1>9. Promise!Send(c, Promise!Last(sent'[c]))
  BY <1>3, <1>6, <1>7, <1>8 DEF Promise!Send
<1>10. Promise!Next
  BY <1>6, <1>9 DEF Promise!Next
<1> QED BY <1>2, <1>3, <1>10

LEMMA GenuineInvStep == GenuineInv /\ [Next]_vars => GenuineInv'
<1> SUFFICES ASSUME GenuineInv, [Next]_vars PROVE GenuineInv'
  OBVIOUS
<1>1. AirTypeOK /\ AirTypeOK'
  BY AirTypeStep DEF GenuineInv
<1>2. /\ \A c \in Channel : OnAirInv(c)
      /\ \A k \in BufferKey : BufferInv(k)
      /\ ResultsAssembled
  BY DEF GenuineInv
<1>3. ASSUME \/ \E c \in Channel : \E s \in [message : Traffic, first : Nat] :
                  sent' = [sent EXCEPT ![c] = Append(@, s)]
             \/ sent' = sent,
             delivered' = delivered
      PROVE  ResultsAssembled'
  <2>1. ASSUME NEW k \in BufferKey, NEW i \in DOMAIN delivered'[k]
        PROVE  Assembled(k, delivered[k][i])'
    <3>1. PICK r : r = delivered[k][i]
      OBVIOUS
    <3>2. r = delivered'[k][i]
      BY <1>3, <3>1
    <3>3. Assembled(k, r)
      BY <1>2, <1>3, <2>1, <3>1 DEF ResultsAssembled
    <3>4. Assembled(k, r)'
      BY <1>1, <1>3, <3>3, SentGrows
    <3> QED BY <3>2, <3>4
  <2> QED BY <2>1 DEF ResultsAssembled
<1>4. ASSUME \/ \E c \in Channel : \E s \in [message : Traffic, first : Nat] :
                  sent' = [sent EXCEPT ![c] = Append(@, s)]
             \/ sent' = sent,
             buffers' = buffers, delivered' = delivered
      PROVE  (\A k \in BufferKey : BufferInv(k)') /\ ResultsAssembled'
  BY <1>1, <1>2, <1>4, <1>3, SentGrows
<1>5. ASSUME NEW c \in Channel, NEW m \in Traffic, BeginMessage(c, m)
      PROVE  GenuineInv'
  <2>1. \E s \in [message : Traffic, first : Nat] :
          sent' = [sent EXCEPT ![c] = Append(@, s)]
    BY <1>1, <1>2, <1>5, BeginIsSend
  <2>2. (\A k \in BufferKey : BufferInv(k)') /\ ResultsAssembled'
    BY <1>4, <1>5, <2>1 DEF BeginMessage
  <2>3. ASSUME NEW e \in Channel PROVE OnAirInv(e)'
    <3>1. CASE e = c
      BY <1>1, <1>2, <1>5, <3>1, OnAirOfBegin
    <3>2. CASE e # c
      <4>1. /\ onAir'[e] = onAir[e] /\ queue'[e] = queue[e] /\ slot'[e] = slot[e]
            /\ sent'[e] = sent[e]
        BY <1>1, <1>5, <3>2 DEF BeginMessage, Advance, AirTypeOK
      <4> QED BY <1>2, <4>1 DEF OnAirInv
    <3> QED BY <3>1, <3>2
  <2> QED BY <1>1, <2>2, <2>3 DEF GenuineInv
<1>6. ASSUME NEW c \in Channel, ContinueMessage(c)
      PROVE  GenuineInv'
  <2>3. (\A k \in BufferKey : BufferInv(k)') /\ ResultsAssembled'
    BY <1>4, <1>6 DEF ContinueMessage
  <2>4. ASSUME NEW e \in Channel PROVE OnAirInv(e)'
    <3>1. CASE e = c
      BY <1>1, <1>2, <1>6, <3>1, OnAirOfContinue
    <3>2. CASE e # c
      <4>1. /\ onAir'[e] = onAir[e] /\ queue'[e] = queue[e] /\ slot'[e] = slot[e]
            /\ sent'[e] = sent[e]
        BY <1>1, <1>6, <3>2 DEF ContinueMessage, Advance, AirTypeOK
      <4> QED BY <1>2, <4>1 DEF OnAirInv
    <3> QED BY <3>1, <3>2
  <2> QED BY <1>1, <2>3, <2>4 DEF GenuineInv
<1>7. ASSUME NEW c \in Channel, Decode(c)
      PROVE  GenuineInv'
  <2>1. /\ onAir' = onAir /\ queue' = queue /\ slot' = slot /\ sent' = sent
    BY <1>7 DEF Decode
  <2>2. \A e \in Channel : OnAirInv(e)'
    BY <1>2, <2>1 DEF OnAirInv
  <2>3. /\ \A k \in BufferKey : BufferInv(k)'
        /\ \/ delivered' = delivered
           \/ \E k \in BufferKey : \E r \in Result :
                /\ Assembled(k, r)
                /\ delivered' = [delivered EXCEPT ![k] = Append(@, r)]
    BY <1>1, <1>2, <1>7, GenuineOfDecode
  <2>4. ASSUME NEW j \in BufferKey, NEW r, Assembled(j, r)
        PROVE  Assembled(j, r)'
    BY <1>1, <2>1, <2>4, SentGrows
  <2>5. ASSUME NEW j \in BufferKey, NEW i \in DOMAIN delivered'[j]
        PROVE  Assembled(j, delivered'[j][i])
    <3>1. CASE delivered' = delivered
      BY <1>2, <2>5, <3>1 DEF ResultsAssembled
    <3>2. ASSUME NEW k \in BufferKey, NEW r \in Result, Assembled(k, r),
                 delivered' = [delivered EXCEPT ![k] = Append(@, r)]
          PROVE  Assembled(j, delivered'[j][i])
      <4>1. \/ i \in DOMAIN delivered[j] /\ delivered'[j][i] = delivered[j][i]
            \/ j = k /\ delivered'[j][i] = r
        BY <1>1, <2>5, <3>2, AppendedResult
      <4> QED BY <1>2, <3>2, <4>1 DEF ResultsAssembled
    <3> QED BY <2>3, <3>1, <3>2
  <2>6. ResultsAssembled'
    <3> SUFFICES ASSUME NEW j \in BufferKey, NEW i \in DOMAIN delivered'[j]
                 PROVE  Assembled(j, delivered[j][i])'
      BY DEF ResultsAssembled
    <3>1. PICK r : r = delivered'[j][i]
      OBVIOUS
    <3>2. Assembled(j, r)
      BY <2>5, <3>1
    <3>3. Assembled(j, r)'
      BY <2>4, <3>2
    <3> QED BY <3>1, <3>3
  <2> QED BY <1>1, <2>2, <2>3, <2>6 DEF GenuineInv
<1>8. CASE ClearBuffers
  <2>1. /\ \A k \in BufferKey : buffers'[k] = NoBuffer
        /\ UNCHANGED <<sent, queue, onAir, slot, delivered>>
    BY <1>8 DEF ClearBuffers, Clear, airVars
  <2>2. \A k \in BufferKey : BufferInv(k)'
    BY <2>1 DEF BufferInv
  <2>3. \A c \in Channel : OnAirInv(c)'
    BY <1>2, <2>1 DEF OnAirInv
  <2>4. ResultsAssembled'
    BY <1>3, <2>1
  <2> QED BY <1>1, <2>2, <2>3, <2>4 DEF GenuineInv
<1>9. CASE UNCHANGED vars
  <2>1. \A c \in Channel : OnAirInv(c)'
    BY <1>2, <1>9 DEF vars, OnAirInv
  <2>2. (\A k \in BufferKey : BufferInv(k)') /\ ResultsAssembled'
    BY <1>4, <1>9 DEF vars
  <2> QED BY <1>1, <2>1, <2>2 DEF GenuineInv
<1> QED BY <1>5, <1>6, <1>7, <1>8, <1>9 DEF Next

(* Whatever is lost, repeated, cleared or filed under a neighbouring       *)
(* stream, a result bears the header of a message some station sent on its *)
(* stream; and one whose checksum was confirmed is text of data frames     *)
(* sent there from that message on.  Nothing is asked of the checksum.     *)
THEOREM ResultsAreAssembled == Spec => []ResultsAssembled
<1>1. BufferedInit => GenuineInv
  BY GenuineInvInit
<1>2. GenuineInv /\ [Next]_vars => GenuineInv'
  BY GenuineInvStep
<1>3. GenuineInv => ResultsAssembled
  BY DEF GenuineInv
<1> QED BY <1>1, <1>2, <1>3, PTL DEF Spec

(* The hypothesis under which a confirmed checksum proves a payload: no    *)
(* text collected from the frames of some messages passes the check with a *)
(* payload that is the text of none of them.  16 bits leave a residue of   *)
(* texts that do; what the code relies on is that these are not met.       *)
IdealChecksum ==
  \A S \in SUBSET Traffic : \A t \in Mixed(S) :
    \A to \in Address, command \in Command :
      LET done == FinalizeBufferedPayload(to, command, TrimRight(t))
      IN  done.checksum = "valid" => \E m \in S : done.payload = m.text

LEMMA AssembledIsGenuine ==
  ASSUME IdealChecksum, AirTypeOK, NEW k \in BufferKey, NEW r \in Result, Assembled(k, r)
  PROVE  Promise!Genuine(k, r)
<1>1. PICK c \in Channel : \E i \in DOMAIN sent[c] :
        /\ k \in KeysOf(c)
        /\ Promise!BearsHeaderOf(r, sent[c][i])
        /\ r.checksum = "valid" => Confirms(r, Mixed(SentSince(k, c, i)))
  BY DEF Assembled
<1>2. PICK i \in DOMAIN sent[c] :
        /\ k \in KeysOf(c)
        /\ Promise!BearsHeaderOf(r, sent[c][i])
        /\ r.checksum = "valid" => Confirms(r, Mixed(SentSince(k, c, i)))
  BY <1>1
<1>3. ASSUME r.checksum = "valid"
      PROVE  \E d \in Channel : \E j \in DOMAIN sent[d] :
               /\ k \in KeysOf(d)
               /\ d = c => i <= j
               /\ r.payload = sent[d][j].message.text
  <2>1. PICK t \in Mixed(SentSince(k, c, i)) :
          LET done == FinalizeBufferedPayload(r.to, r.command, TrimRight(t))
          IN  done.checksum = "valid" /\ r.payload = done.payload
    BY <1>2, <1>3 DEF Confirms
  <2>2. SentSince(k, c, i) \in SUBSET Traffic
    BY DEF SentSince
  <2>3. r.to \in Address /\ r.command \in Command
    BY DEF Result
  <2>4. PICK m \in SentSince(k, c, i) : r.payload = m.text
    <3> DEFINE done == FinalizeBufferedPayload(r.to, r.command, TrimRight(t))
    <3>1. done.checksum = "valid" /\ r.payload = done.payload
      BY <2>1
    <3>2. done.checksum = "valid" => \E m \in SentSince(k, c, i) : done.payload = m.text
      BY <2>2, <2>3 DEF IdealChecksum
    <3> HIDE DEF done
    <3> QED BY <3>1, <3>2
  <2> QED BY <2>4 DEF SentSince
<1> QED BY <1>2, <1>3 DEF Promise!Genuine

LEMMA RefinesPromise ==
  ASSUME IdealChecksum, GenuineInv, GenuineInv', [Next]_vars
  PROVE  [Promise!Next]_Promise!vars
<1>1. /\ AirTypeOK /\ AirTypeOK' /\ \A c \in Channel : OnAirInv(c)
      /\ \A k \in BufferKey : BufferInv(k)
  BY DEF GenuineInv
<1>2. ASSUME NEW c \in Channel, NEW m \in Traffic, BeginMessage(c, m)
      PROVE  Promise!Next
  BY <1>1, <1>2, BeginIsSend
<1>3. ASSUME NEW c \in Channel, ContinueMessage(c)
      PROVE  UNCHANGED Promise!vars
  BY <1>3 DEF ContinueMessage, Promise!vars
<1>4. ASSUME NEW c \in Channel, Decode(c)
      PROVE  [Promise!Next]_Promise!vars
  <2>1. sent' = sent
    BY <1>4 DEF Decode
  <2>2. CASE delivered' = delivered
    BY <2>1, <2>2 DEF Promise!vars
  <2>3. ASSUME NEW k \in BufferKey, NEW r \in Result, Assembled(k, r),
               delivered' = [delivered EXCEPT ![k] = Append(@, r)]
        PROVE  Promise!Next
    <3>1. Promise!Genuine(k, r)
      BY <1>1, <2>3, AssembledIsGenuine
    <3>2. delivered'[k] # <<>> /\ Promise!Last(delivered'[k]) = r
      BY <1>1, <2>3, AppendedResult
    <3>3. Promise!Deliver(k, Promise!Last(delivered'[k]))
      BY <2>1, <2>3, <3>1, <3>2 DEF Promise!Deliver
    <3> QED BY <3>2, <3>3 DEF Promise!Next
  <2>4. \/ delivered' = delivered
        \/ \E k \in BufferKey : \E r \in Result :
             /\ Assembled(k, r)
             /\ delivered' = [delivered EXCEPT ![k] = Append(@, r)]
    BY <1>1, <1>4, GenuineOfDecode
  <2> QED BY <2>2, <2>3, <2>4
<1>5. CASE ClearBuffers \/ UNCHANGED vars
  BY <1>5 DEF ClearBuffers, airVars, vars, Promise!vars
<1> QED BY <1>2, <1>3, <1>4, <1>5 DEF Next

(* The receiver keeps its promise: it implements MessageDelivery, under    *)
(* which every result is that of a message really sent, for any number of  *)
(* channels at any frequencies, any losses and any repetitions.            *)
THEOREM ResultsAreGenuine == IdealChecksum => (Spec => Delivery)
<1> SUFFICES ASSUME IdealChecksum PROVE Spec => Delivery
  OBVIOUS
<1>1. BufferedInit => GenuineInv
  BY GenuineInvInit
<1>2. GenuineInv /\ [Next]_vars => GenuineInv'
  BY GenuineInvStep
<1>3. BufferedInit => Promise!Init
  BY DEF BufferedInit, AirInit, Promise!Init
<1>4. GenuineInv /\ GenuineInv' /\ [Next]_vars => [Promise!Next]_Promise!vars
  BY RefinesPromise
<1> QED BY <1>1, <1>2, <1>3, <1>4, PTL DEF Spec, Delivery, Promise!Spec
-----------------------------------------------------------------------------
(* The hypothesis is one a checksum can meet: it is enough that no text    *)
(* sent holds, but as its own checksum, the character a checksum ends in.  *)
(* Distinct such characters for distinct texts are what the runs use.      *)

MarkedChecksum ==
  \A p \in Text :
    LET n == Len(Checksum16(p))
    IN  /\ n \in Nat \ {0}
        /\ \A m \in Traffic : \A i \in DOMAIN DataText(m) :
             DataText(m)[i] = Checksum16(p)[n] => p = m.text

LEMMA DataFrameText ==
  ASSUME NEW t \in Text, NEW q \in 1..Len(DataFrames(t)),
         NEW i \in 1..Len(DataFrames(t)[q].text)
  PROVE  \E j \in DOMAIN t : DataFrames(t)[q].text[i] = t[j]
<1> DEFINE lo == (q - 1) * FragmentLen + 1
           up == q * FragmentLen
           hi == Min({up, Len(t)})
<1>1. Len(t) \in Nat /\ DOMAIN t = 1..Len(t) /\ \A j \in 1..Len(t) : t[j] \in Char
  BY DEF Text
<1>2. DOMAIN DataFrames(t) = 1..Len(DataFrames(t)) /\ Len(DataFrames(t)) \in Nat
  BY DataFramesType, LenProperties
<1>3. DataFrames(t)[q].text = SubSeq(t, lo, hi)
  BY <1>2 DEF DataFrames
<1>4. lo \in Nat \ {0} /\ up \in Int
  BY <1>2, FragmentAssumption
<1> HIDE DEF lo, up
<1>5. hi \in Int /\ hi <= Len(t)
  <2>1. up \in Int /\ Len(t) \in Int
    BY <1>1, <1>4
  <2> QED BY <2>1, MinPair, Zenon
<1> HIDE DEF hi
<1>6. /\ Len(SubSeq(t, lo, hi)) = IF lo <= hi THEN hi - lo + 1 ELSE 0
      /\ \A j \in 1..(hi - lo + 1) : SubSeq(t, lo, hi)[j] = t[lo + j - 1]
  BY <1>1, <1>4, <1>5, SubSeqProperties
<1>7. i \in 1..(hi - lo + 1) /\ lo <= hi
  BY <1>3, <1>4, <1>5, <1>6
<1>8. lo + i - 1 \in DOMAIN t
  BY <1>1, <1>4, <1>5, <1>7
<1> QED BY <1>3, <1>6, <1>7, <1>8

(* A text mixed of messages S has only their characters.                   *)
LEMMA MixedCharacters ==
  ASSUME NEW S \in SUBSET Traffic, NEW t \in Mixed(S), NEW i \in 1..Len(t)
  PROVE  \E m \in S : \E j \in DOMAIN DataText(m) : t[i] = DataText(m)[j]
<1> DEFINE Known(x) == \E m \in S : \E j \in DOMAIN DataText(m) : x = DataText(m)[j]
           T == {u \in Text : \A j \in 1..Len(u) : Known(u[j])}
<1>1. <<>> \in T
  BY EmptySeq DEF Text
<1>2. ASSUME NEW g \in Fragments(S), NEW j \in 1..Len(g) PROVE Known(g[j])
  <2>1. PICK m \in S : \E p \in DOMAIN FramesOf(m) :
          FramesOf(m)[p].kind = "data" /\ g = FramesOf(m)[p].text
    BY DEF Fragments
  <2>2. PICK p \in DOMAIN FramesOf(m) :
          FramesOf(m)[p].kind = "data" /\ g = FramesOf(m)[p].text
    BY <2>1
  <2>3. p \in 1..Len(FramesOf(m))
    BY <2>2, FramesType, LenProperties
  <2>4. PICK q \in 1..Len(DataFrames(DataText(m))) :
          g = DataFrames(DataText(m))[q].text
    BY <2>2, <2>3, FramePlaces
  <2>5. \E n \in DOMAIN DataText(m) : g[j] = DataText(m)[n]
    <3>1. DataText(m) \in Text
      BY PartsType
    <3>2. j \in 1..Len(DataFrames(DataText(m))[q].text)
      BY <2>4
    <3> QED BY <2>4, <3>1, <3>2, DataFrameText
  <2> QED BY <2>5
<1>3. ASSUME NEW u \in T, NEW g \in Fragments(S) PROVE u \o g \in T
  <2>1. u \in Seq(Char) /\ g \in Seq(Char)
    BY DEF Fragments, Text
  <2>2. /\ u \o g \in Text
        /\ Len(u \o g) = Len(u) + Len(g) /\ Len(u) \in Nat /\ Len(g) \in Nat
        /\ \A j \in 1..Len(u) + Len(g) :
             (u \o g)[j] = IF j <= Len(u) THEN u[j] ELSE g[j - Len(u)]
    BY <2>1, ConcatProperties, LenProperties DEF Text
  <2>3. ASSUME NEW j \in 1..Len(u \o g) PROVE Known((u \o g)[j])
    <3>1. CASE j <= Len(u)
      <4>1. (u \o g)[j] = u[j] /\ j \in 1..Len(u)
        BY <2>2, <3>1
      <4>2. Known(u[j])
        BY <4>1
      <4> QED BY <4>1, <4>2
    <3>2. CASE j > Len(u)
      <4>1. (u \o g)[j] = g[j - Len(u)] /\ j - Len(u) \in 1..Len(g)
        BY <2>2, <3>2
      <4>2. Known(g[j - Len(u)])
        BY <1>2, <4>1
      <4> QED BY <4>1, <4>2
    <3> QED BY <2>2, <3>1, <3>2
  <2> QED BY <2>2, <2>3
<1>4. T \in SUBSET Text
  OBVIOUS
<1> HIDE DEF T
<1>5. t \in T
  BY <1>1, <1>3, <1>4 DEF Mixed
<1> QED BY <1>5 DEF T

(* A payload confirmed by a checksum so marked is that of a sent message,  *)
(* so the hypothesis of ResultsAreGenuine can be met.                      *)
THEOREM MarkedChecksumIsIdeal == MarkedChecksum => IdealChecksum
<1> SUFFICES ASSUME MarkedChecksum,
                    NEW S \in SUBSET Traffic, NEW t \in Mixed(S), NEW to, NEW command,
                    FinalizeBufferedPayload(to, command, TrimRight(t)).checksum = "valid"
             PROVE  \E m \in S :
                      FinalizeBufferedPayload(to, command, TrimRight(t)).payload = m.text
  BY DEF IdealChecksum
<1> DEFINE right == TrimRight(t)
           message == TrimLeft(right)
           n == Len(message) - ChecksumLen - 1
           payload == SubSeq(message, 1, n)
           sum == SubSeq(message, n + 2, Len(message))
<1>1. /\ t \in Seq(Char) /\ right \in Seq(Char) /\ message \in Seq(Char)
  BY TrimType DEF Mixed, Text
<1>2. /\ Len(t) \in Nat /\ Len(right) \in Nat /\ Len(message) \in Nat
      /\ \A i \in 1..Len(t) : t[i] \in Char
      /\ \A i \in 1..Len(right) : right[i] \in Char
      /\ \A i \in 1..Len(message) : message[i] \in Char
  BY <1>1
<1>3. \A i \in 1..Len(right) : \E j \in 1..Len(t) : right[i] = t[j]
  <2> DEFINE last == SelectLastInSeq(t, NotSpace)
  <2>1. last \in 0..Len(t) /\ right = SubSeq(t, 1, last)
    BY <1>1, NonSpaceIndices DEF TrimRight, Text
  <2> HIDE DEF last, right
  <2>2. /\ Len(SubSeq(t, 1, last)) = IF 1 <= last THEN last - 1 + 1 ELSE 0
        /\ \A i \in 1..(last - 1 + 1) : SubSeq(t, 1, last)[i] = t[1 + i - 1]
    BY <1>2, <2>1, SubSeqProperties
  <2> QED BY <1>2, <2>1, <2>2
<1>4. \A i \in 1..Len(message) : \E j \in 1..Len(right) : message[i] = right[j]
  <2> DEFINE first == SelectInSeq(right, NotSpace)
  <2>1. first \in 0..Len(right)
    BY <1>1, NonSpaceIndices DEF Text
  <2>2. message = IF first = 0 THEN <<>> ELSE SubSeq(right, first, Len(right))
    BY DEF TrimLeft
  <2> HIDE DEF first, right, message
  <2>3. CASE first = 0
    BY <1>2, <2>2, <2>3
  <2>4. CASE first # 0
    <3>1. /\ Len(SubSeq(right, first, Len(right)))
               = IF first <= Len(right) THEN Len(right) - first + 1 ELSE 0
          /\ \A i \in 1..(Len(right) - first + 1) :
               SubSeq(right, first, Len(right))[i] = right[first + i - 1]
      BY <1>2, <2>1, <2>4, SubSeqProperties
    <3> QED BY <1>2, <2>1, <2>2, <2>4, <3>1
  <2> QED BY <2>3, <2>4
<1>5. /\ n >= 0 /\ sum = Checksum16(payload)
      /\ FinalizeBufferedPayload(to, command, right).payload = payload
  BY <1>2, TextAssumption DEF FinalizeBufferedPayload
<1>6. n \in Int /\ n + 2 \in Int /\ n <= Len(message)
  BY <1>2, TextAssumption
<1> HIDE DEF right, message, n
<1>7. payload \in Text
  BY <1>2, <1>6, SubSeqProperties DEF Text
<1>8. /\ Len(sum) = IF n + 2 <= Len(message) THEN Len(message) - (n + 2) + 1 ELSE 0
      /\ \A i \in 1..(Len(message) - (n + 2) + 1) : sum[i] = message[(n + 2) + i - 1]
  <2>1. \A i \in (n + 2)..Len(message) : message[i] \in Char
    BY <1>2, <1>5, <1>6
  <2> QED BY <1>2, <1>6, <2>1, SubSeqProperties
<1> HIDE DEF payload, sum
<1>9. Len(Checksum16(payload)) \in Nat \ {0}
  BY <1>7 DEF MarkedChecksum
<1>10. sum[Len(sum)] = message[Len(message)] /\ Len(message) >= 1
  <2>1. n + 2 <= Len(message) /\ Len(sum) = Len(message) - (n + 2) + 1
    BY <1>5, <1>8, <1>9
  <2>2. Len(sum) \in 1..(Len(message) - (n + 2) + 1)
    BY <1>2, <1>6, <2>1
  <2>3. sum[Len(sum)] = message[(n + 2) + Len(sum) - 1]
    BY <1>8, <2>2
  <2>4. (n + 2) + Len(sum) - 1 = Len(message)
    BY <1>2, <1>6, <2>1
  <2>5. sum[Len(sum)] = message[Len(message)]
    BY <2>3, <2>4
  <2>6. Len(message) >= 1
    BY <1>2, <1>5, <1>6, <2>1
  <2> QED BY <2>5, <2>6
<1>11. PICK j \in 1..Len(t) : message[Len(message)] = t[j]
  <2>1. Len(message) \in 1..Len(message)
    BY <1>2, <1>10
  <2> QED BY <1>3, <1>4, <2>1
<1>12. PICK m \in S : \E i \in DOMAIN DataText(m) : t[j] = DataText(m)[i]
  BY MixedCharacters
<1>13. payload = m.text
  <2>1. PICK i \in DOMAIN DataText(m) : t[j] = DataText(m)[i]
    BY <1>12
  <2>2. DataText(m)[i] = Checksum16(payload)[Len(Checksum16(payload))]
    BY <1>5, <1>10, <1>11, <2>1
  <2> QED BY <1>7, <2>2 DEF MarkedChecksum
<1> QED BY <1>5, <1>13 DEF right
-----------------------------------------------------------------------------
(* Every message is delivered as it was sent, if nothing is missed.        *)

(* A text without a space at an end is not trimmed there.                  *)
LEMMA TrimKeeps ==
  ASSUME NEW t \in Text, t # <<>>
  PROVE  /\ t[Len(t)] # Space => TrimRight(t) = t
         /\ t[1] # Space => TrimLeft(t) = t
<1> DEFINE I == {i \in 1..Len(t) : NotSpace(t[i])}
<1>1. t \in Seq(Char) /\ Len(t) \in Nat \ {0}
  BY EmptySeq DEF Text
<1>2. ASSUME t[Len(t)] # Space PROVE TrimRight(t) = t
  <2>1. Len(t) \in I /\ \A y \in I : Len(t) >= y
    BY <1>1, <1>2 DEF NotSpace
  <2>2. \A x \in I : (\A y \in I : x >= y) => x = Len(t)
    BY <1>1, <2>1
  <2> HIDE DEF I
  <2>3. Max(I) = Len(t)
    BY <2>1, <2>2 DEF Max
  <2>4. SelectLastInSeq(t, NotSpace) = Len(t)
    BY <2>1, <2>3 DEF SelectLastInSeq, I
  <2> QED BY <1>1, <2>4, SubSeqFull DEF TrimRight
<1>3. ASSUME t[1] # Space PROVE TrimLeft(t) = t
  <2>1. 1 \in I /\ \A y \in I : 1 <= y
    BY <1>1, <1>3 DEF NotSpace
  <2>2. \A x \in I : (\A y \in I : x <= y) => x = 1
    <3>1. \A x \in I : x \in Int
      BY <1>1
    <3> HIDE DEF I
    <3> QED BY <2>1, <3>1
  <2> HIDE DEF I
  <2>3. Min(I) = 1
    BY <2>1, <2>2 DEF Min
  <2>4. SelectInSeq(t, NotSpace) = 1
    BY <2>1, <2>3 DEF SelectInSeq, I
  <2> QED BY <1>1, <2>4, SubSeqFull DEF TrimLeft
<1> QED BY <1>2, <1>3

(* The text a message's data frames carry yields its payload again.        *)
LEMMA FinalizeWhole ==
  ASSUME Deliverable, NEW m \in Traffic, IsDirected(m), m.text # <<>>
  PROVE  /\ DataText(m) \in Text /\ DataText(m) # <<>>
         /\ FinalizeBufferedPayload(m.to, m.command, TrimRight(DataText(m)))
              = [payload |-> m.text,
                 checksum |-> IF CarriesChecksum(m.to, m.command) THEN "valid" ELSE "none"]
<1> DEFINE t == DataText(m)
           sum == Checksum16(m.text)
<1>1. m.text \in Seq(Char) /\ sum \in Seq(Char) /\ t \in Seq(Char)
  BY ChannelAssumption, PartsType DEF Message, Text
<1>2. Len(m.text) \in Nat \ {0} /\ Len(sum) \in Nat
  BY <1>1, EmptySeq
<1>3. /\ t[Len(t)] # Space
      /\ CarriesChecksum(m.to, m.command) => m.text[1] # Space /\ Len(sum) = ChecksumLen
  BY DEF Deliverable
<1>4. CASE ~ CarriesChecksum(m.to, m.command)
  <2>1. t = m.text
    BY <1>4 DEF DataText
  <2>2. TrimRight(t) = t
    BY <1>1, <1>3, <2>1, TrimKeeps DEF Text
  <2> QED BY <1>1, <1>4, <2>1, <2>2 DEF FinalizeBufferedPayload, Text
<1>5. CASE CarriesChecksum(m.to, m.command)
  <2> DEFINE front == m.text \o <<Space>>
             n == Len(m.text)
  <2>1. t = front \o sum
    BY <1>5 DEF DataText
  <2>2. <<Space>> \in Seq(Char) /\ Len(<<Space>>) = 1 /\ <<Space>>[1] = Space
    BY TextAssumption
  <2>3. /\ front \in Seq(Char) /\ Len(front) = n + 1
        /\ \A i \in 1..(n + 1) : front[i] = IF i <= n THEN m.text[i] ELSE <<Space>>[i - n]
    BY <1>1, <2>2, ConcatProperties
  <2>4. front[n + 1] = Space /\ front[1] = m.text[1]
    BY <1>2, <2>2, <2>3
  <2> HIDE DEF front, sum, n
  <2>5. /\ Len(front \o sum) = Len(front) + Len(sum)
        /\ \A i \in 1..Len(front) + Len(sum) :
             (front \o sum)[i] = IF i <= Len(front) THEN front[i] ELSE sum[i - Len(front)]
    BY <1>1, <2>3, ConcatProperties
  <2> HIDE DEF t
  <2>6. n \in Nat \ {0} /\ Len(sum) \in Nat /\ Len(t) = n + 1 + Len(sum)
    BY <1>2, <2>1, <2>3, <2>5 DEF n
  <2>7. t[n + 1] = Space /\ t[1] = m.text[1]
    BY <2>1, <2>3, <2>4, <2>5, <2>6
  <2>8. t # <<>> /\ t \in Text
    BY <1>1, <2>6, EmptySeq DEF Text
  <2>9. TrimRight(t) = t /\ TrimLeft(t) = t
    BY <1>3, <1>5, <2>7, <2>8, TrimKeeps
  <2>10. Len(t) - ChecksumLen - 1 = n
    BY <1>3, <1>5, <2>6
  <2>11. SubSeq(t, 1, n) = m.text
    <3>1. \A i \in 1..n : t[i] = m.text[i] /\ t[i] \in Char
      <4>1. \A i \in 1..n : m.text[i] \in Char
        BY <1>1 DEF n
      <4> QED BY <2>1, <2>3, <2>5, <2>6, <4>1
    <3>2. /\ SubSeq(t, 1, n) \in Seq(Char)
          /\ Len(SubSeq(t, 1, n)) = IF 1 <= n THEN n - 1 + 1 ELSE 0
          /\ \A i \in 1..(n - 1 + 1) : SubSeq(t, 1, n)[i] = t[1 + i - 1]
      BY <2>6, <3>1, SubSeqProperties
    <3>3. \A i \in 1..n : SubSeq(t, 1, n)[i] = m.text[i]
      BY <2>6, <3>1, <3>2
    <3>4. Len(SubSeq(t, 1, n)) = Len(m.text)
      BY <2>6, <3>2 DEF n
    <3> QED BY <1>1, <3>2, <3>3, <3>4, SeqEqual DEF n
  <2>12. SubSeq(t, n + 2, Len(t)) = sum
    <3>1. \A i \in 1..Len(sum) : t[n + 1 + i] = sum[i]
      BY <2>1, <2>3, <2>5, <2>6
    <3>2. \A i \in (n + 2)..Len(t) : t[i] \in Char
      BY <1>1, <2>6
    <3>3. /\ SubSeq(t, n + 2, Len(t)) \in Seq(Char)
          /\ Len(SubSeq(t, n + 2, Len(t)))
               = IF n + 2 <= Len(t) THEN Len(t) - (n + 2) + 1 ELSE 0
          /\ \A i \in 1..(Len(t) - (n + 2) + 1) :
               SubSeq(t, n + 2, Len(t))[i] = t[(n + 2) + i - 1]
      BY <2>6, <3>2, SubSeqProperties
    <3>4. Len(SubSeq(t, n + 2, Len(t))) = Len(sum)
      BY <2>6, <3>3
    <3>5. ASSUME NEW i \in 1..Len(sum) PROVE SubSeq(t, n + 2, Len(t))[i] = sum[i]
      <4>1. i \in 1..(Len(t) - (n + 2) + 1) /\ (n + 2) + i - 1 = n + 1 + i
        BY <2>6
      <4> QED BY <3>1, <3>3, <4>1
    <3> QED BY <1>1, <3>3, <3>4, <3>5, SeqEqual
  <2>13. FinalizeBufferedPayload(m.to, m.command, t)
           = [payload |-> m.text, checksum |-> "valid"]
    <3>1. SubSeq(t, n + 2, Len(t)) = Checksum16(SubSeq(t, 1, n))
      BY <2>11, <2>12 DEF sum
    <3>2. n >= 0
      BY <2>6
    <3>3. FinalizeBufferedPayload(m.to, m.command, t)
            = [payload |-> IF n < 0 THEN t ELSE SubSeq(t, 1, n),
               checksum |-> IF /\ n >= 0
                               /\ t[n + 1] = Space
                               /\ SubSeq(t, n + 2, Len(t)) = Checksum16(SubSeq(t, 1, n))
                            THEN "valid" ELSE "invalid"]
      BY <1>5, <2>9, <2>10, Zenon DEF FinalizeBufferedPayload
    <3>4. ~ n < 0
      BY <2>6
    <3> QED BY <2>7, <2>11, <3>1, <3>2, <3>3, <3>4
  <2> QED BY <1>5, <2>8, <2>9, <2>13 DEF t
<1> QED BY <1>4, <1>5

(* The fragments before the q-th and the q-th make the text one longer.    *)
LEMMA FragmentsAddUp ==
  ASSUME NEW t \in Text, NEW q \in 1..Len(DataFrames(t))
  PROVE  LET count == Len(DataFrames(t))
             before == (q - 1) * FragmentLen
         IN  /\ count \in Nat /\ before \in Nat /\ before <= Len(t)
             /\ SubSeq(t, 1, before) \o DataFrames(t)[q].text
                  = IF q = count THEN t ELSE SubSeq(t, 1, q * FragmentLen)
<1> DEFINE count == Len(DataFrames(t))
           before == (q - 1) * FragmentLen
           up == q * FragmentLen
           hi == Min({up, Len(t)})
<1>1. t \in Seq(Char) /\ Len(t) \in Nat
  BY DEF Text
<1>2. DOMAIN DataFrames(t) = 1..count /\ count \in Nat
  BY DataFramesType, LenProperties
<1>3. count = (Len(t) + FragmentLen - 1) \div FragmentLen
  <2> DEFINE n == (Len(t) + FragmentLen - 1) \div FragmentLen
  <2>1. n \in Nat
    <3>1. Len(t) + FragmentLen - 1 \in Nat
      BY <1>1, FragmentAssumption
    <3> QED BY <3>1, FragmentAssumption, DivMod
  <2>2. DOMAIN DataFrames(t) = 1..n
    BY DEF DataFrames
  <2> HIDE DEF n, count
  <2> QED BY <1>2, <2>1, <2>2 DEF n
<1>4. DataFrames(t)[q].text = SubSeq(t, before + 1, hi)
  BY <1>2 DEF DataFrames
<1> HIDE DEF count
<1>5. /\ before \in Nat /\ up \in Nat /\ up = before + FragmentLen
      /\ before < Len(t)
      /\ q = count => Len(t) <= up
      /\ q # count => up <= Len(t)
  <2> DEFINE x == Len(t) + FragmentLen - 1
             base == count * FragmentLen
  <2>1. x \in Nat /\ FragmentLen \in Nat \ {0}
    BY <1>1, FragmentAssumption
  <2>2. base \in Nat /\ base <= x /\ x < base + FragmentLen
    BY <1>3, <2>1, MultipleBelow
  <2>3. /\ q \in Nat /\ q - 1 \in Nat /\ count \in Nat /\ q <= count
    BY <1>2 DEF count
  <2>4. before \in Nat /\ up \in Nat /\ up = before + FragmentLen
    <3>1. ((q - 1) + 1) * FragmentLen = before + FragmentLen /\ before \in Nat
      BY <2>1, <2>3, MultiplesApart
    <3>2. (q - 1) + 1 = q
      BY <2>3
    <3> HIDE DEF before
    <3> QED BY <2>1, <3>1, <3>2
  <2>5. q # count => up + FragmentLen <= base
    <3>1. \/ q = count \/ up + FragmentLen <= base \/ base + FragmentLen <= up
      BY <2>1, <2>3, MultiplesApart
    <3>2. \A a, b \in Nat : a < b => a * FragmentLen < b * FragmentLen
      BY <2>1, SMTT(30)
    <3>3. q # count => up < base
      BY <2>3, <3>2
    <3> HIDE DEF up, base
    <3> QED BY <2>1, <2>2, <2>4, <3>1, <3>3
  <2>6. q = count => up = base
    OBVIOUS
  <2> HIDE DEF before, up, base
  <2> QED BY <1>1, <2>1, <2>2, <2>4, <2>5, <2>6
<1> HIDE DEF before, up
<1>6. hi = IF q = count THEN Len(t) ELSE up
  <2>1. {up, Len(t)} \subseteq Nat
    BY <1>1, <1>5
  <2>2. \A x \in {up, Len(t)} : (\A y \in {up, Len(t)} : x <= y)
          => x = (IF q = count THEN Len(t) ELSE up)
    BY <1>1, <1>5
  <2>3. (IF q = count THEN Len(t) ELSE up) \in {up, Len(t)}
    OBVIOUS
  <2>4. \A y \in {up, Len(t)} : (IF q = count THEN Len(t) ELSE up) <= y
    BY <1>1, <1>5
  <2> QED BY <2>2, <2>3, <2>4 DEF Min
<1> HIDE DEF hi
<1>7. before \in 0..Len(t) /\ hi \in before..Len(t)
  BY <1>1, <1>5, <1>6, FragmentAssumption
<1>8. SubSeq(t, 1, before) \o SubSeq(t, before + 1, hi) = SubSeq(t, 1, hi)
  <2>1. 1 \in 1..Len(t)+1 /\ before \in (1 - 1)..Len(t)
    BY <1>1, <1>7
  <2> QED BY <1>1, <1>7, <2>1, ConcatAdjacentSubSeq
<1>9. SubSeq(t, 1, Len(t)) = t
  BY <1>1, SubSeqFull
<1>10. before <= Len(t)
  BY <1>1, <1>5
<1>11. SubSeq(t, 1, before) \o DataFrames(t)[q].text
         = IF q = count THEN t ELSE SubSeq(t, 1, up)
  BY <1>4, <1>6, <1>8, <1>9
<1>12. count \in Nat /\ before \in Nat
  BY <1>2, <1>5
<1> QED BY <1>10, <1>11, <1>12 DEF count, before, up

LEMMA NoDataNoFrames ==
  ASSUME NEW t \in Text
  PROVE  Len(DataFrames(t)) \in Nat /\ (Len(DataFrames(t)) = 0 <=> t = <<>>)
<1> DEFINE x == Len(t) + FragmentLen - 1
           n == x \div FragmentLen
           count == Len(DataFrames(t))
<1>1. /\ Len(t) \in Nat /\ (Len(t) = 0 <=> t = <<>>)
      /\ FragmentLen \in Nat \ {0} /\ x \in Nat
  BY EmptySeq, FragmentAssumption DEF Text
<1>2. DOMAIN DataFrames(t) = 1..count /\ count \in Nat
  BY DataFramesType, LenProperties
<1>3. DOMAIN DataFrames(t) = 1..n
  BY DEF DataFrames
<1>4. n \in Nat /\ n * FragmentLen <= x /\ x < n * FragmentLen + FragmentLen
  BY <1>1, MultipleBelow, DivMod
<1> HIDE DEF n, count
<1>5. count = n
  BY <1>2, <1>3, <1>4
<1>6. n = 0 <=> Len(t) = 0
  <2>1. n = 0 => n * FragmentLen = 0
    BY <1>1
  <2>2. n # 0 => n * FragmentLen >= FragmentLen
    <3>1. \/ n = 0 \/ n * FragmentLen + FragmentLen <= 0 * FragmentLen
                   \/ 0 * FragmentLen + FragmentLen <= n * FragmentLen
      BY <1>1, <1>4, MultiplesApart
    <3>2. 0 * FragmentLen = 0 /\ n * FragmentLen \in Nat
      BY <1>1, <1>4, MultiplesApart
    <3> QED BY <1>1, <3>1, <3>2
  <2>3. n * FragmentLen \in Nat
    BY <1>1, <1>4, MultiplesApart
  <2> QED BY <1>1, <1>4, <2>1, <2>2, <2>3
<1> QED BY <1>1, <1>2, <1>5, <1>6 DEF count

(* What the p-th frame of a message is to the receiver.                    *)
LEMMA FrameKinds ==
  ASSUME NEW m \in Traffic, NEW p \in 1..Len(FramesOf(m))
  PROVE  LET f == FramesOf(m)[p]
             h == Len(Headers(m))
             data == DataFrames(DataText(m))
         IN  /\ h = IF m.command = NoCommand THEN 0 ELSE IF m.compound THEN 2 ELSE 1
             /\ Len(data) \in Nat /\ Len(FramesOf(m)) = h + Len(data)
             /\ f \in Frame /\ f.last = (p = Len(FramesOf(m)))
             /\ p < h => f.kind = "compound"
             /\ p = h => /\ f.kind = "directed"
                         /\ f.from = IF m.compound THEN Placeholder ELSE m.from
                         /\ f.to = m.to /\ f.command = m.command /\ f.text = <<>>
             /\ p > h => /\ p - h \in 1..Len(data)
                         /\ f.kind = "data" /\ f.text = data[p - h].text
             /\ m.text = <<>> => Len(data) = 0
<1> DEFINE h == Len(Headers(m))
           data == DataFrames(DataText(m))
           frame == IF p <= h THEN Headers(m)[p] ELSE data[p - h]
           f == FramesOf(m)[p]
<1>1. /\ h \in Nat /\ Len(data) \in Nat /\ Len(FramesOf(m)) = h + Len(data)
      /\ frame \in Frame /\ f \in Frame
      /\ f = [frame EXCEPT !.last = (p = Len(FramesOf(m)))]
  BY FrameAt
<1>2. h = IF m.command = NoCommand THEN 0 ELSE IF m.compound THEN 2 ELSE 1
  BY DEF Headers
<1>3. m.text = <<>> => Len(data) = 0
  <2> SUFFICES ASSUME m.text = <<>> PROVE Len(data) = 0
    OBVIOUS
  <2>1. DataText(m) = <<>> /\ <<>> \in Text
    BY PartsType DEF DataText
  <2> QED BY <2>1, NoDataNoFrames
<1> HIDE DEF frame, f
<1>4. /\ f.kind = frame.kind /\ f.from = frame.from /\ f.to = frame.to
      /\ f.command = frame.command /\ f.text = frame.text
      /\ f.last = (p = Len(FramesOf(m)))
  BY <1>1 DEF Frame
<1>5. CASE p <= h
  <2>1. frame = Headers(m)[p] /\ p \in 1..h
    BY <1>1, <1>5 DEF frame
  <2>2. LET g == IF m.compound THEN 2 ELSE 1 IN
        /\ m.command # NoCommand /\ h = g
        /\ p < g => frame.kind = "compound"
        /\ p = g => frame = HeaderFrame("directed",
                              IF m.compound THEN Placeholder ELSE m.from, m.to, m.command)
    BY <2>1, HeaderAt
  <2>3. p < h => f.kind = "compound"
    BY <1>4, <2>2
  <2>4. p = h => /\ f.kind = "directed"
                 /\ f.from = IF m.compound THEN Placeholder ELSE m.from
                 /\ f.to = m.to /\ f.command = m.command /\ f.text = <<>>
    BY <1>4, <2>2 DEF HeaderFrame
  <2>5. ~ p > h
    BY <1>1, <1>5
  <2> QED BY <1>1, <1>2, <1>3, <1>4, <2>3, <2>4, <2>5 DEF f
<1>6. CASE p > h
  <2>1. p - h \in 1..Len(data) /\ frame = data[p - h]
    BY <1>1, <1>6 DEF frame
  <2>2. frame.kind = "data"
    BY <2>1, PartsType, DataFrameKind
  <2>3. ~ p < h /\ p # h
    BY <1>1, <1>6
  <2> QED BY <1>1, <1>2, <1>3, <1>4, <2>1, <2>2, <2>3 DEF f
<1> QED BY <1>1, <1>5, <1>6

(* The results are those of the directed ones of the first N messages.     *)
ReportedUpTo(results, messages, N) ==
  \E place \in [DOMAIN results -> 1..N] :
    /\ \A i, j \in DOMAIN results : i < j => place[i] < place[j]
    /\ \A n \in 1..N :
         IsDirected(messages[n].message) <=> \E i \in DOMAIN results : place[i] = n
    /\ \A i \in DOMAIN results : results[i] = ResultOf(messages[place[i]])

LEMMA ReportedNothing == \A messages : ReportedUpTo(<<>>, messages, 0)
<1> SUFFICES ASSUME NEW messages PROVE ReportedUpTo(<<>>, messages, 0)
  OBVIOUS
<1> DEFINE none == [i \in {} |-> 0]
<1>1. DOMAIN <<>> = {} /\ none \in [{} -> 1..0] /\ 1..0 = {}
  OBVIOUS
<1> HIDE DEF none
<1> QED BY <1>1 DEF ReportedUpTo

LEMMA ReportedSame ==
  ASSUME NEW results, NEW messages, NEW other, NEW N \in Nat,
         ReportedUpTo(results, messages, N),
         \A n \in 1..N : other[n] = messages[n]
  PROVE  /\ ReportedUpTo(results, other, N)
         /\ DOMAIN other = 1..N => AreTheResultsOf(results, other)
<1>1. PICK place \in [DOMAIN results -> 1..N] :
        /\ \A i, j \in DOMAIN results : i < j => place[i] < place[j]
        /\ \A n \in 1..N :
             IsDirected(messages[n].message) <=> \E i \in DOMAIN results : place[i] = n
        /\ \A i \in DOMAIN results : results[i] = ResultOf(messages[place[i]])
  BY DEF ReportedUpTo
<1>2. /\ \A n \in 1..N :
           IsDirected(other[n].message) <=> \E i \in DOMAIN results : place[i] = n
      /\ \A i \in DOMAIN results : results[i] = ResultOf(other[place[i]])
  BY <1>1
<1> QED BY <1>1, <1>2 DEF ReportedUpTo, AreTheResultsOf

LEMMA ReportedSkip ==
  ASSUME NEW results, NEW messages, NEW N \in Nat,
         ReportedUpTo(results, messages, N),
         ~ IsDirected(messages[N + 1].message)
  PROVE  ReportedUpTo(results, messages, N + 1)
<1>1. PICK place \in [DOMAIN results -> 1..N] :
        /\ \A i, j \in DOMAIN results : i < j => place[i] < place[j]
        /\ \A n \in 1..N :
             IsDirected(messages[n].message) <=> \E i \in DOMAIN results : place[i] = n
        /\ \A i \in DOMAIN results : results[i] = ResultOf(messages[place[i]])
  BY DEF ReportedUpTo
<1>2. place \in [DOMAIN results -> 1..(N + 1)]
  BY <1>1
<1>3. \A n \in 1..(N + 1) :
        IsDirected(messages[n].message) <=> \E i \in DOMAIN results : place[i] = n
  <2> SUFFICES ASSUME NEW n \in 1..(N + 1)
               PROVE  IsDirected(messages[n].message)
                        <=> \E i \in DOMAIN results : place[i] = n
    OBVIOUS
  <2>1. CASE n \in 1..N
    BY <1>1, <2>1
  <2>2. CASE n = N + 1
    BY <1>1, <2>2
  <2> QED BY <2>1, <2>2
<1> QED BY <1>1, <1>2, <1>3 DEF ReportedUpTo

LEMMA ReportedNext ==
  ASSUME NEW results \in Seq(Result), NEW messages, NEW N \in Nat, NEW r \in Result,
         ReportedUpTo(results, messages, N),
         IsDirected(messages[N + 1].message), r = ResultOf(messages[N + 1])
  PROVE  ReportedUpTo(Append(results, r), messages, N + 1)
<1>1. PICK place \in [DOMAIN results -> 1..N] :
        /\ \A i, j \in DOMAIN results : i < j => place[i] < place[j]
        /\ \A n \in 1..N :
             IsDirected(messages[n].message) <=> \E i \in DOMAIN results : place[i] = n
        /\ \A i \in DOMAIN results : results[i] = ResultOf(messages[place[i]])
  BY DEF ReportedUpTo
<1> DEFINE l == Len(results)
           all == Append(results, r)
           further == [i \in 1..(l + 1) |-> IF i = l + 1 THEN N + 1 ELSE place[i]]
<1>2. /\ l \in Nat /\ DOMAIN results = 1..l /\ DOMAIN all = 1..(l + 1)
      /\ \A i \in 1..l : all[i] = results[i]
      /\ all[l + 1] = r
  BY AppendResult
<1> HIDE DEF l, all
<1>3. \A i \in 1..l : further[i] = place[i] /\ place[i] \in 1..N
  BY <1>1, <1>2
<1>4. further[l + 1] = N + 1 /\ further \in [DOMAIN all -> 1..(N + 1)]
  BY <1>2, <1>3
<1> HIDE DEF further
<1>5. \A i, j \in DOMAIN all : i < j => further[i] < further[j]
  <2> SUFFICES ASSUME NEW i \in 1..(l + 1), NEW j \in 1..(l + 1), i < j
               PROVE  further[i] < further[j]
    BY <1>2
  <2>1. i \in 1..l
    BY <1>2
  <2>2. CASE j \in 1..l
    BY <1>1, <1>2, <1>3, <2>1, <2>2
  <2>3. CASE j = l + 1
    BY <1>3, <1>4, <2>1, <2>3
  <2> QED BY <1>2, <2>2, <2>3
<1>6. \A n \in 1..(N + 1) :
        IsDirected(messages[n].message) <=> \E i \in DOMAIN all : further[i] = n
  <2> SUFFICES ASSUME NEW n \in 1..(N + 1)
               PROVE  IsDirected(messages[n].message)
                        <=> \E i \in 1..(l + 1) : further[i] = n
    BY <1>2
  <2>1. CASE n \in 1..N
    <3>1. (\E i \in 1..(l + 1) : further[i] = n) <=> \E i \in 1..l : place[i] = n
      BY <1>2, <1>3, <1>4, <2>1
    <3> QED BY <1>1, <1>2, <2>1, <3>1
  <2>2. CASE n = N + 1
    BY <1>2, <1>4, <2>2
  <2> QED BY <2>1, <2>2
<1>7. \A i \in DOMAIN all : all[i] = ResultOf(messages[further[i]])
  <2> SUFFICES ASSUME NEW i \in 1..(l + 1) PROVE all[i] = ResultOf(messages[further[i]])
    BY <1>2
  <2>1. CASE i \in 1..l
    BY <1>1, <1>2, <1>3, <2>1
  <2>2. CASE i = l + 1
    BY <1>2, <1>4, <2>2
  <2> QED BY <1>2, <2>1, <2>2
<1> QED BY <1>4, <1>5, <1>6, <1>7 DEF ReportedUpTo, all

(* The buffer a sent message s has open once q of its frames were heard.   *)
BufferAfter(s, q) ==
  LET m == s.message
      h == Len(Headers(m))
  IN  IF ~ IsDirected(m) \/ m.text = <<>> \/ q < h \/ q = Len(FramesOf(m)) THEN NoBuffer
      ELSE [from |-> IF m.compound THEN Placeholder ELSE m.from, to |-> m.to,
            command |-> m.command, utc |-> Promise!HeaderSlot(s),
            text |-> SubSeq(DataText(m), 1, (q - h) * FragmentLen)]

(* Frames heard of the message on the air.                                 *)
HeardOf(c) == slot[c] - sent[c][Len(sent[c])].first + decodes[c]

(* A stream holds what was heard of the message on the air, and reported   *)
(* that message if all of it was heard, and every earlier one.             *)
ExactInv(c) ==
  LET k == StreamOf(c)
      n == Len(sent[c])
      s == sent[c][n]
  IN  /\ decodes[c] \in 0..1
      /\ onAir[c] = Silence => buffers[k] = NoBuffer /\ delivered[k] = <<>>
      /\ onAir[c] # Silence =>
           /\ buffers[k] = BufferAfter(s, HeardOf(c))
           /\ ReportedUpTo(delivered[k], sent[c],
                IF HeardOf(c) = Len(FramesOf(s.message)) THEN n ELSE n - 1)

LEMMA OneStream ==
  ASSUME HearsAllOnce, NEW c \in Channel
  PROVE  /\ StreamOf(c) \in KeysOf(c) /\ StreamOf(c) \in BufferKey
         /\ \A k \in KeysOf(c) : k = StreamOf(c)
         /\ \A b \in Channel : StreamOf(c) \in KeysOf(b) => b = c
<1>1. StreamOf(c) \in KeysOf(c)
  <2>1. \E k : k \in KeysOf(c)
    BY DEF HearsAllOnce
  <2> QED BY <2>1 DEF StreamOf
<1>2. StreamOf(c) \in BufferKey
  BY <1>1, KeysOfType
<1>3. \A k \in KeysOf(c) : k = StreamOf(c)
  BY <1>1 DEF HearsAllOnce
<1>4. \A b \in Channel : StreamOf(c) \in KeysOf(b) => b = c
  BY <1>1 DEF HearsAllOnce
<1> QED BY <1>1, <1>2, <1>3, <1>4

LEMMA OnAirFacts ==
  ASSUME AirTypeOK, NEW c \in Channel, OnAirInv(c), onAir[c] # Silence
  PROVE  LET n == Len(sent[c])
             s == sent[c][n]
             p == slot[c] - s.first + 1
         IN  /\ n \in Nat \ {0} /\ s \in [message : Traffic, first : Nat]
             /\ s.message \in Traffic /\ s.first \in Nat /\ slot[c] \in Nat
             /\ p \in 1..Len(FramesOf(s.message)) /\ Len(FramesOf(s.message)) \in Nat
             /\ onAir[c] = FramesOf(s.message)[p]
             /\ queue[c] \in Seq(Frame)
             /\ queue[c] = <<>> <=> p = Len(FramesOf(s.message))
             /\ decodes[c] \in Nat /\ HeardOf(c) = p - 1 + decodes[c]
<1> DEFINE n == Len(sent[c])
           s == sent[c][n]
           p == slot[c] - s.first + 1
           l == Len(FramesOf(s.message))
<1>1. n \in Nat \ {0} /\ p \in 1..l /\ onAir[c] = FramesOf(s.message)[p]
  BY SentType DEF OnAirInv
<1>2. Len(queue[c]) = l - p
  BY DEF OnAirInv
<1>3. n \in 1..n
  BY <1>1
<1>4. /\ s \in [message : Traffic, first : Nat] /\ s.message \in Traffic
      /\ s.first \in Nat /\ slot[c] \in Nat /\ decodes[c] \in Nat
  BY <1>3, SentType DEF AirTypeOK
<1>5. l \in Nat
  BY <1>4, FramesType, LenProperties
<1>6. /\ queue[c] \in Seq(Frame) /\ Len(queue[c]) \in Nat
      /\ (queue[c] = <<>> <=> Len(queue[c]) = 0)
  BY EmptySeq, LenProperties DEF AirTypeOK
<1>7. queue[c] = <<>> <=> p = l
  <2> HIDE DEF p, l
  <2> QED BY <1>1, <1>2, <1>5, <1>6
<1>8. HeardOf(c) = p - 1 + decodes[c]
  BY <1>4 DEF HeardOf
<1> QED BY <1>1, <1>4, <1>5, <1>6, <1>7, <1>8

LEMMA ExactOfBegin ==
  ASSUME HearsAllOnce, AirTypeOK, AirTypeOK', NEW c \in Channel, NEW m \in Traffic,
         BeginMessage(c, m), OnAirInv(c), OnAirInv(c)', ExactInv(c)
  PROVE  ExactInv(c)'
<1> DEFINE k == StreamOf(c)
           n == Len(sent[c])
           s == [message |-> m, first |-> slot[c] + 1]
           l == Len(FramesOf(m))
<1>1. slot[c] \in Nat /\ s \in [message : Traffic, first : Nat]
  <2>1. slot[c] \in Nat
    BY DEF AirTypeOK
  <2> QED BY <2>1
<1>2. /\ sent'[c] = Append(sent[c], s) /\ slot'[c] = slot[c] + 1 /\ decodes'[c] = 0
      /\ onAir'[c] = Head(FramesOf(m)) /\ queue[c] = <<>>
      /\ buffers' = buffers /\ delivered' = delivered
  BY DEF BeginMessage, Advance, AirTypeOK
<1>3. n \in Nat /\ sent[c] \in Seq([message : Traffic, first : Nat])
  BY SentType
<1>4. /\ Len(sent'[c]) = n + 1 /\ sent'[c][n + 1] = s
      /\ \A i \in 1..n : sent'[c][i] = sent[c][i]
  BY <1>1, <1>2, <1>3, AppendProperties
<1>5. FramesOf(m) \in Seq(Frame) /\ FramesOf(m) # <<>> /\ l \in Nat \ {0}
  BY FramesType, EmptySeq DEF BeginMessage
<1>6. onAir'[c] # Silence
  BY <1>2, <1>5, HeadTailProperties, AirAssumption
<1>7. HeardOf(c)' = 0
  BY <1>1, <1>2, <1>4 DEF HeardOf
<1>8. buffers[k] = NoBuffer /\ ReportedUpTo(delivered[k], sent[c], n)
  <2>1. CASE onAir[c] = Silence
    <3>1. buffers[k] = NoBuffer /\ delivered[k] = <<>> /\ n = 0
      BY <2>1, EmptySeq DEF ExactInv, OnAirInv
    <3> QED BY <3>1, ReportedNothing
  <2>2. CASE onAir[c] # Silence
    <3> DEFINE t == sent[c][n]
               p == slot[c] - t.first + 1
    <3>1. /\ t.message \in Traffic /\ p = Len(FramesOf(t.message)) /\ p \in Int
          /\ decodes[c] \in Nat /\ HeardOf(c) = p - 1 + decodes[c]
      BY <1>1, <1>2, <2>2, OnAirFacts
    <3>2. decodes[c] = 1
      BY <2>2, <3>1 DEF ExactInv, BeginMessage, SlotMayEnd, HearsAllOnce
    <3>3. HeardOf(c) = Len(FramesOf(t.message))
      <4> HIDE DEF p
      <4> QED BY <3>1, <3>2
    <3>4. /\ buffers[k] = BufferAfter(t, HeardOf(c))
          /\ ReportedUpTo(delivered[k], sent[c], n)
      BY <2>2, <3>3 DEF ExactInv
    <3>5. BufferAfter(t, HeardOf(c)) = NoBuffer
      BY <3>3 DEF BufferAfter
    <3> QED BY <3>4, <3>5
  <2> QED BY <2>1, <2>2
<1>9. BufferAfter(s, 0) = NoBuffer
  <2>1. IsDirected(m) => Len(Headers(m)) >= 1
    BY DEF IsDirected, Headers
  <2> QED BY <2>1 DEF BufferAfter
<1>10. ReportedUpTo(delivered[k], sent'[c], n)
  BY <1>3, <1>4, <1>8, ReportedSame
<1>11. 0 # Len(FramesOf(sent'[c][Len(sent'[c])].message)) /\ Len(sent'[c]) - 1 = n
  BY <1>3, <1>4, <1>5
<1> HIDE DEF s, l, n
<1> QED BY <1>2, <1>4, <1>6, <1>7, <1>8, <1>9, <1>10, <1>11 DEF ExactInv

LEMMA ExactOfContinue ==
  ASSUME HearsAllOnce, AirTypeOK, AirTypeOK', NEW c \in Channel,
         ContinueMessage(c), OnAirInv(c), OnAirInv(c)', ExactInv(c)
  PROVE  ExactInv(c)'
<1> DEFINE k == StreamOf(c)
           s == sent[c][Len(sent[c])]
           p == slot[c] - s.first + 1
<1>1. onAir[c] # Silence
  BY DEF ContinueMessage, OnAirInv
<1>2. /\ slot'[c] = slot[c] + 1 /\ decodes'[c] = 0 /\ sent' = sent
      /\ buffers' = buffers /\ delivered' = delivered
      /\ queue[c] # <<>> /\ onAir'[c] = Head(queue[c])
  BY DEF ContinueMessage, Advance, AirTypeOK
<1>3. /\ s.first \in Nat /\ slot[c] \in Nat /\ queue[c] \in Seq(Frame)
      /\ decodes[c] \in Nat /\ HeardOf(c) = p - 1 + decodes[c]
  BY <1>1, OnAirFacts
<1>4. decodes[c] = 1
  BY <1>1, <1>3 DEF ExactInv, ContinueMessage, SlotMayEnd, HearsAllOnce
<1>5. HeardOf(c)' = HeardOf(c)
  BY <1>2, <1>3, <1>4 DEF HeardOf
<1>6. onAir'[c] # Silence
  BY <1>2, <1>3, HeadTailProperties, AirAssumption
<1> QED BY <1>1, <1>2, <1>5, <1>6 DEF ExactInv

(* The one thing push_decoded can do with a frame of each kind.            *)
LEMMA PushByKind ==
  ASSUME NEW d, PushDecoded(d)
  PROVE  /\ d.kind = "compound" => buffers' = buffers /\ event' = NoEvent
         /\ d.kind = "directed" =>
              IF OpensBuffer(d) THEN StartBuffer(d) ELSE CompleteDirected(d)
         /\ d.kind = "data" =>
              IF buffers[KeyOf(d)] = NoBuffer THEN buffers' = buffers /\ event' = NoEvent
              ELSE IF d.last THEN FinishBuffer(d) ELSE AppendFragment(d)
BY DEF PushDecoded, StartBuffer, CompleteDirected, IgnoreFrame, AppendFragment, FinishBuffer

(* Hearing a frame of the message on the air.                              *)
LEMMA ExactOfDecode ==
  ASSUME HearsAllOnce, Deliverable, AirTypeOK, AirTypeOK', NEW c \in Channel,
         Decode(c), OnAirInv(c), ExactInv(c)
  PROVE  ExactInv(c)'
<1> DEFINE k == StreamOf(c)
           n == Len(sent[c])
           s == sent[c][n]
           m == s.message
           p == slot[c] - s.first + 1
           l == Len(FramesOf(m))
           h == Len(Headers(m))
           data == DataFrames(DataText(m))
           g == FramesOf(m)[p]
<1>1. onAir[c] # Silence /\ decodes[c] < MaxDecodes
  BY DEF Decode, Report
<1>2. /\ n \in Nat \ {0} /\ m \in Traffic /\ s.first \in Nat /\ slot[c] \in Nat
      /\ p \in 1..l /\ l \in Nat /\ onAir[c] = g
      /\ decodes[c] \in Nat /\ HeardOf(c) = p - 1 + decodes[c]
  BY <1>1, OnAirFacts
<1>3. decodes[c] = 0 /\ decodes'[c] = 1
  <2>1. decodes'[c] = decodes[c] + 1
    BY DEF Decode, Report, AirTypeOK
  <2> QED BY <1>1, <1>2, <2>1, AirAssumption DEF HearsAllOnce
<1>4. /\ sent' = sent /\ slot' = slot /\ onAir' = onAir /\ queue' = queue
      /\ delivered' = IF event'.type = "Completed"
                      THEN [delivered EXCEPT ![event'.key] = Append(@, event'.result)]
                      ELSE delivered
  BY DEF Decode
<1>5. /\ HeardOf(c) = p - 1 /\ HeardOf(c)' = p /\ p - 1 # l
      /\ p \in Nat /\ p >= 1 /\ p <= l
  BY <1>2, <1>3, <1>4 DEF HeardOf
<1>6. PICK f \in Estimates[c] : PushDecoded(DecodedAt(c, f))
  BY DEF Decode
<1> DEFINE d == DecodedAt(c, f)
<1>7. /\ d \in Decoded /\ KeyOf(d) = k /\ k \in BufferKey
      /\ d.kind = g.kind /\ d.last = g.last /\ d.from = g.from /\ d.to = g.to
      /\ d.command = g.command /\ d.text = g.text /\ d.utc = slot[c]
  <2>1. d \in Decoded /\ KeyOf(d) \in KeysOf(c)
    BY <1>1, DecodedType
  <2>2. KeyOf(d) = k /\ k \in BufferKey
    BY <2>1, OneStream
  <2> QED BY <1>2, <2>1, <2>2 DEF DecodedAt
<1>8. /\ d.kind = "compound" => buffers' = buffers /\ event' = NoEvent
      /\ d.kind = "directed" =>
           IF OpensBuffer(d) THEN StartBuffer(d) ELSE CompleteDirected(d)
      /\ d.kind = "data" =>
           IF buffers[k] = NoBuffer THEN buffers' = buffers /\ event' = NoEvent
           ELSE IF d.last THEN FinishBuffer(d) ELSE AppendFragment(d)
  BY <1>6, <1>7, PushByKind
<1>9. /\ h = IF m.command = NoCommand THEN 0 ELSE IF m.compound THEN 2 ELSE 1
      /\ Len(data) \in Nat /\ l = h + Len(data)
      /\ g \in Frame /\ g.last = (p = l)
      /\ p < h => g.kind = "compound"
      /\ p = h => /\ g.kind = "directed"
                  /\ g.from = IF m.compound THEN Placeholder ELSE m.from
                  /\ g.to = m.to /\ g.command = m.command /\ g.text = <<>>
      /\ p > h => /\ p - h \in 1..Len(data)
                  /\ g.kind = "data" /\ g.text = data[p - h].text
      /\ m.text = <<>> => Len(data) = 0
  BY <1>2, FrameKinds
<1>10. /\ buffers[k] = BufferAfter(s, p - 1)
       /\ ReportedUpTo(delivered[k], sent[c], n - 1)
  BY <1>1, <1>5 DEF ExactInv
<1>11. /\ buffers \in [BufferKey -> BufferState \cup {NoBuffer}]
       /\ delivered \in [BufferKey -> Seq(Result)]
  BY DEF AirTypeOK, TypeOK
<1>12. m \in Message /\ m.compound \in BOOLEAN
  BY <1>2, ChannelAssumption DEF Message
<1> HIDE DEF d, g, p, h, l, data, k
<1>13. ASSUME buffers'[k] = BufferAfter(s, p),
              ReportedUpTo(delivered'[k], sent[c], IF p = l THEN n ELSE n - 1)
       PROVE  ExactInv(c)'
  BY <1>1, <1>3, <1>4, <1>5, <1>13 DEF ExactInv, k, l
<1>14. ASSUME NEW r \in Result, event'.type = "Completed", event'.key = k,
              event'.result = r, r = ResultOf(s), IsDirected(m)
       PROVE  ReportedUpTo(delivered'[k], sent[c], n)
  <2>1. delivered'[k] = Append(delivered[k], r) /\ delivered[k] \in Seq(Result)
    BY <1>4, <1>7, <1>11, <1>14
  <2>2. n - 1 \in Nat /\ (n - 1) + 1 = n
    BY <1>2
  <2>3. ReportedUpTo(Append(delivered[k], r), sent[c], (n - 1) + 1)
    BY <1>10, <1>14, <2>1, <2>2, ReportedNext
  <2> QED BY <2>1, <2>2, <2>3
<1>15. CASE p < h
  <2>1. buffers' = buffers /\ event' = NoEvent
    BY <1>7, <1>8, <1>9, <1>15
  <2>2. delivered' = delivered
    BY <1>4, <2>1 DEF NoEvent
  <2>3. BufferAfter(s, p) = NoBuffer /\ BufferAfter(s, p - 1) = NoBuffer
    BY <1>5, <1>9, <1>15 DEF BufferAfter, h
  <2>4. p # l
    BY <1>9, <1>15
  <2> QED BY <1>10, <1>13, <2>1, <2>2, <2>3, <2>4
<1>16. CASE p = h
  <2>1. m.command # NoCommand /\ IsDirected(m)
    BY <1>5, <1>9, <1>16 DEF IsDirected
  <2>2. slot[c] = Promise!HeaderSlot(s)
        /\ slot[c] = s.first + (IF m.compound THEN 1 ELSE 0)
    BY <1>2, <1>9, <1>12, <1>16, <2>1 DEF Promise!HeaderSlot, p
  <2>3. CASE m.text # <<>>
    <3>1. p # l
      <4>1. DataText(m) \in Text /\ DataText(m) # <<>>
        BY <1>2, <2>1, <2>3, FinalizeWhole
      <4>2. Len(data) # 0
        BY <4>1, NoDataNoFrames DEF data
      <4> QED BY <1>9, <1>16, <4>2
    <3>2. StartBuffer(d)
      <4>1. m.command \in BufferedCommand
        BY <1>2, <2>1, <2>3 DEF Deliverable
      <4> QED BY <1>7, <1>8, <1>9, <1>16, <3>1, <4>1 DEF OpensBuffer
    <3> DEFINE b == [from |-> d.from, to |-> d.to, command |-> d.command,
                     utc |-> d.utc, text |-> <<>>]
    <3>3. buffers'[k] = b
      BY <1>7, <1>11, <3>2 DEF StartBuffer
    <3>4. delivered' = delivered
      BY <1>4, <3>2 DEF StartBuffer
    <3>5. SubSeq(DataText(m), 1, (p - h) * FragmentLen) = <<>>
      <4>1. (p - h) * FragmentLen = 0
        BY <1>5, <1>16, FragmentAssumption
      <4> QED BY <4>1, SubSeqEmpty
    <3>6. BufferAfter(s, p) = b
      <4>1. BufferAfter(s, p) =
              [from |-> IF m.compound THEN Placeholder ELSE m.from, to |-> m.to,
               command |-> m.command, utc |-> Promise!HeaderSlot(s),
               text |-> SubSeq(DataText(m), 1, (p - h) * FragmentLen)]
        BY <1>5, <1>16, <2>1, <2>3, <3>1 DEF BufferAfter, h, l
      <4> QED BY <1>7, <1>9, <1>16, <2>2, <3>5, <4>1
    <3> QED BY <1>10, <1>13, <3>1, <3>3, <3>4, <3>6
  <2>4. CASE m.text = <<>>
    <3>1. p = l
      BY <1>9, <1>16, <2>4
    <3>2. ~ OpensBuffer(d)
      <4>1. m.command \in BufferedCommand => ~ m.compound /\ Placeholder \notin {m.from, m.to}
        BY <1>2, <2>1, <2>4 DEF Deliverable
      <4> QED BY <1>7, <1>9, <1>16, <3>1, <4>1 DEF OpensBuffer
    <3>3. CompleteDirected(d)
      BY <1>7, <1>8, <1>9, <1>16, <3>2
    <3> DEFINE r == [from |-> d.from, to |-> d.to, command |-> d.command,
                     payload |-> d.text, checksum |-> "none",
                     utc |-> d.utc, was_buffered |-> FALSE]
    <3>4. /\ buffers' = buffers /\ event'.type = "Completed" /\ event'.key = k
          /\ event'.result = r
      BY <1>7, <3>3 DEF CompleteDirected
    <3>5. r \in Result
      BY <1>7 DEF Decoded, Result
    <3>6. r = ResultOf(s)
      BY <1>7, <1>9, <1>16, <2>2, <2>4 DEF ResultOf
    <3> HIDE DEF r
    <3>7. ReportedUpTo(delivered'[k], sent[c], n)
      BY <1>14, <2>1, <3>4, <3>5, <3>6
    <3>8. BufferAfter(s, p) = NoBuffer /\ BufferAfter(s, p - 1) = NoBuffer
      BY <2>4 DEF BufferAfter
    <3> QED BY <1>10, <1>13, <3>1, <3>4, <3>7, <3>8
  <2> QED BY <2>3, <2>4
<1>17. CASE p > h
  <2>1. p - h \in 1..Len(data) /\ d.kind = "data" /\ d.text = data[p - h].text
        /\ d.last = (p = l)
    BY <1>7, <1>9, <1>17
  <2>2. CASE m.command = NoCommand
    <3>1. ~ IsDirected(m) /\ BufferAfter(s, p) = NoBuffer /\ BufferAfter(s, p - 1) = NoBuffer
      BY <2>2 DEF IsDirected, BufferAfter
    <3>2. buffers' = buffers /\ event' = NoEvent
      BY <1>8, <1>10, <2>1, <3>1
    <3>3. delivered' = delivered
      BY <1>4, <3>2 DEF NoEvent
    <3>4. ReportedUpTo(delivered[k], sent[c], n)
      <4>1. n - 1 \in Nat /\ (n - 1) + 1 = n
        BY <1>2
      <4>2. ReportedUpTo(delivered[k], sent[c], (n - 1) + 1)
        BY <1>10, <3>1, <4>1, ReportedSkip
      <4> QED BY <4>1, <4>2
    <3> QED BY <1>10, <1>13, <3>1, <3>2, <3>3, <3>4
  <2>3. CASE m.command # NoCommand
    <3> DEFINE t == DataText(m)
               i == p - h
               before == (i - 1) * FragmentLen
               header == [from |-> IF m.compound THEN Placeholder ELSE m.from,
                          to |-> m.to, command |-> m.command,
                          utc |-> Promise!HeaderSlot(s), text |-> SubSeq(t, 1, before)]
    <3>1. IsDirected(m) /\ m.text # <<>> /\ t \in Text
      BY <1>2, <1>9, <2>1, <2>3, PartsType DEF IsDirected
    <3>2. /\ before \in Nat /\ before <= Len(t)
          /\ SubSeq(t, 1, before) \o d.text
               = IF i = Len(data) THEN t ELSE SubSeq(t, 1, i * FragmentLen)
      BY <2>1, <3>1, FragmentsAddUp DEF data
    <3>3. h \in Nat /\ (i = Len(data) <=> p = l)
      BY <1>5, <1>9, <2>1
    <3>4. buffers[k] = header
      <4>1. (p - 1) - h = i - 1 /\ ~ p - 1 < h
        BY <1>5, <2>1, <3>3
      <4>2. BufferAfter(s, p - 1) =
              [from |-> IF m.compound THEN Placeholder ELSE m.from, to |-> m.to,
               command |-> m.command, utc |-> Promise!HeaderSlot(s),
               text |-> SubSeq(t, 1, ((p - 1) - h) * FragmentLen)]
        BY <1>5, <3>1, <4>1 DEF BufferAfter, h, l
      <4> QED BY <1>10, <4>1, <4>2
    <3>5. BufferAfter(s, p) = IF p = l THEN NoBuffer
                              ELSE [header EXCEPT !.text = SubSeq(t, 1, i * FragmentLen)]
      <4>1. ~ p < h
        BY <1>5, <2>1, <3>3
      <4>2. p # l => BufferAfter(s, p) =
              [from |-> IF m.compound THEN Placeholder ELSE m.from, to |-> m.to,
               command |-> m.command, utc |-> Promise!HeaderSlot(s),
               text |-> SubSeq(t, 1, i * FragmentLen)]
        BY <3>1, <4>1 DEF BufferAfter, h, l
      <4>3. p = l => BufferAfter(s, p) = NoBuffer
        BY DEF BufferAfter, l
      <4>4. [header EXCEPT !.text = SubSeq(t, 1, i * FragmentLen)] =
              [from |-> IF m.compound THEN Placeholder ELSE m.from, to |-> m.to,
               command |-> m.command, utc |-> Promise!HeaderSlot(s),
               text |-> SubSeq(t, 1, i * FragmentLen)]
        <5> DEFINE sender == IF m.compound THEN Placeholder ELSE m.from
                   headed == Promise!HeaderSlot(s)
                   old == SubSeq(t, 1, before)
                   new == SubSeq(t, 1, i * FragmentLen)
        <5> HIDE DEF sender, headed, old, new
        <5>1. [[from |-> sender, to |-> m.to, command |-> m.command, utc |-> headed,
                text |-> old] EXCEPT !.text = new]
                = [from |-> sender, to |-> m.to, command |-> m.command,
                   utc |-> headed, text |-> new]
          OBVIOUS
        <5> QED BY <5>1 DEF sender, headed, old, new
      <4> HIDE DEF header, t, i
      <4> QED BY <4>2, <4>3, <4>4
    <3>6. buffers[k] # NoBuffer
      <4>1. header \in BufferState
        <5>1. SubSeq(t, 1, before) \in Text
          <6>1. t \in Seq(Char)
            BY <3>1 DEF Text
          <6>2. \A j \in 1..before : t[j] \in Char
            BY <3>2, <6>1
          <6> QED BY <3>2, <6>2, SubSeqProperties DEF Text
        <5>2. Promise!HeaderSlot(s) \in Nat
          BY <1>2 DEF Promise!HeaderSlot
        <5>3. /\ m.to \in Address /\ m.command \in Command
              /\ (IF m.compound THEN Placeholder ELSE m.from) \in Address
          BY <1>12 DEF Message, Address
        <5> QED BY <5>1, <5>2, <5>3 DEF BufferState
      <4> QED BY <3>4, <4>1, BufferAssumption
    <3>7. CASE p # l
      <4>1. AppendFragment(d)
        BY <1>8, <2>1, <3>6, <3>7
      <4>2. buffers'[k] = [header EXCEPT !.text = @ \o d.text]
        BY <1>7, <1>11, <3>4, <4>1 DEF AppendFragment
      <4>3. delivered' = delivered
        BY <1>4, <4>1 DEF AppendFragment
      <4>4. [header EXCEPT !.text = @ \o d.text]
              = [header EXCEPT !.text = SubSeq(t, 1, i * FragmentLen)]
        BY <3>2, <3>3, <3>7
      <4> QED BY <1>10, <1>13, <3>5, <3>7, <4>2, <4>3, <4>4
    <3>8. CASE p = l
      <4>1. FinishBuffer(d)
        BY <1>8, <2>1, <3>6, <3>8
      <4> DEFINE b == [header EXCEPT !.text = @ \o d.text]
      <4>2. buffers'[k] = NoBuffer /\ event' = FinishState(k, b)
        BY <1>7, <1>11, <3>4, <4>1 DEF FinishBuffer
      <4>3. /\ b.text = t /\ b.to = m.to /\ b.command = m.command
            /\ b.from = (IF m.compound THEN Placeholder ELSE m.from)
            /\ b.utc = Promise!HeaderSlot(s)
        BY <3>2, <3>3, <3>8
      <4> DEFINE sum == IF CarriesChecksum(m.to, m.command) THEN "valid" ELSE "none"
                 r == [from |-> b.from, to |-> b.to, command |-> b.command,
                       payload |-> m.text, checksum |-> sum,
                       utc |-> b.utc, was_buffered |-> TRUE]
      <4>4. FinalizeBufferedPayload(b.to, b.command, TrimRight(b.text))
              = [payload |-> m.text, checksum |-> sum]
        BY <1>2, <3>1, <4>3, FinalizeWhole
      <4> HIDE DEF b
      <4>5. FinishState(k, b) = [type |-> "Completed", key |-> k, result |-> r]
        BY <4>4 DEF FinishState
      <4>6. event'.type = "Completed" /\ event'.key = k /\ event'.result = r
        BY <4>2, <4>5
      <4>7. r = ResultOf(s)
        BY <3>1, <4>3 DEF ResultOf, Promise!HeaderSlot
      <4>8. r \in Result
        BY <4>6 DEF AirTypeOK, TypeOK, Event, NoEvent
      <4> HIDE DEF r
      <4>9. ReportedUpTo(delivered'[k], sent[c], n)
        BY <1>14, <3>1, <4>6, <4>7, <4>8
      <4> QED BY <1>13, <3>5, <3>8, <4>2, <4>9
    <3> QED BY <3>7, <3>8
  <2> QED BY <2>2, <2>3
<1>18. h \in Nat
  BY <1>9
<1> QED BY <1>5, <1>15, <1>16, <1>17, <1>18

ExactDeliveryInv == GenuineInv /\ \A c \in Channel : ExactInv(c)

LEMMA ExactDeliveryInvInit ==
  ASSUME HearsAllOnce, BufferedInit
  PROVE  ExactDeliveryInv
<1>1. GenuineInv
  BY GenuineInvInit
<1>2. ASSUME NEW c \in Channel PROVE ExactInv(c)
  <2>1. StreamOf(c) \in BufferKey
    BY OneStream
  <2> QED BY <2>1 DEF BufferedInit, Init, AirInit, ExactInv
<1> QED BY <1>1, <1>2 DEF ExactDeliveryInv

(* A step in which nothing happens to a channel or to its stream.          *)
LEMMA ExactOfOther ==
  ASSUME NEW c \in Channel, ExactInv(c), sent'[c] = sent[c], onAir'[c] = onAir[c],
         slot'[c] = slot[c], decodes'[c] = decodes[c],
         buffers'[StreamOf(c)] = buffers[StreamOf(c)],
         delivered'[StreamOf(c)] = delivered[StreamOf(c)]
  PROVE  ExactInv(c)'
BY DEF ExactInv, HeardOf

LEMMA ExactDeliveryInvStep ==
  ASSUME HearsAllOnce, Deliverable, ExactDeliveryInv, [Next]_vars
  PROVE  ExactDeliveryInv'
<1>1. GenuineInv /\ GenuineInv' /\ AirTypeOK /\ AirTypeOK'
  BY GenuineInvStep DEF ExactDeliveryInv, GenuineInv
<1>2. \A c \in Channel : OnAirInv(c) /\ OnAirInv(c)' /\ ExactInv(c)
  BY <1>1 DEF ExactDeliveryInv, GenuineInv
<1>3. ASSUME NEW c \in Channel, NEW m \in Traffic, BeginMessage(c, m),
             NEW b \in Channel
      PROVE  ExactInv(b)'
  <2>1. CASE b = c
    BY <1>1, <1>2, <1>3, <2>1, ExactOfBegin
  <2>2. CASE b # c
    <3>1. /\ sent'[b] = sent[b] /\ onAir'[b] = onAir[b] /\ slot'[b] = slot[b]
          /\ decodes'[b] = decodes[b] /\ buffers' = buffers /\ delivered' = delivered
      BY <1>1, <1>3, <2>2 DEF BeginMessage, Advance, AirTypeOK
    <3> QED BY <1>2, <3>1, ExactOfOther
  <2> QED BY <2>1, <2>2
<1>4. ASSUME NEW c \in Channel, ContinueMessage(c), NEW b \in Channel
      PROVE  ExactInv(b)'
  <2>1. CASE b = c
    BY <1>1, <1>2, <1>4, <2>1, ExactOfContinue
  <2>2. CASE b # c
    <3>1. /\ sent'[b] = sent[b] /\ onAir'[b] = onAir[b] /\ slot'[b] = slot[b]
          /\ decodes'[b] = decodes[b] /\ buffers' = buffers /\ delivered' = delivered
      BY <1>1, <1>4, <2>2 DEF ContinueMessage, Advance, AirTypeOK
    <3> QED BY <1>2, <3>1, ExactOfOther
  <2> QED BY <2>1, <2>2
<1>5. ASSUME NEW c \in Channel, Decode(c), NEW b \in Channel
      PROVE  ExactInv(b)'
  <2>1. CASE b = c
    BY <1>1, <1>2, <1>5, <2>1, ExactOfDecode
  <2>2. CASE b # c
    <3>1. PICK k \in KeysOf(c) \cap BufferKey :
            \A j \in BufferKey \ {k} :
              buffers'[j] = buffers[j] /\ delivered'[j] = delivered[j]
      BY <1>1, <1>5, DecodeCases
    <3>2. StreamOf(b) \in BufferKey /\ StreamOf(b) # k
      BY <2>2, <3>1, OneStream
    <3>3. /\ sent'[b] = sent[b] /\ onAir'[b] = onAir[b] /\ slot'[b] = slot[b]
          /\ decodes'[b] = decodes[b]
      BY <1>1, <1>5, <2>2 DEF Decode, Report, AirTypeOK
    <3> QED BY <1>2, <3>1, <3>2, <3>3, ExactOfOther
  <2> QED BY <2>1, <2>2
<1>6. ~ ClearBuffers
  BY DEF ClearBuffers, HearsAllOnce
<1>7. ASSUME UNCHANGED vars, NEW b \in Channel PROVE ExactInv(b)'
  BY <1>2, <1>7, ExactOfOther DEF vars
<1> QED BY <1>1, <1>3, <1>4, <1>5, <1>6, <1>7 DEF ExactDeliveryInv, Next

(* All of the message on the air was heard or its results are to come.     *)
LEMMA ReportedIsReceived ==
  ASSUME HearsAllOnce, AirTypeOK, NEW c \in Channel, OnAirInv(c), ExactInv(c)
  PROVE  AreTheResultsOf(delivered[StreamOf(c)], Received(c))
<1> DEFINE k == StreamOf(c)
           n == Len(sent[c])
           l == Len(FramesOf(sent[c][n].message))
<1>1. n \in Nat /\ sent[c] \in Seq([message : Traffic, first : Nat])
  BY SentType
<1>2. CASE onAir[c] = Silence
  <2>1. delivered[k] = <<>> /\ Received(c) = <<>>
    BY <1>2 DEF ExactInv, OnAirInv, Received
  <2>2. ReportedUpTo(<<>>, <<>>, 0) /\ DOMAIN <<>> = 1..0
    BY ReportedNothing
  <2>3. AreTheResultsOf(<<>>, <<>>)
    BY <2>2, ReportedSame
  <2> QED BY <2>1, <2>3
<1>3. CASE onAir[c] # Silence
  <2> DEFINE p == slot[c] - sent[c][n].first + 1
  <2>1. /\ n \in Nat \ {0} /\ p \in 1..l /\ l \in Nat
        /\ (queue[c] = <<>> <=> p = l)
        /\ decodes[c] \in Nat /\ HeardOf(c) = p - 1 + decodes[c]
    BY <1>3, OnAirFacts
  <2>2. decodes[c] \in 0..1
    BY DEF ExactInv
  <2>3. ReportedUpTo(delivered[k], sent[c], IF HeardOf(c) = l THEN n ELSE n - 1)
    BY <1>3 DEF ExactInv
  <2> HIDE DEF p, l
  <2>4. CASE queue[c] = <<>> /\ decodes[c] > 0
    <3>1. HeardOf(c) = l
      BY <2>1, <2>2, <2>4
    <3>2. Received(c) = sent[c] /\ DOMAIN sent[c] = 1..n
      BY <1>1, <2>4 DEF Received
    <3> QED BY <1>1, <2>3, <3>1, <3>2, ReportedSame
  <2>5. CASE ~ (queue[c] = <<>> /\ decodes[c] > 0)
    <3>1. HeardOf(c) # l
      BY <2>1, <2>2, <2>5
    <3>2. Received(c) = SubSeq(sent[c], 1, n - 1)
      BY <2>1, <2>5, EmptySeq DEF Received, Front
    <3>3. /\ n - 1 \in Nat /\ DOMAIN Received(c) = 1..(n - 1)
          /\ \A i \in 1..(n - 1) : Received(c)[i] = sent[c][i]
      <4>1. \A i \in 1..n : sent[c][i] \in [message : Traffic, first : Nat]
        BY <1>1, ElementOfSeq
      <4> HIDE DEF n
      <4>2. \A i \in 1..(n - 1) : i \in 1..n
        BY <2>1
      <4> USE DEF n
      <4> QED BY <1>1, <2>1, <3>2, <4>1, <4>2, SubSeqProperties
    <3> QED BY <2>3, <3>1, <3>3, ReportedSame
  <2> QED BY <2>4, <2>5
<1> QED BY <1>2, <1>3

(* To a receiver that hears every frame once, each channel at a frequency  *)
(* of its own, every command comes as it was sent, once and in its order,  *)
(* however many channels there are and however their frames interleave     *)
(* (build_message_frames against MessageBufferAssembler::push_decoded).    *)
THEOREM CommandsComeAsSent ==
  HearsAllOnce /\ Deliverable => (Spec => []ExactDelivery)
<1> SUFFICES ASSUME HearsAllOnce, Deliverable PROVE Spec => []ExactDelivery
  OBVIOUS
<1>1. BufferedInit => ExactDeliveryInv
  BY ExactDeliveryInvInit
<1>2. ExactDeliveryInv /\ [Next]_vars => ExactDeliveryInv'
  BY ExactDeliveryInvStep
<1>3. ExactDeliveryInv => ExactDelivery
  <2> SUFFICES ASSUME ExactDeliveryInv, NEW c \in Channel
               PROVE  AreTheResultsOf(delivered[StreamOf(c)], Received(c))
    BY DEF ExactDelivery
  <2>1. AirTypeOK /\ OnAirInv(c) /\ ExactInv(c)
    BY DEF ExactDeliveryInv, GenuineInv
  <2> QED BY <2>1, ReportedIsReceived
<1> QED BY <1>1, <1>2, <1>3, PTL DEF Spec
=============================================================================
