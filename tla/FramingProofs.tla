--------------------------- MODULE FramingProofs ---------------------------
(***************************************************************************)
(* What holds of Framing for every length of the header and of the data,   *)
(* every kind of frame and however the stream is cut: the types, that only *)
(* whole frames are returned, in their order, and that none is passed over *)
(* while no Read is short or the peer sends one frame at a time.           *)
(***************************************************************************)
EXTENDS Framing, TLAPS

FrameAt(f) == sent[f].begin = start
End(f)     == sent[f].begin + OneMsgLen(sent[f].len)

(* The frames lie one behind the other, up to what has arrived.            *)
FrameInv ==
  /\ \A f, g \in 1 .. Len(sent) : f < g => End(f) <= sent[g].begin
  /\ \A f \in 1 .. Len(sent) : End(f) <= Arrived
  /\ \A f \in 1 .. Len(sent) : End(f) = Arrived \/ \E g \in 1 .. Len(sent) : sent[g].begin = End(f)

(* RecvOneMessage is at a frame once it has its id, and then knows its     *)
(* length.                                                                 *)
PhaseInv ==
  /\ phase = "head" => \E f \in 1 .. Len(sent) : FrameAt(f)
  /\ phase = "data" => \E f \in 1 .. Len(sent) : FrameAt(f) /\ sent[f].len = dataLen
  /\ start <= taken /\ taken <= Arrived

(* What was received are frames before the one it is at.                   *)
ReceivedInv == Intact /\ \A i \in 1 .. Len(received) : received[i].begin < start

-----------------------------------------------------------------------------
(* Sequences and lengths.                                                  *)

(* The elements of a sequence with one more.                               *)
LEMMA AppendAt ==
  ASSUME NEW S, NEW s \in Seq(S), NEW e \in S
  PROVE  /\ Append(s, e) \in Seq(S) /\ Len(Append(s, e)) = Len(s) + 1
         /\ \A i \in 1 .. Len(s) : Append(s, e)[i] = s[i]
         /\ Append(s, e)[Len(s) + 1] = e
         /\ \A i \in 1 .. Len(Append(s, e)) : i \in 1 .. Len(s) \/ i = Len(s) + 1
  OBVIOUS

(* A frame is longer than its head.                                        *)
LEMMA MsgLen ==
  /\ \A len \in DataLens : len \in Nat /\ OneMsgLen(len) = IdLen + HeadLen + len + 1
  /\ IdLen \in Nat \ {0} /\ HeadLen \in Nat \ {0}
  BY ConstantsOK DEF OneMsgLen

(* The types of the frames.                                                *)
LEMMA TypeFacts ==
  ASSUME TypeOK
  PROVE  /\ sent \in Seq(Frames) /\ Len(sent) \in Nat
         /\ DOMAIN sent = 1 .. Len(sent) /\ DOMAIN received = 1 .. Len(received)
         /\ \A f \in 1 .. Len(sent) : /\ sent[f] \in Frames /\ sent[f].begin \in Nat
                                      /\ sent[f].len \in DataLens /\ sent[f].len \in Nat
                                      /\ End(f) \in Nat /\ sent[f].begin < End(f)
         /\ Arrived \in Nat
         /\ sent # <<>> => Arrived = End(Len(sent)) /\ Len(sent) \in 1 .. Len(sent)
  <1>1. sent \in Seq(Frames) /\ Len(sent) \in Nat /\ DOMAIN sent = 1 .. Len(sent) /\ DOMAIN received = 1 .. Len(received)
    BY DEF TypeOK
  <1>2. ASSUME NEW f \in 1 .. Len(sent)
        PROVE  /\ sent[f] \in Frames /\ sent[f].begin \in Nat
               /\ sent[f].len \in DataLens /\ sent[f].len \in Nat
               /\ End(f) \in Nat /\ sent[f].begin < End(f)
    <2>1. sent[f] \in Frames
      BY <1>1
    <2>2. sent[f].begin \in Nat /\ sent[f].len \in DataLens
      BY <2>1 DEF Frames
    <2> QED
      BY <2>1, <2>2, MsgLen DEF End
  <1>3. sent # <<>> => Arrived = End(Len(sent)) /\ Len(sent) \in 1 .. Len(sent)
    BY <1>1 DEF Arrived, End
  <1>4. Arrived \in Nat
    <2>1. CASE sent = <<>>
      BY <2>1 DEF Arrived
    <2>2. CASE sent # <<>>
      BY <1>2, <1>3, <2>2
    <2> QED
      BY <2>1, <2>2
  <1> QED
    BY <1>1, <1>2, <1>3, <1>4

(* A Read takes what has arrived.                                          *)
LEMMA Reading ==
  ASSUME TypeOK, NEW buf \in Nat, Read(buf)
  PROVE  /\ taken' \in Nat /\ taken < taken' /\ taken' <= taken + buf /\ taken' <= Arrived
         /\ shorts' \in Nat /\ (shorts' = 0 => shorts = 0 /\ taken' = taken + buf) /\ peer' = peer
  <1>1. PICK n \in 1 .. buf :
          /\ taken + n <= Arrived
          /\ taken' = taken + n
          /\ IF n = buf THEN UNCHANGED shorts ELSE shorts < peer.shorts /\ shorts' = shorts + 1
          /\ UNCHANGED peer
    BY DEF Read
  <1>2. taken \in Nat /\ shorts \in Nat
    BY DEF TypeOK
  <1> QED
    BY <1>1, <1>2

(* A place is the begin of one frame at most.                              *)
LEMMA OneFrame ==
  ASSUME TypeOK, FrameInv, NEW f \in 1 .. Len(sent), NEW g \in 1 .. Len(sent),
         sent[f].begin <= sent[g].begin, sent[g].begin < End(f)
  PROVE  f = g
  <1>1. End(f) \in Nat /\ End(g) \in Nat /\ sent[f].begin \in Nat /\ sent[g].begin \in Nat /\ sent[g].begin < End(g)
    BY TypeFacts
  <1>2. CASE f < g
    BY <1>1, <1>2 DEF FrameInv
  <1>3. CASE g < f
    BY <1>1, <1>3 DEF FrameInv
  <1> QED
    BY <1>2, <1>3

(* The frame RecvOneMessage is at.                                         *)
LEMMA FrameIs ==
  ASSUME TypeOK, FrameInv, NEW f \in 1 .. Len(sent), FrameAt(f)
  PROVE  AtFrame /\ Frame = f
  <1>1. AtFrame /\ Frame \in 1 .. Len(sent) /\ sent[Frame].begin = start
    BY TypeFacts DEF AtFrame, Frame, FrameAt
  <1>2. sent[f].begin \in Nat /\ sent[f].begin < End(f)
    BY TypeFacts
  <1> QED
    BY <1>1, <1>2, OneFrame DEF FrameAt

-----------------------------------------------------------------------------
(* Types.                                                                  *)

(* The types at the start, and after every step.                           *)
LEMMA TypeInit == Init => TypeOK
  BY DEF Init, TypeOK

LEMMA TypeStep == TypeOK /\ PhaseInv /\ FrameInv /\ [Next]_vars => TypeOK'
  <1> SUFFICES ASSUME TypeOK, PhaseInv, FrameInv, [Next]_vars PROVE TypeOK'
    OBVIOUS
  <1>1. ASSUME NEW len \in DataLens, NEW kind \in Kinds, SendMessage(len, kind) PROVE TypeOK'
    <2> DEFINE e == [begin |-> Arrived, len |-> len, kind |-> kind]
    <2>1. e \in Frames
      BY TypeFacts DEF Frames
    <2>2. sent' = Append(sent, e)
      BY <1>1 DEF SendMessage
    <2> HIDE DEF e
    <2>3. sent' \in Seq(Frames)
      BY <2>1, <2>2, TypeFacts
    <2> QED
      BY <1>1, <2>3 DEF SendMessage, TypeOK
  <1>2. CASE RecvId
    <2>1. taken' \in Nat /\ shorts' \in Nat /\ peer' = peer
      BY <1>2, Reading, MsgLen DEF RecvId, IdBuffer
    <2> QED
      BY <1>2, <2>1 DEF RecvId, Returns, TypeOK
  <1>3. CASE RecvHead
    <2>1. taken' \in Nat /\ shorts' \in Nat /\ peer' = peer
      BY <1>3, Reading, MsgLen DEF RecvHead, HeadBuffer
    <2>2. dataLen' \in DataLens \cup {0}
      <3>1. PICK f \in 1 .. Len(sent) : FrameAt(f)
        BY <1>3 DEF RecvHead, PhaseInv
      <3>2. sent[Frame].len \in DataLens
        BY <3>1, FrameIs, TypeFacts
      <3> QED
        BY <1>3, <3>2 DEF RecvHead, TypeOK
    <2> QED
      BY <1>3, <2>1, <2>2 DEF RecvHead, TypeOK
  <1>4. CASE RecvData
    <2>1. dataLen + 1 \in Nat
      BY MsgLen DEF TypeOK
    <2>2. taken' \in Nat /\ shorts' \in Nat /\ peer' = peer
      BY <1>4, <2>1, Reading DEF RecvData, DataBuffer
    <2>3. received' \in Seq([begin : Nat, len : DataLens])
      <3>1. PICK f \in 1 .. Len(sent) : FrameAt(f) /\ sent[f].len = dataLen
        BY <1>4 DEF RecvData, PhaseInv
      <3>2. Message \in [begin : Nat, len : DataLens]
        BY <3>1, TypeFacts DEF Message, TypeOK
      <3>3. Append(received, Message) \in Seq([begin : Nat, len : DataLens])
        BY <3>2 DEF TypeOK
      <3> QED
        BY <1>4, <3>3 DEF RecvData, TypeOK
    <2> QED
      BY <1>4, <2>2, <2>3 DEF RecvData, Returns, TypeOK
  <1>5. CASE Break \/ UNCHANGED vars
    BY <1>5 DEF Break, vars, TypeOK
  <1> QED
    BY <1>1, <1>2, <1>3, <1>4, <1>5 DEF Next, RecvMessage

-----------------------------------------------------------------------------
(* Where the frames are.                                                   *)

(* A frame that is sent lies behind the others.                            *)
LEMMA Sending ==
  ASSUME TypeOK, FrameInv, NEW len \in DataLens, NEW kind \in Kinds, SendMessage(len, kind),
         NEW n \in Nat, n = Len(sent) + 1
  PROVE  /\ Len(sent') = n /\ n \in 1 .. Len(sent') /\ sent'[n].begin = Arrived
         /\ sent'[n].len = len /\ sent'[n].kind = kind
         /\ \A f \in 1 .. Len(sent) : f \in 1 .. Len(sent') /\ sent'[f] = sent[f] /\ End(f)' = End(f)
         /\ \A f \in 1 .. Len(sent') : f \in 1 .. Len(sent) \/ f = n
         /\ Arrived' = End(n)' /\ Arrived' = Arrived + OneMsgLen(len) /\ Arrived < Arrived'
         /\ Arrived' \in Nat
  <1> DEFINE e == [begin |-> Arrived, len |-> len, kind |-> kind]
  <1>1. e \in Frames /\ e.begin = Arrived /\ e.len = len /\ e.kind = kind
    BY TypeFacts DEF Frames
  <1>2. sent' = Append(sent, e)
    BY DEF SendMessage
  <1> HIDE DEF e
  <1>3. /\ Len(sent') = n /\ sent'[n] = e /\ Len(sent) \in Nat
        /\ \A f \in 1 .. Len(sent) : sent'[f] = sent[f]
        /\ \A f \in 1 .. Len(sent') : f \in 1 .. Len(sent) \/ f = n
    BY <1>1, <1>2, TypeFacts, AppendAt
  <1>4. \A f \in 1 .. Len(sent) : f \in 1 .. Len(sent') /\ End(f)' = End(f)
    BY <1>3 DEF End
  <1>5. sent' # <<>> /\ Arrived' = End(n)'
    BY <1>3 DEF Arrived, End
  <1>6. End(n)' = Arrived + OneMsgLen(len)
    BY <1>1, <1>3 DEF End
  <1>7. Arrived \in Nat /\ OneMsgLen(len) \in Nat \ {0}
    BY TypeFacts, MsgLen
  <1> QED
    BY <1>1, <1>3, <1>4, <1>5, <1>6, <1>7

(* Every step keeps the frames one behind the other.                       *)
LEMMA FrameStep == TypeOK /\ FrameInv /\ [Next]_vars => FrameInv'
  <1> SUFFICES ASSUME TypeOK, FrameInv, [Next]_vars PROVE FrameInv'
    OBVIOUS
  <1>1. ASSUME NEW len \in DataLens, NEW kind \in Kinds, SendMessage(len, kind) PROVE FrameInv'
    <2>0. PICK n \in Nat : n = Len(sent) + 1
      BY TypeFacts
    <2>1. /\ Len(sent') = n /\ sent'[n].begin = Arrived /\ n \in Nat /\ n \in 1 .. Len(sent')
          /\ \A f \in 1 .. Len(sent) : sent'[f] = sent[f] /\ End(f)' = End(f) /\ f < n /\ End(f) \in Nat
          /\ \A f \in 1 .. Len(sent) : f \in 1 .. Len(sent')
          /\ \A f \in 1 .. Len(sent') : f \in 1 .. Len(sent) \/ f = n
          /\ Arrived' = End(n)' /\ Arrived < Arrived' /\ Arrived \in Nat /\ Arrived' \in Nat
      BY <1>1, <2>0, Sending, TypeFacts
    <2>2. \A f, g \in 1 .. Len(sent') : f < g => End(f)' <= sent'[g].begin
      BY <2>1 DEF FrameInv
    <2>3. \A f \in 1 .. Len(sent') : End(f)' <= Arrived'
      BY <2>1 DEF FrameInv
    <2>4. \A f \in 1 .. Len(sent') : End(f)' = Arrived' \/ \E g \in 1 .. Len(sent') : sent'[g].begin = End(f)'
      <3> TAKE f \in 1 .. Len(sent')
      <3>1. CASE f = n
        BY <2>1, <3>1
      <3>2. CASE f \in 1 .. Len(sent) /\ End(f) = Arrived
        BY <2>1, <3>2
      <3>3. CASE f \in 1 .. Len(sent) /\ \E g \in 1 .. Len(sent) : sent[g].begin = End(f)
        <4>1. PICK g \in 1 .. Len(sent) : sent[g].begin = End(f)
          BY <3>3
        <4> QED
          BY <2>1, <3>3, <4>1
      <3> QED
        BY <2>1, <3>1, <3>2, <3>3 DEF FrameInv
    <2> QED
      BY <2>2, <2>3, <2>4 DEF FrameInv
  <1>2. CASE UNCHANGED sent
    BY <1>2 DEF FrameInv, End, Arrived
  <1> QED
    BY <1>1, <1>2 DEF Next, RecvMessage, RecvId, RecvHead, RecvData, Break, vars

-----------------------------------------------------------------------------
(* The phases.                                                             *)

(* RecvData ends behind the frame it is at.                                *)
LEMMA Returning ==
  ASSUME TypeOK, FrameInv, PhaseInv, RecvData, NEW f \in 1 .. Len(sent), FrameAt(f), sent[f].len = dataLen
  PROVE  /\ OneMsgLen(dataLen) \in Nat /\ End(f) = start + OneMsgLen(dataLen)
         /\ taken' \in Nat /\ taken < taken' /\ taken' <= Arrived
         /\ \/ taken' < End(f) /\ UNCHANGED <<phase, start, received>>
            \/ /\ End(f) <= taken' /\ phase' = "id" /\ start' = taken'
               /\ \/ Parsed(sent[f].kind) /\ received' = Append(received, Message)
                  \/ ~Parsed(sent[f].kind) /\ received' = received
  <1>1. AtFrame /\ Frame = f
    BY FrameIs
  <1>2. sent[f].len \in DataLens /\ End(f) = start + OneMsgLen(dataLen) /\ OneMsgLen(dataLen) \in Nat /\ dataLen \in Nat
    BY TypeFacts, MsgLen DEF End, FrameAt
  <1>3. taken' \in Nat /\ taken < taken' /\ taken' <= Arrived
    BY <1>2, Reading DEF RecvData, DataBuffer
  <1>4. Has(OneMsgLen(dataLen)) <=> End(f) <= taken'
    <2>1. start \in Nat
      BY DEF TypeOK
    <2> QED
      BY <1>2, <1>3, <2>1 DEF Has
  <1>5. ~(End(f) <= taken') => taken' < End(f)
    BY <1>2, <1>3, TypeFacts
  <1> QED
    BY <1>1, <1>2, <1>3, <1>4, <1>5 DEF RecvData, Returns

(* Every step keeps PhaseInv.                                              *)
LEMMA PhaseStep == TypeOK /\ FrameInv /\ PhaseInv /\ [Next]_vars => PhaseInv'
  <1> SUFFICES ASSUME TypeOK, FrameInv, PhaseInv, [Next]_vars PROVE PhaseInv'
    OBVIOUS
  <1>0. start \in Nat /\ taken \in Nat /\ Arrived \in Nat
    BY TypeFacts DEF TypeOK
  <1>1. ASSUME NEW len \in DataLens, NEW kind \in Kinds, SendMessage(len, kind) PROVE PhaseInv'
    <2>0. PICK n \in Nat : n = Len(sent) + 1
      BY TypeFacts
    <2>1. UNCHANGED <<phase, start, taken, dataLen>>
      BY <1>1 DEF SendMessage
    <2>2. /\ \A f \in 1 .. Len(sent) : f \in 1 .. Len(sent') /\ sent'[f] = sent[f]
          /\ Arrived < Arrived' /\ Arrived' \in Nat
      BY <1>1, <2>0, Sending
    <2>3. taken <= Arrived'
      BY <1>0, <2>2 DEF PhaseInv
    <2> QED
      BY <2>1, <2>2, <2>3 DEF PhaseInv, FrameAt
  <1>2. CASE RecvId
    <2>1. UNCHANGED <<sent, Arrived>>
      BY <1>2 DEF RecvId, Arrived
    <2>2. taken' \in Nat /\ taken < taken' /\ taken' <= Arrived
      BY <1>2, Reading, MsgLen DEF RecvId, IdBuffer
    <2>3. start' <= taken'
      BY <1>0, <1>2, <2>2 DEF RecvId, Returns, PhaseInv
    <2>4. phase' = "head" => AtFrame /\ start' = start
      BY <1>2 DEF RecvId, Returns
    <2>5. phase' # "data"
      BY <1>2 DEF RecvId, Returns
    <2> QED
      BY <2>1, <2>2, <2>3, <2>4, <2>5, TypeFacts DEF PhaseInv, AtFrame, FrameAt
  <1>3. CASE RecvHead
    <2>1. UNCHANGED <<sent, Arrived, start>>
      BY <1>3 DEF RecvHead, Arrived
    <2>2. taken' \in Nat /\ taken < taken' /\ taken' <= Arrived
      BY <1>3, Reading, MsgLen DEF RecvHead, HeadBuffer
    <2>3. PICK f \in 1 .. Len(sent) : FrameAt(f)
      BY <1>3 DEF RecvHead, PhaseInv
    <2>4. AtFrame /\ Frame = f
      BY <2>3, FrameIs
    <2>5. phase' = "data" => dataLen' = sent[f].len
      BY <1>3, <2>4 DEF RecvHead
    <2>6. start <= taken'
      BY <1>0, <2>2 DEF PhaseInv
    <2> QED
      BY <2>1, <2>2, <2>3, <2>5, <2>6 DEF PhaseInv, FrameAt
  <1>4. CASE RecvData
    <2>1. UNCHANGED <<sent, Arrived, dataLen>>
      BY <1>4 DEF RecvData, Arrived
    <2>2. PICK f \in 1 .. Len(sent) : FrameAt(f) /\ sent[f].len = dataLen
      BY <1>4 DEF RecvData, PhaseInv
    <2>3. taken' \in Nat /\ taken < taken' /\ taken' <= Arrived
      BY <1>4, <2>2, Returning
    <2>4. CASE UNCHANGED <<phase, start>>
      BY <1>0, <2>1, <2>3, <2>4 DEF PhaseInv, FrameAt
    <2>5. CASE phase' = "id" /\ start' = taken'
      BY <2>1, <2>3, <2>5 DEF PhaseInv
    <2> QED
      BY <1>4, <2>2, <2>4, <2>5, Returning
  <1>5. CASE Break \/ UNCHANGED vars
    <2>1. UNCHANGED <<sent, start, taken, dataLen, Arrived>> /\ (phase' = phase \/ phase' = "broken")
      BY <1>5 DEF Break, vars, Arrived
    <2> QED
      BY <2>1 DEF PhaseInv, FrameAt
  <1> QED
    BY <1>1, <1>2, <1>3, <1>4, <1>5 DEF Next, RecvMessage

-----------------------------------------------------------------------------
(* What is received.                                                       *)

(* A frame that was sent stays one.                                        *)
LEMMA FramesStay ==
  ASSUME TypeOK, FrameInv, [Next]_vars
  PROVE  /\ \A f \in 1 .. Len(sent) : f \in 1 .. Len(sent') /\ sent'[f] = sent[f]
         /\ DOMAIN sent' = 1 .. Len(sent') /\ DOMAIN sent = 1 .. Len(sent)
  <1>1. ASSUME NEW len \in DataLens, NEW kind \in Kinds, SendMessage(len, kind)
        PROVE  \A f \in 1 .. Len(sent) : f \in 1 .. Len(sent') /\ sent'[f] = sent[f]
    <2>0. PICK n \in Nat : n = Len(sent) + 1
      BY TypeFacts
    <2> QED
      BY <1>1, <2>0, Sending
  <1>2. sent' \in Seq(Frames)
    <2>1. ASSUME NEW len \in DataLens, NEW kind \in Kinds, SendMessage(len, kind) PROVE sent' \in Seq(Frames)
      <3> DEFINE e == [begin |-> Arrived, len |-> len, kind |-> kind]
      <3>1. e \in Frames
        BY TypeFacts DEF Frames
      <3> HIDE DEF e
      <3>2. sent' = Append(sent, e)
        BY <2>1 DEF SendMessage, e
      <3> QED
        BY <3>1, <3>2, TypeFacts
    <2> QED
      BY <2>1, TypeFacts DEF Next, RecvMessage, RecvId, RecvHead, RecvData, Break, vars
  <1>3. DOMAIN sent' = 1 .. Len(sent') /\ DOMAIN sent = 1 .. Len(sent)
    BY <1>2, TypeFacts
  <1>4. CASE UNCHANGED sent
    BY <1>4, <1>3
  <1> QED
    BY <1>1, <1>3, <1>4 DEF Next, RecvMessage, RecvId, RecvHead, RecvData, Break, vars

(* Nor does what makes it one change.                                      *)
LEMMA IsFrameStays ==
  ASSUME TypeOK, FrameInv, [Next]_vars, NEW msg, IsFrame(msg)
  PROVE  IsFrame(msg)'
  BY FramesStay DEF IsFrame

(* Every step keeps ReceivedInv.                                           *)
LEMMA ReceivedStep == TypeOK /\ FrameInv /\ PhaseInv /\ ReceivedInv /\ [Next]_vars => ReceivedInv'
  <1> SUFFICES ASSUME TypeOK, FrameInv, PhaseInv, ReceivedInv, [Next]_vars PROVE ReceivedInv'
    OBVIOUS
  <1> DEFINE R == [begin : Nat, len : DataLens]
  <1>0. /\ start \in Nat /\ received \in Seq(R) /\ DOMAIN received = 1 .. Len(received) /\ Len(received) \in Nat
        /\ \A i \in 1 .. Len(received) : received[i].begin \in Nat
    <2>1. received \in Seq(R)
      BY DEF TypeOK
    <2>2. \A i \in 1 .. Len(received) : received[i] \in R
      <3> HIDE DEF R
      <3> QED
        BY <2>1
    <2> QED
      BY <2>1, <2>2 DEF TypeOK
  <1>1. \A i \in 1 .. Len(received) : IsFrame(received[i])
    BY <1>0 DEF ReceivedInv, Intact
  <1>2. ASSUME NEW i \in 1 .. Len(received), NEW m, m = received[i] PROVE IsFrame(m)'
    BY <1>1, <1>2, IsFrameStays
  <1>3. CASE RecvData /\ received' # received
    <2>1. PICK f \in 1 .. Len(sent) : FrameAt(f) /\ sent[f].len = dataLen
      BY <1>3 DEF RecvData, PhaseInv
    <2>2. PICK m : m = Message
      OBVIOUS
    <2>3. m \in R /\ m.begin = start /\ m.len = dataLen
      <3>1. dataLen \in DataLens
        BY <2>1, TypeFacts
      <3> QED
        BY <1>0, <2>2, <3>1 DEF Message
    <2>4. /\ End(f) <= taken' /\ start' = taken' /\ Parsed(sent[f].kind) /\ received' = Append(received, m)
          /\ taken' \in Nat /\ End(f) \in Nat /\ start < End(f)
      BY <1>3, <2>1, <2>2, Returning, TypeFacts DEF FrameAt
    <2>5. /\ Len(received') = Len(received) + 1 /\ received'[Len(received) + 1] = m
          /\ \A i \in 1 .. Len(received) : received'[i] = received[i]
          /\ \A i \in 1 .. Len(received') : i \in 1 .. Len(received) \/ i = Len(received) + 1
          /\ DOMAIN received' = 1 .. Len(received')
      <3> HIDE DEF R
      <3>1. Append(received, m) \in Seq(R)
        BY <1>0, <2>3, AppendAt
      <3> QED
        BY <1>0, <2>3, <2>4, <3>1, AppendAt
    <2>6. IsFrame(m)
      BY <2>1, <2>3, <2>4, TypeFacts DEF IsFrame, FrameAt
    <2>7. IsFrame(m)'
      BY <2>6, IsFrameStays
    <2>8. ASSUME NEW i \in DOMAIN received' PROVE IsFrame(received[i])' /\ received'[i].begin < start'
      <3>0. PICK x : x = received'[i]
        OBVIOUS
      <3>1. CASE i \in 1 .. Len(received)
        <4>1. x = received[i] /\ IsFrame(x)'
          BY <1>2, <2>5, <3>0, <3>1
        <4>2. received[i].begin < start'
          BY <1>0, <2>4, <3>1 DEF ReceivedInv
        <4> QED
          BY <3>0, <4>1, <4>2 DEF IsFrame
      <3>2. CASE i = Len(received) + 1
        BY <1>0, <2>3, <2>4, <2>5, <2>7, <3>2 DEF IsFrame
      <3> QED
        BY <2>5, <3>1, <3>2
    <2>9. \A i, j \in DOMAIN received' : i < j => received'[i].begin < received'[j].begin
      <3> TAKE i, j \in DOMAIN received'
      <3> HAVE i < j
      <3>1. i \in 1 .. Len(received) /\ received'[i] = received[i]
        BY <1>0, <2>5
      <3>2. CASE j \in 1 .. Len(received)
        BY <1>0, <2>5, <3>1, <3>2 DEF ReceivedInv, Intact
      <3>3. CASE j = Len(received) + 1
        BY <1>0, <2>3, <2>5, <3>1, <3>3 DEF ReceivedInv
      <3> QED
        BY <2>5, <3>2, <3>3
    <2> QED
      BY <2>5, <2>8, <2>9 DEF ReceivedInv, Intact, IsFrame
  <1>4. CASE received' = received
    <2>1. start' \in Nat /\ start <= start'
      <3>1. CASE start' = start
        BY <1>0, <3>1
      <3>2. CASE RecvId
        <4>1. taken \in Nat /\ taken' \in Nat /\ taken < taken' /\ start <= taken
          BY <3>2, Reading, MsgLen DEF RecvId, IdBuffer, TypeOK, PhaseInv
        <4> QED
          BY <1>0, <3>2, <4>1 DEF RecvId, Returns
      <3>3. CASE RecvData
        <4>1. PICK f \in 1 .. Len(sent) : FrameAt(f) /\ sent[f].len = dataLen
          BY <3>3 DEF RecvData, PhaseInv
        <4>2. taken \in Nat /\ taken' \in Nat /\ taken < taken' /\ start <= taken
          BY <3>3, <4>1, Returning DEF TypeOK, PhaseInv
        <4> QED
          BY <1>0, <3>3, <4>2 DEF RecvData, Returns
      <3> QED
        BY <3>1, <3>2, <3>3 DEF Next, RecvMessage, SendMessage, RecvHead, Break, vars
    <2>2. \A i \in 1 .. Len(received) : received[i].begin < start'
      BY <1>0, <2>1 DEF ReceivedInv
    <2>3. ASSUME NEW i \in 1 .. Len(received) PROVE IsFrame(received[i])'
      <3>0. PICK x : x = received[i]
        OBVIOUS
      <3>1. IsFrame(x)'
        BY <1>2, <3>0
      <3> QED
        BY <1>4, <3>0, <3>1 DEF IsFrame
    <2> QED
      BY <1>0, <1>4, <2>2, <2>3 DEF ReceivedInv, Intact, IsFrame
  <1> QED
    BY <1>3, <1>4 DEF Next, RecvMessage, SendMessage, RecvId, RecvHead, Break, vars

(* Nothing has been sent.                                                  *)
LEMMA OtherInit == Init => FrameInv /\ PhaseInv /\ ReceivedInv
  BY DEF Init, FrameInv, PhaseInv, ReceivedInv, Intact, Arrived

(* All that is reachable.                                                  *)
Inv == TypeOK /\ FrameInv /\ PhaseInv /\ ReceivedInv

(* The conjunction is inductive.                                           *)
LEMMA InvHolds == Spec => []Inv
  <1>1. Init => Inv
    BY TypeInit, OtherInit DEF Inv
  <1>2. Inv /\ [Next]_vars => Inv'
    BY TypeStep, FrameStep, PhaseStep, ReceivedStep DEF Inv
  <1> QED
    BY <1>1, <1>2, PTL DEF Spec

(* The types of the variables (TypeOK).                                    *)
THEOREM TypeCorrect == Spec => []TypeOK
  <1>1. Inv => TypeOK
    BY DEF Inv
  <1> QED
    BY <1>1, InvHolds, PTL

(* However the stream is cut, RecvMessage returns whole frames that can be *)
(* parsed, in the order they were sent, none twice.                        *)
THEOREM OnlyFrames == Spec => []Intact
  <1>1. Inv => Intact
    BY DEF Inv, ReceivedInv
  <1> QED
    BY <1>1, InvHolds, PTL

-----------------------------------------------------------------------------
(* Nothing is passed over.                                                 *)

Boundary  == start = Arrived \/ \E f \in 1 .. Len(sent) : FrameAt(f)
GotFrame(f) == \E i \in 1 .. Len(received) : received[i].begin = sent[f].begin
AllBefore == \A f \in 1 .. Len(sent) : Parsed(sent[f].kind) /\ sent[f].begin < start => GotFrame(f)

(* As long as no Read is short each phase begins where the last one ended. *)
WholeInv ==
  shorts = 0 =>
    /\ phase = "id" => taken = start
    /\ phase = "head" => taken = start + IdLen
    /\ phase = "data" => taken = start + IdLen + HeadLen
    /\ Boundary /\ AllBefore

(* A peer that waits for each frame to be received has sent the one that   *)
(* RecvOneMessage is at, or that could not be parsed, and those received.  *)
AloneInv ==
  peer.alone =>
    /\ Len(received) = Len(sent) \/ Len(received) = Len(sent) - 1
    /\ \A i \in 1 .. Len(received) : received[i].begin = sent[i].begin
    /\ start # Arrived => Len(received) = Len(sent) - 1 /\ FrameAt(Len(sent))
    /\ Len(received) # Len(sent) /\ start = Arrived => ~Parsed(sent[Len(sent)].kind)

(* What is received is appended.                                           *)
LEMMA Receiving ==
  ASSUME TypeOK, dataLen \in DataLens, received' = Append(received, Message)
  PROVE  /\ Len(received') = Len(received) + 1 /\ received'[Len(received) + 1].begin = start
         /\ Len(received) \in Nat
         /\ \A i \in 1 .. Len(received) : i \in 1 .. Len(received') /\ received'[i] = received[i]
         /\ \A i \in 1 .. Len(received') : i \in 1 .. Len(received) \/ i = Len(received) + 1
  <1> DEFINE R == [begin : Nat, len : DataLens]
  <1>1. received \in Seq(R) /\ Message \in R /\ Message.begin = start
    BY DEF TypeOK, Message
  <1> HIDE DEF R
  <1> QED
    BY <1>1, AppendAt

(* Every step keeps WholeInv.                                              *)
LEMMA WholeStep == Inv /\ WholeInv /\ [Next]_vars => WholeInv'
  <1> SUFFICES ASSUME Inv, WholeInv, [Next]_vars PROVE WholeInv'
    OBVIOUS
  <1> USE DEF Inv
  <1>0. start \in Nat /\ taken \in Nat /\ Arrived \in Nat /\ IdLen \in Nat \ {0} /\ HeadLen \in Nat \ {0}
    BY TypeFacts, MsgLen DEF TypeOK
  <1>1. ASSUME NEW len \in DataLens, NEW kind \in Kinds, SendMessage(len, kind) PROVE WholeInv'
    <2>0. PICK n \in Nat : n = Len(sent) + 1
      BY TypeFacts
    <2>1. UNCHANGED <<phase, start, taken, shorts, received>>
      BY <1>1 DEF SendMessage
    <2>2. /\ sent'[n].begin = Arrived /\ n \in 1 .. Len(sent')
          /\ \A f \in 1 .. Len(sent) : f \in 1 .. Len(sent') /\ sent'[f] = sent[f]
          /\ \A f \in 1 .. Len(sent') : f \in 1 .. Len(sent) \/ f = n
      BY <1>1, <2>0, Sending
    <2>3. Boundary => Boundary'
      BY <2>1, <2>2 DEF Boundary, FrameAt
    <2>4. start <= Arrived
      BY <1>0 DEF PhaseInv
    <2>5. AllBefore => AllBefore'
      BY <1>0, <2>1, <2>2, <2>4 DEF AllBefore, GotFrame
    <2> QED
      BY <2>1, <2>3, <2>5 DEF WholeInv
  <1>2. ASSUME RecvId, shorts' = 0 PROVE WholeInv'
    <2>1. shorts = 0 /\ taken' = taken + IdLen /\ taken' <= Arrived
      BY <1>2, Reading, MsgLen DEF RecvId, IdBuffer
    <2>2. phase = "id" /\ taken = start /\ Boundary /\ AllBefore
      BY <1>2, <2>1 DEF RecvId, WholeInv
    <2>3. start < Arrived
      BY <1>0, <2>1, <2>2
    <2>4. AtFrame
      BY <1>0, <2>2, <2>3, TypeFacts DEF Boundary, AtFrame, FrameAt
    <2>5. Has(IdLen)
      BY <1>0, <2>1, <2>2 DEF Has
    <2>6. phase' = "head" /\ start' = start /\ taken' = start + IdLen
      BY <1>2, <2>1, <2>2, <2>4, <2>5 DEF RecvId
    <2>7. UNCHANGED <<sent, received, Arrived>>
      BY <1>2 DEF RecvId, Arrived
    <2> QED
      BY <2>2, <2>6, <2>7 DEF WholeInv, Boundary, AllBefore, GotFrame, FrameAt
  <1>3. ASSUME RecvHead, shorts' = 0 PROVE WholeInv'
    <2>1. shorts = 0 /\ taken' = taken + HeadLen
      BY <1>3, Reading, MsgLen DEF RecvHead, HeadBuffer
    <2>2. phase = "head" /\ taken = start + IdLen /\ Boundary /\ AllBefore
      BY <1>3, <2>1 DEF RecvHead, WholeInv
    <2>3. taken' = start + IdLen + HeadLen /\ Has(IdLen + HeadLen)
      BY <1>0, <2>1, <2>2 DEF Has
    <2>4. phase' = "data" /\ UNCHANGED <<start, sent, received, Arrived>>
      BY <1>3, <2>3 DEF RecvHead, Arrived
    <2> QED
      BY <2>2, <2>3, <2>4 DEF WholeInv, Boundary, AllBefore, GotFrame, FrameAt
  <1>4. ASSUME RecvData, shorts' = 0 PROVE WholeInv'
    <2>1. PICK f \in 1 .. Len(sent) : FrameAt(f) /\ sent[f].len = dataLen
      BY <1>4 DEF RecvData, PhaseInv
    <2>2. dataLen \in DataLens /\ dataLen \in Nat /\ End(f) = start + IdLen + HeadLen + dataLen + 1 /\ End(f) \in Nat
      <3>1. dataLen \in DataLens /\ End(f) \in Nat /\ End(f) = start + OneMsgLen(dataLen)
        BY <2>1, TypeFacts DEF End, FrameAt
      <3>2. dataLen \in Nat /\ OneMsgLen(dataLen) = IdLen + HeadLen + dataLen + 1
        BY <3>1, MsgLen
      <3> QED
        BY <1>0, <3>1, <3>2
    <2>3. shorts = 0 /\ taken' = taken + (dataLen + 1)
      BY <1>4, <2>2, Reading DEF RecvData, DataBuffer
    <2>4. taken = start + IdLen + HeadLen /\ Boundary /\ AllBefore
      BY <1>4, <2>3 DEF RecvData, WholeInv
    <2>5. taken' = End(f)
      BY <1>0, <2>2, <2>3, <2>4
    <2>6. /\ phase' = "id" /\ start' = End(f)
          /\ \/ Parsed(sent[f].kind) /\ received' = Append(received, Message)
             \/ ~Parsed(sent[f].kind) /\ received' = received
      BY <1>4, <2>1, <2>2, <2>5, Returning
    <2>7. UNCHANGED <<sent, Arrived>>
      BY <1>4 DEF RecvData, Arrived
    <2>8. Boundary'
      BY <2>6, <2>7 DEF Boundary, FrameInv, FrameAt
    <2>9. ASSUME NEW g \in 1 .. Len(sent), Parsed(sent[g].kind), sent[g].begin < End(f) PROVE GotFrame(g)'
      <3>1. CASE sent[g].begin < start
        <4>1. PICK i \in 1 .. Len(received) : received[i].begin = sent[g].begin
          BY <2>4, <2>9, <3>1 DEF AllBefore, GotFrame
        <4>2. i \in 1 .. Len(received') /\ received'[i] = received[i]
          BY <2>2, <2>6, Receiving
        <4> QED
          BY <2>7, <4>1, <4>2 DEF GotFrame
      <3>2. CASE ~(sent[g].begin < start)
        <4>1. sent[g].begin \in Nat /\ sent[f].begin <= sent[g].begin
          BY <1>0, <2>1, <3>2, TypeFacts DEF FrameAt
        <4>2. g = f
          BY <2>9, <4>1, OneFrame
        <4>3. received' = Append(received, Message)
          BY <2>6, <2>9, <4>2
        <4>4. Len(received) + 1 \in 1 .. Len(received') /\ received'[Len(received) + 1].begin = start
          BY <2>2, <4>3, Receiving
        <4> QED
          BY <2>1, <2>7, <4>2, <4>4 DEF GotFrame, FrameAt
      <3> QED
        BY <3>1, <3>2
    <2>10. AllBefore'
      BY <2>6, <2>7, <2>9 DEF AllBefore
    <2>11. taken' = start'
      BY <2>5, <2>6
    <2> QED
      BY <2>6, <2>8, <2>10, <2>11 DEF WholeInv
  <1>5. CASE Break \/ UNCHANGED vars
    <2>1. UNCHANGED <<sent, start, taken, received, shorts, Arrived>> /\ (phase' = phase \/ phase' = "broken")
      BY <1>5 DEF Break, vars, Arrived
    <2> QED
      BY <2>1 DEF WholeInv, Boundary, AllBefore, GotFrame, FrameAt
  <1> QED
    BY <1>1, <1>2, <1>3, <1>4, <1>5 DEF Next, RecvMessage, WholeInv

(* Every step keeps AloneInv.                                              *)
LEMMA AloneStep == Inv /\ AloneInv /\ [Next]_vars => AloneInv'
  <1> SUFFICES ASSUME Inv, AloneInv, peer.alone, [Next]_vars PROVE AloneInv'
    <2>1. [Next]_vars => peer' = peer
      BY DEF Next, RecvMessage, SendMessage, RecvId, RecvHead, RecvData, Read, Break, vars
    <2> QED
      BY <2>1 DEF AloneInv
  <1> USE DEF Inv
  <1>0. start \in Nat /\ taken \in Nat /\ Arrived \in Nat /\ start <= taken /\ Len(received) \in Nat /\ Len(sent) \in Nat
    BY TypeFacts DEF TypeOK, PhaseInv
  <1>1. ASSUME NEW len \in DataLens, NEW kind \in Kinds, SendMessage(len, kind) PROVE AloneInv'
    <2>0. PICK n \in Nat : n = Len(sent) + 1
      BY TypeFacts
    <2>1. UNCHANGED <<start, received>> /\ Len(received) = Len(sent)
      BY <1>1 DEF SendMessage
    <2>2. start = Arrived
      BY <1>0, <2>1 DEF AloneInv
    <2>3. /\ Len(sent') = n /\ sent'[n].begin = Arrived /\ Arrived < Arrived'
          /\ \A f \in 1 .. Len(sent) : sent'[f] = sent[f]
      BY <1>1, <2>0, Sending
    <2> QED
      BY <1>0, <2>0, <2>1, <2>2, <2>3 DEF AloneInv, FrameAt
  <1>2. CASE RecvId
    <2>1. UNCHANGED <<sent, received, Arrived>>
      BY <1>2 DEF RecvId, Arrived
    <2>2. start' = start
      <3> SUFFICES ASSUME ~AtFrame, taken < taken', taken' <= Arrived, taken' \in Nat PROVE FALSE
        BY <1>2, Reading, MsgLen DEF RecvId, IdBuffer
      <3>1. start # Arrived
        BY <1>0
      <3>2. Len(sent) \in 1 .. Len(sent) /\ FrameAt(Len(sent))
        BY <1>0, <3>1 DEF AloneInv
      <3> QED
        BY <3>2, TypeFacts DEF AtFrame, FrameAt
    <2> QED
      BY <2>1, <2>2 DEF AloneInv, FrameAt
  <1>3. CASE RecvHead \/ Break \/ UNCHANGED vars
    <2>1. UNCHANGED <<sent, received, start, Arrived>>
      BY <1>3 DEF RecvHead, Break, vars, Arrived
    <2> QED
      BY <2>1 DEF AloneInv, FrameAt
  <1>4. CASE RecvData
    <2>1. PICK f \in 1 .. Len(sent) : FrameAt(f) /\ sent[f].len = dataLen
      BY <1>4 DEF RecvData, PhaseInv
    <2>2. dataLen \in DataLens /\ End(f) \in Nat /\ start < End(f) /\ End(f) <= Arrived
      BY <2>1, TypeFacts DEF FrameAt, FrameInv
    <2>3. start # Arrived
      BY <1>0, <2>2
    <2>4. Len(received) = Len(sent) - 1 /\ FrameAt(Len(sent)) /\ Len(sent) \in 1 .. Len(sent)
      BY <1>0, <2>3 DEF AloneInv
    <2>5. f = Len(sent)
      BY <1>0, <2>1, <2>2, <2>4, OneFrame DEF FrameAt
    <2>6. End(f) = Arrived
      BY <2>4, <2>5, TypeFacts
    <2>7. UNCHANGED <<sent, Arrived>>
      BY <1>4 DEF RecvData, Arrived
    <2>8. CASE UNCHANGED <<start, received>>
      BY <2>7, <2>8 DEF AloneInv, FrameAt
    <2>9. CASE /\ End(f) <= taken' /\ start' = taken' /\ taken' \in Nat /\ taken' <= Arrived
               /\ \/ Parsed(sent[f].kind) /\ received' = Append(received, Message)
                  \/ ~Parsed(sent[f].kind) /\ received' = received
      <3>1. start' = Arrived'
        BY <1>0, <2>6, <2>7, <2>9
      <3>2. CASE Parsed(sent[f].kind) /\ received' = Append(received, Message)
        <4>1. /\ Len(received') = Len(sent')
              /\ \A i \in 1 .. Len(received') : received'[i].begin = sent'[i].begin
          BY <1>0, <2>2, <2>4, <2>7, <3>2, Receiving DEF AloneInv, FrameAt
        <4> QED
          BY <3>1, <4>1 DEF AloneInv
      <3>3. CASE ~Parsed(sent[f].kind) /\ received' = received
        BY <2>4, <2>5, <2>7, <3>1, <3>3 DEF AloneInv
      <3> QED
        BY <2>9, <3>2, <3>3
    <2> QED
      BY <1>4, <2>1, <2>8, <2>9, Returning
  <1> QED
    BY <1>1, <1>2, <1>3, <1>4 DEF Next, RecvMessage

(* While no Read was short, and always with a peer that sends one frame at *)
(* a time, RecvMessage returns every frame that lies before the place it   *)
(* is at and can be parsed.                                                *)
THEOREM NothingIsSkipped == Spec => []NothingSkipped
  <1>1. Init => WholeInv /\ AloneInv
    BY DEF Init, WholeInv, AloneInv, Boundary, AllBefore, Arrived
  <1>2. Inv /\ WholeInv /\ AloneInv /\ [Next]_vars => (WholeInv /\ AloneInv)'
    BY WholeStep, AloneStep
  <1>3. Inv /\ WholeInv /\ AloneInv => NothingSkipped
    <2> SUFFICES ASSUME Inv, WholeInv, AloneInv, shorts = 0 \/ peer.alone PROVE NothingSkipped
      BY DEF NothingSkipped
    <2>0. TypeOK /\ DOMAIN sent = 1 .. Len(sent) /\ DOMAIN received = 1 .. Len(received) /\ Len(sent) \in Nat /\ Len(received) \in Nat
      BY TypeFacts DEF Inv, TypeOK
    <2>1. Boundary /\ AllBefore
      <3>1. CASE shorts = 0
        BY <3>1 DEF WholeInv
      <3>2. CASE peer.alone
        <4>0. Len(sent) \in Nat /\ Len(received) \in Nat
          BY <2>0
        <4>1. Boundary
          <5>1. start # Arrived => Len(sent) \in 1 .. Len(sent) /\ FrameAt(Len(sent))
            BY <3>2, <4>0 DEF AloneInv
          <5> QED
            BY <5>1 DEF Boundary, FrameAt
        <4>2. ASSUME NEW f \in 1 .. Len(sent), Parsed(sent[f].kind), sent[f].begin < start PROVE GotFrame(f)
          <5>1. CASE f \in 1 .. Len(received)
            BY <3>2, <5>1 DEF AloneInv, GotFrame
          <5>2. CASE f \notin 1 .. Len(received)
            <6>1. f = Len(sent) /\ Len(received) # Len(sent)
              <7>1. Len(received) = Len(sent) \/ Len(received) = Len(sent) - 1
                BY <3>2 DEF AloneInv
              <7> QED
                BY <4>0, <5>2, <7>1
            <6>2. sent[f].begin \in Nat
              BY <2>0, TypeFacts
            <6>3. start = Arrived
              BY <3>2, <4>2, <6>1, <6>2 DEF AloneInv, FrameAt
            <6> QED
              BY <3>2, <4>2, <6>1, <6>3 DEF AloneInv
          <5> QED
            BY <5>1, <5>2
        <4> QED
          BY <4>1, <4>2 DEF AllBefore
      <3> QED
        BY <3>1, <3>2
    <2> QED
      BY <2>0, <2>1 DEF NothingSkipped, Boundary, AllBefore, GotFrame, Received, AtFrame, FrameAt
  <1> QED
    BY <1>1, <1>2, <1>3, InvHolds, PTL DEF Spec

=============================================================================
