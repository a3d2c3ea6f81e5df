------------------------------ MODULE Framing ------------------------------
(***************************************************************************)
(* One direction of a connection: frames are written whole to a stream of  *)
(* bytes, and RecvMessage of package message cuts the stream into frames   *)
(* again. It asks for the header id, for the rest of the header and the    *)
(* dispatch data, then for the service data and the checksum; each time    *)
(* with a buffer of the length that part has, until it has enough.         *)
(* A Read may return less than the buffer holds. Then the next Read, with  *)
(* the whole buffer again, may take bytes of the part that follows.        *)
(*                                                                         *)
(* A byte is its place in the stream. The header id is never met by chance *)
(* in other bytes; the checksum, one byte, may be.                         *)
(***************************************************************************)
EXTENDS Naturals, Sequences

CONSTANTS
  IdLen,         (* MessageHeaderIDLen (4)                                 *)
  HeadLen,       (* the rest of MessageHeader, and DispatchData (23)       *)
  DataLens,      (* values of ServiceDataLength                            *)
  Kinds,         (* of frames, see Parsed                                  *)
  MaxFrames,     (* bound: frames of a behaviour                           *)
  Instances      (* what a behaviour may meet: a set of records of         *)
                 (*   alone   the peer sends a frame once the last was     *)
                 (*           received                                     *)
                 (*   frames  bound: frames sent                           *)
                 (*   shorts  bound: Reads that return less than the       *)
                 (*           buffer holds                                 *)

ASSUME ConstantsOK ==
  /\ IdLen \in Nat \ {0} /\ HeadLen \in Nat \ {0} /\ DataLens \subseteq Nat \ {0}
  /\ Kinds \subseteq {"plain", "sealed", "wrongKey", "base64", "check"}
  /\ MaxFrames \in Nat
  /\ Instances \subseteq [alone : BOOLEAN, frames : 0 .. MaxFrames, shorts : Nat]

VARIABLES
  sent,          (* the frames written, each with its place in the stream  *)
  phase,         (* part of RecvOneMessage: "id", "head", "data"; "broken" *)
  start,         (* the stream from here on is                             *)
  taken,         (* readData, up to here                                   *)
  dataLen,       (* dd.ServiceDataLength                                   *)
  received,      (* what RecvMessage has returned with RetSuccess          *)
  peer,          (* the instance: what the peer and the network may do     *)
  shorts         (* Reads so far that were short                           *)

vars == <<sent, phase, start, taken, dataLen, received, peer, shorts>>

Frames == [begin : Nat, len : DataLens, kind : Kinds]

Init ==
  /\ sent = <<>> /\ phase = "id" /\ start = 0 /\ taken = 0 /\ dataLen = 0
  /\ received = <<>> /\ peer \in Instances /\ shorts = 0

(* oneMsgLen                                                               *)
OneMsgLen(len) == IdLen + HeadLen + len + 1

Arrived == IF sent = <<>> THEN 0
           ELSE sent[Len(sent)].begin + OneMsgLen(sent[Len(sent)].len)

(* GetOneMessage, SendOneMessage                                           *)
SendMessage(len, kind) ==
  /\ Len(sent) < peer.frames
  /\ peer.alone => Len(received) = Len(sent)
  /\ sent' = Append(sent, [begin |-> Arrived, len |-> len, kind |-> kind])
  /\ UNCHANGED <<phase, start, taken, dataLen, received, peer, shorts>>

-----------------------------------------------------------------------------
(* RecvOneMessage                                                          *)

(* The frame that begins with the first byte of readData.                  *)
AtFrame == \E f \in DOMAIN sent : sent[f].begin = start
Frame   == CHOOSE f \in DOMAIN sent : sent[f].begin = start

(* Mutants of DataBuffer and HeadBuffer: the first forgets the checksum,   *)
(* the second has the capacity of readData.                                *)
DataBufferShort == dataLen
HeadBufferLong  == 4096

(* len(buf) of the phases.                                                 *)
IdBuffer   == IdLen
HeadBuffer == HeadLen
DataBuffer == dataLen + 1

(* Connection.Read(buf)                                                    *)
Read(buf) ==
  \E n \in 1 .. buf :
    /\ taken + n <= Arrived
    /\ taken' = taken + n
    /\ IF n = buf THEN UNCHANGED shorts ELSE shorts < peer.shorts /\ shorts' = shorts + 1
    /\ UNCHANGED peer

Has(n) == taken' - start >= n

(* Return: the next call begins with what this one has not read.           *)
Returns == phase' = "id" /\ start' = taken'

(* Mutant of RecvId: nothing checks the id.                                *)
RecvAnyId ==
  /\ phase = "id" /\ Read(IdBuffer)
  /\ \/ ~Has(IdLen) /\ UNCHANGED <<phase, start>>
     \/ Has(IdLen) /\ phase' = "head" /\ UNCHANGED start
  /\ UNCHANGED <<sent, dataLen, received>>

(* ErrorCodeGeneral: the reader goes on with the next call.                *)
RecvId ==
  /\ phase = "id" /\ Read(IdBuffer)
  /\ \/ ~Has(IdLen) /\ UNCHANGED <<phase, start>>
     \/ Has(IdLen) /\ AtFrame /\ phase' = "head" /\ UNCHANGED start
     \/ Has(IdLen) /\ ~AtFrame /\ Returns
  /\ UNCHANGED <<sent, dataLen, received>>

RecvHead ==
  /\ phase = "head" /\ Read(HeadBuffer)
  /\ \/ ~Has(IdLen + HeadLen) /\ UNCHANGED <<phase, dataLen>>
     \/ /\ Has(IdLen + HeadLen) /\ phase' = "data"
        /\ dataLen' \in IF AtFrame THEN {sent[Frame].len} ELSE DataLens
  /\ UNCHANGED <<sent, start, received>>

(* ParseOneMessage: of the frames that are whole, those that it returns    *)
(* with an error have another encryption, a key that is not the one they   *)
(* were sealed with, or a ServiceDataCheck of other data.                  *)
Parsed(kind) == kind \in {"plain", "sealed"}

Message == [begin |-> start, len |-> dataLen]

(* The checksum is that of readData[:oneMsgLen]; what is beyond is dropped *)
(* with readData.                                                          *)
RecvData ==
  /\ phase = "data" /\ Read(DataBuffer)
  /\ \/ ~Has(OneMsgLen(dataLen)) /\ UNCHANGED <<phase, start, received>>
     \/ /\ Has(OneMsgLen(dataLen)) /\ Returns
        /\ \/ /\ AtFrame => Parsed(sent[Frame].kind)
              /\ received' = Append(received, Message)
           \/ /\ ~(AtFrame /\ Parsed(sent[Frame].kind))
              /\ UNCHANGED received
  /\ UNCHANGED <<sent, dataLen>>

(* ErrorCodeConnectionBreak ends the reader.                               *)
Break ==
  /\ phase' = "broken" /\ phase # "broken"
  /\ UNCHANGED <<sent, start, taken, dataLen, received, peer, shorts>>

RecvMessage == RecvId \/ RecvHead \/ RecvData

Next ==
  \/ RecvMessage \/ Break
  \/ \E len \in DataLens, kind \in Kinds : SendMessage(len, kind)

(* The reader runs; of the peer nothing is assumed.                        *)
Spec     == Init /\ [][Next]_vars
FairSpec == Spec /\ WF_vars(RecvMessage)

-----------------------------------------------------------------------------
(* The types of the variables.                                             *)
TypeOK ==
  /\ sent \in Seq(Frames) /\ phase \in {"id", "head", "data", "broken"}
  /\ start \in Nat /\ taken \in Nat /\ dataLen \in DataLens \cup {0}
  /\ received \in Seq([begin : Nat, len : DataLens])
  /\ peer \in Instances /\ shorts \in Nat

IsFrame(msg) == \E f \in DOMAIN sent : /\ sent[f].begin = msg.begin /\ sent[f].len = msg.len
                                       /\ Parsed(sent[f].kind)

(* However the stream is cut by Read, what RecvMessage returns are whole   *)
(* frames, in the order they were sent and none twice (message.go:72-161). *)
Intact ==
  /\ \A i \in DOMAIN received : IsFrame(received[i])
  /\ \A i, j \in DOMAIN received : i < j => received[i].begin < received[j].begin

Received(f) == f \in DOMAIN sent /\ \E i \in DOMAIN received : received[i].begin = sent[f].begin

(* While no Read was short, and always with a peer that sends one frame at *)
(* a time, RecvOneMessage is at a frame or has read all there is, and what *)
(* can be parsed of the frames before was received (message.go:72-161).    *)
NothingSkipped ==
  shorts = 0 \/ peer.alone =>
    /\ start = Arrived \/ AtFrame
    /\ \A f \in DOMAIN sent : Parsed(sent[f].kind) /\ sent[f].begin < start => Received(f)

(* Every frame is received that can be parsed. It takes one of two things: *)
(* Reads that are never short; or a peer that sends one frame at a time,   *)
(* with ServiceDataLength + 1 >= HeadLen. Shorter frames may have been     *)
(* read to their end with the head, and RecvOneMessage then waits for a    *)
(* byte of the next frame (message.go:113-153).                            *)
LongEnough == \A f \in DOMAIN sent : sent[f].len + 1 >= HeadLen
EveryFrame ==
  \A f \in 1 .. MaxFrames :
    (f \in DOMAIN sent /\ Parsed(sent[f].kind))
      ~> \/ Received(f) \/ phase = "broken"
         \/ shorts > 0 /\ ~(peer.alone /\ LongEnough)
=============================================================================
