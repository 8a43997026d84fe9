----------------------------- MODULE FrameCodec -----------------------------
(***************************************************************************)
(* Packets as bytes: what Frame writes (qmqtt_frame.cpp) and the machine   *)
(* of Network::onSocketReadReady() that finds the packets again in bytes   *)
(* that arrive in pieces, on connections that may end in the middle of     *)
(* one, from a peer that may send a length of more than four bytes.        *)
(*                                                                         *)
(* A byte is a number below 2 * Base; a byte of the length has one digit   *)
(* and, if it is Base or more, is followed by another.  The peer writes    *)
(* packets as Frame does: that is the format of MQTT.  Of the header byte  *)
(* only the QoS of a PUBLISH matters here; Empty stands for the packets    *)
(* that have nothing but a header.                                         *)
(***************************************************************************)
EXTENDS Integers, Sequences, SequencesExt

CONSTANTS
    Base,       \* 128
    MaxString,  \* USHRT_MAX, 65535
    Messages,   \* what may be published: topic, id, payload and QoS
    MaxWritten  \* bound: packets on one connection

Byte == 0 .. 2 * Base - 1

ASSUME CodecAssumption ==
    /\ Base \in Nat \ {0, 1}
    /\ MaxString \in 0 .. 4 * Base * Base - 1
    /\ Messages \subseteq [topic : Seq(Byte), id : Nat, payload : Seq(Byte), qos : 0 .. 2]
    /\ \A m \in Messages : m.id \in IF m.qos = 0 THEN {0} ELSE 1 .. 4 * Base * Base - 1
    /\ MaxWritten \in Nat

VARIABLES
    up,         \* is there a connection?
    wire,       \* bytes on their way
    batch,      \* bytes that were read and not looked at
    readState,  \* Network::_readState
    header,     \* Network::_header
    length,     \* Network::_length
    shift,      \* Network::_shift, in digits of the length
    data,       \* Network::_data
    received,   \* history: the packets emitted, on this connection
    written,    \* history: the packets the peer wrote on it
    overlong,   \* history: did it write an overlong length?
    error       \* history: was error() emitted?

readerVars == <<readState, header, length, shift, data>>
histVars == <<received, written, overlong, error>>
vars == <<up, wire, batch, readerVars, histVars>>

-----------------------------------------------------------------------------
(* Frame: writing. *)

EmptyHeader == 3
Empty == [empty |-> TRUE]

\* What a digit counts, by its place.
Weight == <<1, Base, Base * Base, Base * Base * Base, Base * Base * Base * Base>>

\* The length at each turn of encodeLength()'s loop, which ends when nothing is left:
\* an int has no more than five digits.
Quotients(n) ==
    LET second == n \div Base
        third  == second \div Base
        fourth == third \div Base
    IN  <<n, second, third, fourth, fourth \div Base>>

Turns(n) ==
    CHOOSE k \in 1 .. 5 :
        \A i \in 2 .. 5 : IF i <= k THEN Quotients(n)[i] > 0 ELSE Quotients(n)[i] = 0

\* encodeLength(): least significant digit first.
EncodeLength(n) ==
    [k \in 1 .. Turns(n) |-> (Quotients(n)[k] % Base) + (IF k < Turns(n) THEN Base ELSE 0)]

\* writeInt(): MSB, LSB.
WriteInt(i) == <<i \div (2 * Base), i % (2 * Base)>>

\* What is left of a string that is too long for writeString().
Truncated(s) == IF Len(s) > MaxString THEN SubSeq(s, 1, MaxString) ELSE s

WriteString(s) == WriteInt(Len(Truncated(s))) \o Truncated(s)

\* The data of a PUBLISH.
PublishData(m) ==
    WriteString(m.topic) \o (IF m.qos > 0 THEN WriteInt(m.id) ELSE <<>>) \o m.payload

HeaderOf(p) == IF p = Empty THEN EmptyHeader ELSE p.qos
DataOf(p) == IF p = Empty THEN <<>> ELSE PublishData(p)

\* The packet as it is on the wire.
Said(p) == IF p = Empty THEN p ELSE [p EXCEPT !.topic = Truncated(@)]

\* write(): dropped if the length takes more than four bytes.
Fits(p) == Len(EncodeLength(Len(DataOf(p)))) <= 4
FrameBytes(p) == <<HeaderOf(p)>> \o EncodeLength(Len(DataOf(p))) \o DataOf(p)

-----------------------------------------------------------------------------
(* Frame: reading. *)

\* What a packet becomes whose data ends before its fields do: readInt() looks at
\* bytes that are not there.
Malformed == [malformed |-> TRUE]

ReadInt(d) == d[1] * 2 * Base + d[2]

\* readString(): left() takes what there is.
ReadString(d) == SubSeq(d, 3, IF 2 + ReadInt(d) > Len(d) THEN Len(d) ELSE 2 + ReadInt(d))
AfterString(d) == SubSeq(d, 3 + ReadInt(d), Len(d))

\* onNetworkReceived(): the fields of a PUBLISH.
Decode(h, d) ==
    IF h = EmptyHeader THEN Empty
    ELSE IF Len(d) < 2 THEN Malformed
    ELSE IF h = 0 THEN [topic |-> ReadString(d), id |-> 0, payload |-> AfterString(d), qos |-> h]
    ELSE IF Len(AfterString(d)) < 2 THEN Malformed
    ELSE [topic |-> ReadString(d), id |-> ReadInt(AfterString(d)),
          payload |-> SubSeq(AfterString(d), 3, Len(AfterString(d))), qos |-> h]

-----------------------------------------------------------------------------
\* Every variable stays in its range; the length fits in four digits.
TypeOK ==
    /\ up \in BOOLEAN
    /\ wire \in Seq(Byte) /\ batch \in Seq(Byte)
    /\ readState \in {"Header", "Length", "PayLoad"}
    /\ header \in Byte
    /\ length \in 0 .. Weight[5] - 1
    /\ shift \in 0 .. 4
    /\ data \in Seq(Byte)
    /\ readState = "Length" => shift <= 3
    /\ readState = "PayLoad" => length > 0
    /\ Len(written) <= MaxWritten
    /\ overlong \in BOOLEAN /\ error \in BOOLEAN

Init ==
    /\ up = FALSE
    /\ wire = <<>> /\ batch = <<>>
    /\ readState = "Header" /\ header = 0 /\ length = 0 /\ shift = 0 /\ data = <<>>
    /\ received = <<>> /\ written = <<>>
    /\ overlong = FALSE /\ error = FALSE

-----------------------------------------------------------------------------
(* The connection and the peer. *)

\* Mutation: onConnected() does not reset the reader.
OpenKeepsReader ==
    /\ ~up /\ batch = <<>>
    /\ up' = TRUE
    /\ received' = <<>> /\ written' = <<>> /\ overlong' = FALSE /\ error' = FALSE
    /\ UNCHANGED <<wire, batch, readerVars>>

\* onConnected(), in the event loop.
Open ==
    /\ ~up /\ batch = <<>>
    /\ up' = TRUE
    /\ readState' = "Header"
    /\ received' = <<>> /\ written' = <<>> /\ overlong' = FALSE /\ error' = FALSE
    /\ UNCHANGED <<wire, batch, header, length, shift, data>>

\* The connection ends; it may be a slot in the middle of a batch that ends it.
Lose ==
    /\ up
    /\ up' = FALSE
    /\ wire' = <<>>
    /\ UNCHANGED <<batch, readerVars, histVars>>

Write(p) ==
    /\ up /\ Len(written) < MaxWritten
    /\ Fits(p)
    /\ wire' = wire \o FrameBytes(p)
    /\ written' = Append(written, Said(p))
    /\ UNCHANGED <<up, batch, readerVars, received, overlong, error>>

\* A header and a length of five bytes.
Overlong == <<0, Base, Base, Base, Base, 0>>

WriteOverlong ==
    /\ up /\ ~overlong /\ Len(written) < MaxWritten
    /\ wire' = wire \o Overlong
    /\ overlong' = TRUE
    /\ UNCHANGED <<up, batch, readerVars, received, written, error>>

\* readyRead: a segment, or a WebSocket message, of any length; all that arrived
\* is read at once.
Arrive(n) ==
    /\ batch = <<>>
    /\ n \in 1 .. Len(wire)
    /\ batch' = SubSeq(wire, 1, n)
    /\ wire' = SubSeq(wire, n + 1, Len(wire))
    /\ UNCHANGED <<up, readerVars, histVars>>

-----------------------------------------------------------------------------
(* The reader, byte by byte. *)

\* The frame is complete.
EmitReceived(d) ==
    /\ readState' = "Header"
    /\ received' = Append(received, Decode(header, d))

\* Mutation: _shift is not reset.
ReadHeaderKeepsShift ==
    /\ batch # <<>> /\ readState = "Header"
    /\ batch' = Tail(batch)
    /\ readState' = "Length"
    /\ header' = Head(batch)
    /\ length' = 0 /\ data' = <<>>
    /\ UNCHANGED <<up, wire, shift, histVars>>

ReadHeader ==
    /\ batch # <<>> /\ readState = "Header"
    /\ batch' = Tail(batch)
    /\ readState' = "Length"
    /\ header' = Head(batch)
    /\ length' = 0 /\ shift' = 0 /\ data' = <<>>
    /\ UNCHANGED <<up, wire, histVars>>

\* Mutation: one byte more, and one byte less, than MQTT has.
LastShiftLate == 4
LastShiftEarly == 2

\* The limit on the digits of a length: three shifts of seven.
LastShift == 3

ReadLength ==
    /\ batch # <<>> /\ readState = "Length"
    /\ batch' = Tail(batch)
    /\ length' = length + (Head(batch) % Base) * Weight[shift + 1]
    /\ shift' = shift + 1
    /\ \/ /\ Head(batch) >= Base /\ shift' <= LastShift
          /\ UNCHANGED <<readState, received, error>>
       \/ /\ Head(batch) >= Base /\ shift' > LastShift
          /\ readState' = "Header"
          /\ error' = TRUE
          /\ UNCHANGED received
       \/ /\ Head(batch) < Base /\ length' = 0
          /\ EmitReceived(data)
          /\ UNCHANGED error
       \/ /\ Head(batch) < Base /\ length' > 0
          /\ readState' = "PayLoad"
          /\ UNCHANGED <<received, error>>
    /\ UNCHANGED <<up, wire, header, data, written, overlong>>

ReadPayload ==
    /\ batch # <<>> /\ readState = "PayLoad"
    /\ batch' = Tail(batch)
    /\ data' = Append(data, Head(batch))
    /\ length' = length - 1
    /\ IF length' > 0 THEN UNCHANGED <<readState, received>> ELSE EmitReceived(data')
    /\ UNCHANGED <<up, wire, header, shift, written, overlong, error>>

Read == ReadHeader \/ ReadLength \/ ReadPayload

Next ==
    \/ Open
    \/ Lose
    \/ \E p \in Messages \cup {Empty} : Write(p)
    \/ WriteOverlong
    \/ \E n \in 1 .. Len(wire) : Arrive(n)
    \/ Read

Spec == Init /\ [][Next]_vars

\* Bytes on their way arrive, and bytes that were read are looked at.
FairSpec == Spec /\ WF_vars(\E n \in 1 .. Len(wire) : Arrive(n)) /\ WF_vars(Read)

-----------------------------------------------------------------------------
\* What is received on a connection is what the peer wrote on it, field for field
\* and in order, wherever the bytes were cut and wherever an earlier connection
\* broke off.
FramesAsWritten == ~overlong => IsPrefix(received, written)

\* error() is emitted for an overlong length, once it has arrived, and for nothing
\* else.
OverlongIsReported ==
    /\ error => overlong
    /\ up /\ overlong /\ wire = <<>> /\ batch = <<>> => error

\* Every packet is received, however small the pieces it comes in, unless the
\* connection is lost or its framing is.
FramesArrive ==
    \A k \in 1 .. MaxWritten :
        Len(written) >= k ~>
            \/ k \in DOMAIN received \cap DOMAIN written /\ received[k] = written[k]
            \/ ~up \/ overlong
=============================================================================
