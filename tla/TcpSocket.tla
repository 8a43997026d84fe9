----------------------------- MODULE TcpSocket -----------------------------
(***************************************************************************)
(* What QMQTT::Socket (qmqtt_socket.cpp) gives the client: a QTcpSocket,   *)
(* and behind it the path to a broker.  Both are external to the           *)
(* repository; the module keeps only what the client can tell apart:       *)
(*                                                                         *)
(*   - connectToHost() is legal in UnconnectedState only; anywhere else it *)
(*     reports OperationError and changes nothing;                         *)
(*   - disconnectFromHost() is a no-op in UnconnectedState, is remembered  *)
(*     until the attempt ends in ConnectingState (pendingClose), and in    *)
(*     ConnectedState closes at once unless written bytes are still        *)
(*     waiting, in which case the socket stays in ClosingState until they  *)
(*     are out;                                                            *)
(*   - a failed attempt emits error() alone; disconnected() follows only a *)
(*     connection that existed;                                            *)
(*   - nothing is read in ClosingState.                                    *)
(*                                                                         *)
(* The broker answers one CONNECT with one CONNACK, pings after accepting, *)
(* and may leave or go silent (a half-open connection) at any time.        *)
(***************************************************************************)
EXTENDS Integers, Sequences

CONSTANTS
    AppFrames,     \* PUBLISH, SUBSCRIBE and UNSUBSCRIBE frames of the application
    MaxUnsent,     \* bound: frames waiting in the socket's write buffer
    MaxInbox       \* bound: frames that arrived and are not read yet

VARIABLES
    sock,          \* QAbstractSocket::state(), HostLookupState being Connecting
    pendingClose,  \* disconnectFromHost() was called during the attempt
    wbuf,          \* frames written and not sent yet, in order
    inbox,         \* frames from the broker that are not read yet, in order
    broker         \* what the broker's end of this connection has done

socketVars == <<sock, pendingClose, wbuf, inbox, broker>>

\* The frames the client sends on its own account.
Connect == [type |-> "CONNECT"]
Pingreq == [type |-> "PINGREQ"]
Puback == [type |-> "PUBACK"]
Disconnect == [type |-> "DISCONNECT"]

OwnFrames == {Connect, Pingreq, Puback, Disconnect}

ASSUME BoundsAssumption ==
    /\ MaxUnsent \in Nat \ {0}
    /\ MaxInbox \in Nat \ {0}
    /\ \A f \in AppFrames : f.type \notin {own.type : own \in OwnFrames}

Frames == OwnFrames \cup AppFrames

\* CONNACK with return code 0, with code 3 (server unavailable), and with one
\* of the codes the user has to repair (1, 2, 4, 5).
Connacks == {"ACCEPTED", "UNAVAILABLE", "REJECTED"}

\* MESSAGE is a PUBLISH of QoS 1, the one that makes the client write.
Replies == Connacks \cup {"PINGRESP", "MESSAGE"}

BrokerStates == {"idle", "greeted", "serving", "refusing", "silent"}

SocketTypeOK ==
    /\ sock \in {"Unconnected", "Connecting", "Connected", "Closing"}
    /\ pendingClose \in BOOLEAN
    /\ wbuf \in Seq(Frames)
    /\ inbox \in Seq(Replies)
    /\ broker \in BrokerStates

SocketInit ==
    /\ sock = "Unconnected"
    /\ pendingClose = FALSE
    /\ wbuf = <<>>
    /\ inbox = <<>>
    /\ broker = "idle"

\* Is there room for n more frames, and for a reply?  Not conditions of the
\* code: the bounds that keep the two queues small.
Room(n) == sock = "Connected" => Len(wbuf) + n <= MaxUnsent
InboxRoom == sock = "Connected" => Len(inbox) < MaxInbox

\* The connection is gone, with everything on its way in either direction.
Dropped ==
    /\ sock' = "Unconnected"
    /\ pendingClose' = FALSE
    /\ wbuf' = <<>>
    /\ inbox' = <<>>
    /\ broker' = "idle"

-----------------------------------------------------------------------------
(* The broker. *)

\* The broker takes a frame that reached it.  What it says to a socket that is
\* closing is never read, so it is not kept.  (DISCONNECT is the last frame of a
\* connection: it goes with the socket, see FrameLeaves.)
BrokerTakes(f) ==
    /\ broker' = IF broker # "silent" /\ f.type = "CONNECT" THEN "greeted" ELSE broker
    /\ inbox' = IF f.type = "PINGREQ" /\ broker = "serving" /\ sock = "Connected"
                THEN Append(inbox, "PINGRESP")
                ELSE inbox

\* The broker answers the CONNECT of this connection, once.
BrokerAnswers(connack) ==
    /\ broker = "greeted"
    /\ sock = "Connected" /\ InboxRoom
    /\ inbox' = Append(inbox, connack)
    /\ broker' = IF connack = "ACCEPTED" THEN "serving" ELSE "refusing"
    /\ UNCHANGED <<sock, pendingClose, wbuf>>

\* The broker publishes to a client it accepted.
BrokerPublishes ==
    /\ broker = "serving"
    /\ sock = "Connected" /\ InboxRoom
    /\ inbox' = Append(inbox, "MESSAGE")
    /\ UNCHANGED <<sock, pendingClose, wbuf, broker>>

\* The path to the broker dies without a FIN or a RST: writes still succeed,
\* nothing ever comes back.
BrokerFallsSilent ==
    /\ sock \in {"Connected", "Closing"}
    /\ broker # "silent"
    /\ broker' = "silent"
    /\ UNCHANGED <<sock, pendingClose, wbuf, inbox>>
=============================================================================
