------------------------------ MODULE Network ------------------------------
(***************************************************************************)
(* QMQTT::Network (qmqtt_network.cpp): the socket, the frames cut out of   *)
(* what was read, and the single-shot auto-reconnect timer.                *)
(*                                                                         *)
(* Every connection in the library is a direct signal-slot connection on   *)
(* one thread, so a slot of Network runs inside the socket's event and the *)
(* slots of Client run inside it.  Operators of this module are the parts  *)
(* of such an event that happen here; module Client joins them to actions. *)
(***************************************************************************)
EXTENDS TcpSocket

VARIABLES
    autoReconnect, \* Network::_autoReconnect
    arTimer,       \* is _autoReconnectTimer running?
    batch          \* frames of one readyRead that are still to be emitted

networkVars == <<autoReconnect, arTimer, batch>>

NetworkTypeOK ==
    /\ autoReconnect \in BOOLEAN
    /\ arTimer \in BOOLEAN
    /\ batch \in Seq(Replies)

NetworkInit ==
    /\ autoReconnect = FALSE
    /\ arTimer = FALSE
    /\ batch = <<>>

\* Is the thread back in the event loop?  onSocketReadReady() emits every frame
\* of the bytes it copied before it returns, so no other event comes between.
InEventLoop == batch = <<>>

-----------------------------------------------------------------------------
(* Mutations: definitions as a slip in the code would have them, kept to show *)
(* that the properties notice.  Each stands before the definition it alters.  *)

\* sendFrame() without its test of the socket state.
SendUnguarded(fs) == wbuf' = wbuf \o fs

\* onConnected() without _autoReconnectTimer->stop().
ConnectionOpensTimerRuns ==
    /\ sock = "Connecting"
    /\ sock' = IF pendingClose THEN "Closing" ELSE "Connected"
    /\ pendingClose' = FALSE
    /\ wbuf' = Append(wbuf, Connect)
    /\ UNCHANGED arTimer

-----------------------------------------------------------------------------
\* sendFrame(): a frame is written in ConnectedState and dropped in any other.
Send(fs) == wbuf' = IF sock = "Connected" THEN wbuf \o fs ELSE wbuf

\* connectToHost() on an idle socket: an attempt begins.
AttemptBegins ==
    /\ sock = "Unconnected"
    /\ sock' = "Connecting"
    /\ pendingClose' = FALSE
    /\ UNCHANGED <<wbuf, inbox, broker>>

\* connectToHost() on a busy socket: OperationError comes back at once, and
\* onSocketError() answers with disconnectFromHost().  The two operators are its
\* outcomes: the close waits (for the attempt or for unsent frames), or the
\* connection is closed in the same call.
CloseWaits ==
    /\ \/ sock = "Connecting"
       \/ sock \in {"Connected", "Closing"} /\ wbuf # <<>>
    /\ sock' = IF sock = "Connected" THEN "Closing" ELSE sock
    /\ pendingClose' = (pendingClose \/ sock = "Connecting")
    /\ UNCHANGED <<wbuf, inbox, broker>>

CloseAtOnce ==
    /\ sock = "Connected"
    /\ wbuf = <<>>
    /\ Dropped

\* onDisconnected(), after disconnected() was emitted.
ArmAutoReconnect == arTimer' = (arTimer \/ autoReconnect)

\* onConnected(), after connected() was emitted and CONNECT was written.  A close
\* that waited for the attempt is carried out now, and has CONNECT to send first.
ConnectionOpens ==
    /\ sock = "Connecting"
    /\ sock' = IF pendingClose THEN "Closing" ELSE "Connected"
    /\ pendingClose' = FALSE
    /\ wbuf' = Append(wbuf, Connect)
    /\ arTimer' = FALSE

\* onSocketReadReady(): some of the bytes that are waiting are copied.  (Room: a
\* frame may be answered before the event ends.)
CopyInbox ==
    /\ sock = "Connected"
    /\ \E n \in 1 .. Len(inbox) :
          /\ Room(n)
          /\ batch' = SubSeq(inbox, 1, n)
          /\ inbox' = SubSeq(inbox, n + 1, Len(inbox))
=============================================================================
