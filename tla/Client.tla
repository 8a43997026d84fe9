------------------------------- MODULE Client -------------------------------
(***************************************************************************)
(* QMQTT::Client with its ClientPrivate (qmqtt_client_p.cpp) over Network  *)
(* and a TCP socket: the life of a connection from connectToHost() to      *)
(* disconnected(), the keep-alive and ping-response timers, and the        *)
(* auto-reconnect of the network layer.                                    *)
(*                                                                         *)
(* An action is one event of the thread that owns the client: a call of    *)
(* the application, a socket notification, a timer, or one frame of a      *)
(* readyRead, with every slot the event runs.  The application's own slots *)
(* may call disconnectFromHost() or send frames: the parameters hangUp and *)
(* burst of the actions below.  Time is not modelled here: a running timer *)
(* may fire at any moment.                                                 *)
(***************************************************************************)
EXTENDS Network

CONSTANTS
    Bursts         \* what the application may send from its connected() slot

VARIABLES
    cstate,        \* ClientPrivate::_connectionState
    keepTimer,     \* is _timer, the keep-alive timer, running?
    respTimer      \* is _pingResponseTimer running?

clientVars == <<cstate, keepTimer, respTimer>>
vars == <<socketVars, networkVars, clientVars>>

ASSUME BurstsAssumption == Bursts \subseteq Seq(AppFrames)

ClientTypeOK ==
    /\ cstate \in {"INIT", "DISCONNECTED", "CONNECTING", "CONNECTED"}
    /\ keepTimer \in BOOLEAN
    /\ respTimer \in BOOLEAN

\* Every variable stays in its range.
TypeOK == SocketTypeOK /\ NetworkTypeOK /\ ClientTypeOK

\* Mutation: the constructor leaves _connectionState as it found it.
ClientInitUnset ==
    /\ cstate = "UNSET"
    /\ keepTimer = FALSE
    /\ respTimer = FALSE

ClientInit ==
    /\ cstate = "INIT"
    /\ keepTimer = FALSE
    /\ respTimer = FALSE

Init == SocketInit /\ NetworkInit /\ ClientInit

-----------------------------------------------------------------------------
(* Parts of events. *)

\* Mutation: onNetworkDisconnected() does not lower the state.
DisconnectedKeepsState ==
    /\ keepTimer' = FALSE
    /\ respTimer' = FALSE
    /\ ArmAutoReconnect
    /\ UNCHANGED cstate

\* Mutation: stopKeepAlive() forgets the ping-response timer.
DisconnectedKeepsPing ==
    /\ cstate' = "DISCONNECTED"
    /\ keepTimer' = FALSE
    /\ ArmAutoReconnect
    /\ UNCHANGED respTimer

\* onNetworkDisconnected(): both timers stop and the state falls; the network
\* layer then arms its auto-reconnect timer (Network::onDisconnected).
Disconnected ==
    /\ cstate' = "DISCONNECTED"
    /\ keepTimer' = FALSE
    /\ respTimer' = FALSE
    /\ ArmAutoReconnect

\* Mutation: disconnectFromHost() never reaches the socket.
HangUpStaysOpen(fs) ==
    /\ Room(Len(fs) + 1)
    /\ cstate' = "DISCONNECTED"
    /\ Send(Append(fs, Disconnect))
    /\ keepTimer' = TRUE
    /\ UNCHANGED <<sock, pendingClose, inbox, broker, autoReconnect, arTimer>>

\* disconnectFromHost(), called after the frames fs were sent: the state falls
\* first, DISCONNECT is written if the socket still takes it, and sendFrame()
\* starts the keep-alive timer either way.  With DISCONNECT in the buffer the
\* close always waits.
HangUpAfter(fs) ==
    /\ Room(Len(fs) + 1)
    /\ cstate' = "DISCONNECTED"
    /\ Send(Append(fs, Disconnect))
    /\ keepTimer' = TRUE
    /\ sock' = IF sock = "Connected" THEN "Closing" ELSE sock
    /\ pendingClose' = (pendingClose \/ sock = "Connecting")
    /\ UNCHANGED <<inbox, broker, autoReconnect, arTimer>>

HangUp == HangUpAfter(<<>>)

-----------------------------------------------------------------------------
(* Calls of the application. *)

\* Client::connectToHost().  The state is set before the socket is asked, so a
\* refused call leaves a busy client in CONNECTING while its connection closes.
ConnectToHost ==
    /\ InEventLoop
    /\ \/ /\ AttemptBegins \/ CloseWaits
          /\ cstate' = "CONNECTING"
          /\ UNCHANGED <<keepTimer, respTimer, networkVars>>
       \/ CloseAtOnce /\ Disconnected /\ UNCHANGED <<autoReconnect, batch>>

DisconnectFromHost == InEventLoop /\ HangUp /\ UNCHANGED <<respTimer, batch>>

\* publish(), subscribe() or unsubscribe(): the frame may be dropped, the
\* keep-alive timer is restarted in any case.
AppSends(f) ==
    /\ InEventLoop
    /\ Room(1)
    /\ Send(<<f>>)
    /\ keepTimer' = TRUE
    /\ UNCHANGED <<sock, pendingClose, inbox, broker, networkVars, cstate, respTimer>>

\* setAutoReconnect(): the flag alone.  A timer that runs keeps running.
SetAutoReconnect ==
    /\ InEventLoop
    /\ autoReconnect' = ~autoReconnect
    /\ UNCHANGED <<socketVars, arTimer, batch, clientVars>>

\* The application deletes the client and constructs another one.
Replace ==
    /\ InEventLoop
    /\ Dropped
    /\ autoReconnect' = FALSE
    /\ arTimer' = FALSE
    /\ cstate' = "INIT"
    /\ keepTimer' = FALSE
    /\ respTimer' = FALSE
    /\ UNCHANGED batch

-----------------------------------------------------------------------------
(* Timers. *)

\* onTimerPingReq(): a ping, but only in a session.
KeepAliveFires ==
    /\ InEventLoop
    /\ keepTimer
    /\ \/ /\ cstate = "CONNECTED"
          /\ Room(1)
          /\ Send(<<Pingreq>>)
          /\ respTimer' = TRUE
          /\ UNCHANGED keepTimer
       \/ /\ cstate # "CONNECTED"
          /\ keepTimer' = FALSE
          /\ UNCHANGED <<wbuf, respTimer>>
    /\ UNCHANGED <<sock, pendingClose, inbox, broker, networkVars, cstate>>

\* onPingTimeout(): the error is reported and the client hangs up.
PingTimeout ==
    /\ InEventLoop
    /\ respTimer
    /\ HangUp
    /\ respTimer' = FALSE
    /\ UNCHANGED batch

\* The auto-reconnect timer calls Network::connectToHost(), not the client's:
\* the connection state does not become CONNECTING.  (It never runs beside a
\* connection, ReconnectTimerOnlyOffline, so nothing is closed at once here.)
AutoReconnectFires ==
    /\ InEventLoop
    /\ arTimer
    /\ AttemptBegins \/ CloseWaits
    /\ arTimer' = FALSE
    /\ UNCHANGED <<autoReconnect, batch, clientVars>>

-----------------------------------------------------------------------------
(* Socket notifications. *)

\* connected(): sendConnect() writes CONNECT and starts the keep-alive timer.
SocketConnects ==
    /\ InEventLoop
    /\ ConnectionOpens
    /\ keepTimer' = TRUE
    /\ UNCHANGED <<inbox, broker, autoReconnect, batch, cstate, respTimer>>

\* The attempt fails: error() alone.  disconnectFromHost() on the unconnected
\* socket does nothing, so no disconnected() follows and no timer is armed.
AttemptFails(hangUp) ==
    /\ InEventLoop
    /\ sock = "Connecting"
    /\ Dropped
    /\ cstate' = IF hangUp THEN "DISCONNECTED" ELSE cstate
    /\ keepTimer' = (keepTimer \/ hangUp)
    /\ UNCHANGED <<networkVars, respTimer>>

\* The connection is lost: error(), then disconnectFromHost() on a socket whose
\* engine is gone closes at once and disconnected() runs inside it.
ConnectionLost ==
    /\ InEventLoop
    /\ sock \in {"Connected", "Closing"}
    /\ Dropped
    /\ Disconnected
    /\ UNCHANGED <<autoReconnect, batch>>

\* A frame leaves the write buffer.  The last one of a closing socket takes the
\* connection with it.
FrameLeaves ==
    /\ InEventLoop
    /\ wbuf # <<>>
    /\ InboxRoom
    /\ IF sock = "Closing" /\ Len(wbuf) = 1
       THEN Dropped /\ Disconnected
       ELSE /\ wbuf' = Tail(wbuf)
            /\ BrokerTakes(Head(wbuf))
            /\ UNCHANGED <<sock, pendingClose, arTimer, clientVars>>
    /\ UNCHANGED <<autoReconnect, batch>>

ReadReady ==
    /\ InEventLoop
    /\ CopyInbox
    /\ UNCHANGED <<sock, pendingClose, wbuf, broker, autoReconnect, arTimer, clientVars>>

-----------------------------------------------------------------------------
(* Frames of the batch, handled one after the other by onNetworkReceived(). *)

\* r is the next frame of the batch.
Takes(r) == batch # <<>> /\ Head(batch) = r /\ batch' = Tail(batch)

\* CONNACK 0: the session is up; the connected() slot sends a burst of frames.
HandleAccepted(burst) ==
    /\ Takes("ACCEPTED")
    /\ Room(Len(burst) + Len(batch) - 1)
    /\ cstate' = "CONNECTED"
    /\ Send(burst)
    /\ keepTimer' = (keepTimer \/ burst # <<>>)
    /\ UNCHANGED <<sock, pendingClose, inbox, broker, autoReconnect, arTimer, respTimer>>

\* CONNACK with an error code: error(), and nothing else; the state is kept.
HandleRefused(r) ==
    /\ Takes(r)
    /\ UNCHANGED <<socketVars, autoReconnect, arTimer, clientVars>>

\* PUBLISH of QoS 1: PUBACK, then received().
HandleMessage ==
    /\ Takes("MESSAGE")
    /\ Room(1)
    /\ Send(<<Puback>>)
    /\ keepTimer' = TRUE
    /\ UNCHANGED <<sock, pendingClose, inbox, broker, autoReconnect, arTimer, cstate, respTimer>>

\* The answer to a ping: the client stops waiting for it.
HandlePingresp ==
    /\ Takes("PINGRESP")
    /\ respTimer' = FALSE
    /\ UNCHANGED <<socketVars, autoReconnect, arTimer, cstate, keepTimer>>

\* The same frames when the application's slot, which runs last, calls
\* disconnectFromHost().  The rest of the batch is still handled afterwards.
HandleThenHangUp(r) ==
    /\ Takes(r)
    /\ HangUpAfter(IF r = "MESSAGE" THEN <<Puback>> ELSE <<>>)
    /\ respTimer' = (respTimer /\ r # "PINGRESP")

-----------------------------------------------------------------------------
(* Everything that is not the client: steps of the broker and of the path. *)

Environment ==
    /\ InEventLoop
    /\ \/ \E connack \in Connacks : BrokerAnswers(connack)
       \/ BrokerPublishes
       \/ BrokerFallsSilent
    /\ UNCHANGED <<networkVars, clientVars>>

Handle ==
    \/ \E burst \in Bursts : HandleAccepted(burst)
    \/ \E r \in {"UNAVAILABLE", "REJECTED"} : HandleRefused(r)
    \/ HandleMessage
    \/ HandlePingresp
    \/ \E r \in Replies : HandleThenHangUp(r)

Application ==
    \/ ConnectToHost
    \/ DisconnectFromHost
    \/ \E f \in AppFrames : AppSends(f)
    \/ SetAutoReconnect
    \/ Replace

Next ==
    \/ Application
    \/ KeepAliveFires
    \/ PingTimeout
    \/ AutoReconnectFires
    \/ SocketConnects
    \/ \E hangUp \in BOOLEAN : AttemptFails(hangUp)
    \/ ConnectionLost
    \/ FrameLeaves
    \/ ReadReady
    \/ Handle
    \/ Environment

Spec == Init /\ [][Next]_vars

\* The operating system finishes an attempt one way or the other and sends what
\* was written; the event loop comes to a batch that was read.  Nothing is
\* assumed of the application, of the broker or of the path to it.
FairSpec ==
    /\ Spec
    /\ WF_vars(SocketConnects \/ AttemptFails(FALSE))
    /\ WF_vars(FrameLeaves)
    /\ WF_vars(Handle)

-----------------------------------------------------------------------------
(* Safety. *)

\* The application is told it is connected only over a live socket whose broker
\* accepted it: no stale CONNACK, no late slot, no refused connectToHost() on a
\* busy client leaves isConnectedToHost() true over anything else.
SessionHasConnection ==
    cstate = "CONNECTED" => sock = "Connected" /\ broker \in {"serving", "silent"}

\* A ping timeout strikes the connection that sent the ping, or none: the timer
\* never outlives the connection, whatever ended it, so it cannot close the next.
PingTimeoutStrikesItsConnection ==
    respTimer => sock \in {"Connected", "Closing"} /\ broker \notin {"idle", "greeted"}

\* The auto-reconnect timer never runs beside an established connection, where
\* its connectToHost() would be refused and would end that connection.
ReconnectTimerOnlyOffline ==
    arTimer => sock \in {"Unconnected", "Connecting"}

\* On the wire of every connection CONNECT comes first and once, and nothing
\* follows DISCONNECT; whatever the application sends, and when.
WireOrder ==
    /\ \A i \in DOMAIN wbuf :
          /\ wbuf[i] = Connect => i = 1 /\ broker \in {"idle", "silent"}
          /\ wbuf[i] = Disconnect => i = Len(wbuf) /\ sock = "Closing"
    /\ sock \in {"Connected", "Closing"} /\ broker = "idle" =>
          wbuf # <<>> /\ Head(wbuf) = Connect

-----------------------------------------------------------------------------
(* Refinement and liveness. *)

phase ==
    CASE sock \in {"Unconnected", "Connecting"} -> "down"
      [] sock = "Closing" -> "leaving"
      [] sock = "Connected" /\ cstate = "CONNECTED" -> "up"
      [] OTHER -> "greeting"

LinkLife == INSTANCE Link WITH phase <- phase

\* The connection the application sees goes through the phases of Link in order:
\* one connected() per connection, and never one after a hang-up.
ImplementsLink == LinkLife!Spec

\* A close that was asked for completes: in ConnectingState, when the attempt
\* ends; in ConnectedState, when the last frame is out.
CloseCompletes ==
    (sock = "Closing" \/ pendingClose) ~> sock = "Unconnected"
=============================================================================
