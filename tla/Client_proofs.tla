--------------------------- MODULE Client_proofs ---------------------------
(***************************************************************************)
(* Proofs about module Client: the type invariant, the four invariants     *)
(* that TLC checks on a small instance, and the refinement of Link, for    *)
(* every set of application frames, every burst, and queues of every       *)
(* length.                                                                 *)
(***************************************************************************)
EXTENDS Client, SequenceTheorems, TLAPS

-----------------------------------------------------------------------------
(* Frames and what is written. *)

\* The client's own frames are frames; they differ from the application's, and
\* CONNECT and DISCONNECT from every other.
LEMMA FrameFacts ==
    /\ {Connect, Pingreq, Puback, Disconnect} \subseteq Frames
    /\ AppFrames \subseteq Frames
    /\ Connect # Pingreq /\ Connect # Puback /\ Connect # Disconnect
    /\ Disconnect # Pingreq /\ Disconnect # Puback
    /\ \A f \in AppFrames : f # Connect /\ f # Disconnect
    /\ \A f \in Frames : f.type = "CONNECT" => f = Connect
<1>1. {Connect, Pingreq, Puback, Disconnect} \subseteq Frames /\ AppFrames \subseteq Frames
  BY DEF Frames, OwnFrames
<1>2. /\ Connect # Pingreq /\ Connect # Puback /\ Connect # Disconnect
      /\ Disconnect # Pingreq /\ Disconnect # Puback
  BY DEF Connect, Pingreq, Puback, Disconnect
<1>3. ASSUME NEW f \in AppFrames PROVE f # Connect /\ f # Disconnect
  <2>1. f.type \notin {own.type : own \in OwnFrames}
    BY BoundsAssumption
  <2>2. QED
    BY <2>1 DEF OwnFrames
<1>4. ASSUME NEW f \in Frames, f.type = "CONNECT" PROVE f = Connect
  <2>1. f \notin AppFrames
    BY <1>4, BoundsAssumption DEF OwnFrames, Connect
  <2>2. QED
    BY <1>4, <2>1 DEF Frames, OwnFrames, Pingreq, Puback, Disconnect
<1>5. QED
  BY <1>1, <1>2, <1>3, <1>4

\* A burst is a sequence of frames, none of them CONNECT or DISCONNECT.
LEMMA BurstFacts ==
    ASSUME NEW burst \in Seq(AppFrames)
    PROVE  /\ burst \in Seq(Frames)
           /\ \A i \in 1 .. Len(burst) : burst[i] # Connect /\ burst[i] # Disconnect
<1>1. burst \in Seq(Frames)
  BY FrameFacts, SeqMonotonic
<1>2. \A i \in 1 .. Len(burst) : burst[i] \in AppFrames
  BY ElementOfSeq
<1>3. QED
  BY <1>1, <1>2, FrameFacts

-----------------------------------------------------------------------------
(* Types. *)

\* Sending keeps the write buffer a sequence of frames.
LEMMA SendTypes ==
    ASSUME wbuf \in Seq(Frames), NEW fs \in Seq(Frames), Send(fs)
    PROVE  wbuf' \in Seq(Frames)
BY ConcatProperties DEF Send

\* What HangUpAfter() does to the types of the variables it changes.
LEMMA HangUpTypes ==
    ASSUME TypeOK, NEW fs \in Seq(Frames), HangUpAfter(fs)
    PROVE  /\ SocketTypeOK'
           /\ autoReconnect' \in BOOLEAN /\ arTimer' \in BOOLEAN
           /\ cstate' = "DISCONNECTED" /\ keepTimer' = TRUE
<1>1. Append(fs, Disconnect) \in Seq(Frames)
  BY FrameFacts, AppendProperties
<1>2. wbuf' \in Seq(Frames)
  BY <1>1, SendTypes DEF TypeOK, SocketTypeOK, HangUpAfter
<1>3. QED
  BY <1>2 DEF TypeOK, SocketTypeOK, NetworkTypeOK, HangUpAfter

LEMMA DroppedTypes ==
    ASSUME Dropped PROVE SocketTypeOK'
BY EmptySeq DEF Dropped, SocketTypeOK, BrokerStates

\* A session that begins, whatever the connected() slot sends.
LEMMA AcceptedTypes ==
    ASSUME TypeOK, NEW burst \in Seq(AppFrames), HandleAccepted(burst)
    PROVE  TypeOK'
<1> USE DEF TypeOK, SocketTypeOK, NetworkTypeOK, ClientTypeOK
<1>1. batch' \in Seq(Replies)
  BY HeadTailProperties DEF HandleAccepted, Takes
<1>2. wbuf' \in Seq(Frames)
  BY BurstFacts, SendTypes DEF HandleAccepted
<1>3. QED
  BY <1>1, <1>2 DEF HandleAccepted

LEMMA TypeStep == TypeOK /\ [Next]_vars => TypeOK'
<1> SUFFICES ASSUME TypeOK, [Next]_vars PROVE TypeOK'
  OBVIOUS
<1> USE DEF TypeOK, SocketTypeOK, NetworkTypeOK, ClientTypeOK
<1>1. CASE ConnectToHost
  <2>1. CASE AttemptBegins \/ CloseWaits
    BY <1>1, <2>1 DEF ConnectToHost, AttemptBegins, CloseWaits, CloseAtOnce, Dropped,
                      Disconnected, ArmAutoReconnect, networkVars
  <2>2. CASE CloseAtOnce /\ Disconnected /\ UNCHANGED <<autoReconnect, batch>>
    BY <2>2, DroppedTypes DEF CloseAtOnce, Disconnected, ArmAutoReconnect
  <2>3. QED
    BY <1>1, <2>1, <2>2 DEF ConnectToHost
<1>2. CASE DisconnectFromHost
  BY <1>2, HangUpTypes, EmptySeq DEF DisconnectFromHost, HangUp
<1>3. ASSUME NEW f \in AppFrames, AppSends(f) PROVE TypeOK'
  <2>1. <<f>> \in Seq(Frames)
    BY FrameFacts
  <2>2. QED
    BY <1>3, <2>1, SendTypes DEF AppSends, networkVars
<1>4. CASE SetAutoReconnect
  BY <1>4 DEF SetAutoReconnect, socketVars, clientVars
<1>5. CASE Replace
  BY <1>5, DroppedTypes DEF Replace
<1>6. CASE KeepAliveFires
  <2>1. <<Pingreq>> \in Seq(Frames)
    BY FrameFacts
  <2>2. wbuf' \in Seq(Frames)
    BY <1>6, <2>1, SendTypes DEF KeepAliveFires
  <2>3. QED
    BY <1>6, <2>2 DEF KeepAliveFires, networkVars
<1>7. CASE PingTimeout
  BY <1>7, HangUpTypes, EmptySeq DEF PingTimeout, HangUp
<1>8. CASE AutoReconnectFires
  BY <1>8 DEF AutoReconnectFires, AttemptBegins, CloseWaits, clientVars
<1>9. CASE SocketConnects
  <2>1. wbuf' \in Seq(Frames)
    BY <1>9, FrameFacts, AppendProperties DEF SocketConnects, ConnectionOpens
  <2>2. QED
    BY <1>9, <2>1 DEF SocketConnects, ConnectionOpens
<1>10. ASSUME NEW hangUp \in BOOLEAN, AttemptFails(hangUp) PROVE TypeOK'
  BY <1>10, DroppedTypes DEF AttemptFails, networkVars
<1>11. CASE ConnectionLost
  BY <1>11, DroppedTypes DEF ConnectionLost, Disconnected, ArmAutoReconnect
<1>12. CASE FrameLeaves
  <2>1. CASE sock = "Closing" /\ Len(wbuf) = 1
    BY <1>12, <2>1, DroppedTypes DEF FrameLeaves, Disconnected, ArmAutoReconnect
  <2>2. CASE ~(sock = "Closing" /\ Len(wbuf) = 1)
    <3>1. wbuf' \in Seq(Frames)
      BY <1>12, <2>2, HeadTailProperties DEF FrameLeaves
    <3>2. inbox' \in Seq(Replies)
      <4>1. "PINGRESP" \in Replies
        BY DEF Replies
      <4>2. Append(inbox, "PINGRESP") \in Seq(Replies)
        BY <4>1, AppendProperties
      <4>3. QED
        BY <1>12, <2>2, <4>2 DEF FrameLeaves, BrokerTakes
    <3>3. broker' \in BrokerStates
      BY <1>12, <2>2 DEF FrameLeaves, BrokerTakes, BrokerStates
    <3>4. QED
      BY <1>12, <2>2, <3>1, <3>2, <3>3 DEF FrameLeaves, clientVars
  <2>3. QED
    BY <2>1, <2>2
<1>13. CASE ReadReady
  <2>1. PICK n \in 1 .. Len(inbox) :
            /\ batch' = SubSeq(inbox, 1, n)
            /\ inbox' = SubSeq(inbox, n + 1, Len(inbox))
    BY <1>13 DEF ReadReady, CopyInbox
  <2>2. Len(inbox) \in Nat /\ \A i \in 1 .. Len(inbox) : inbox[i] \in Replies
    BY LenProperties, ElementOfSeq
  <2>3. batch' \in Seq(Replies)
    BY <2>1, <2>2, SubSeqProperties
  <2>4. inbox' \in Seq(Replies)
    BY <2>1, <2>2, SubSeqProperties
  <2>5. QED
    BY <1>13, <2>3, <2>4 DEF ReadReady, CopyInbox, clientVars
<1>14. CASE Handle
  <2>1. batch' \in Seq(Replies)
    BY <1>14, HeadTailProperties
       DEF Handle, HandleAccepted, HandleRefused, HandleMessage, HandlePingresp,
           HandleThenHangUp, Takes
  <2>2. ASSUME NEW burst \in Bursts, HandleAccepted(burst) PROVE TypeOK'
    BY <2>2, BurstsAssumption, AcceptedTypes
  <2>3. ASSUME NEW r, HandleRefused(r) PROVE TypeOK'
    BY <2>1, <2>3 DEF HandleRefused, socketVars, clientVars
  <2>4. CASE HandleMessage
    <3>1. <<Puback>> \in Seq(Frames)
      BY FrameFacts
    <3>2. QED
      BY <2>1, <2>4, <3>1, SendTypes DEF HandleMessage
  <2>5. CASE HandlePingresp
    BY <2>1, <2>5 DEF HandlePingresp, socketVars
  <2>6. ASSUME NEW r \in Replies, HandleThenHangUp(r) PROVE TypeOK'
    <3>1. (IF r = "MESSAGE" THEN <<Puback>> ELSE <<>>) \in Seq(Frames)
      BY FrameFacts
    <3>2. respTimer' \in BOOLEAN
      BY <2>6 DEF HandleThenHangUp
    <3>3. QED
      BY <2>1, <2>6, <3>1, <3>2, HangUpTypes DEF HandleThenHangUp
  <2>7. QED
    BY <1>14, <2>2, <2>3, <2>4, <2>5, <2>6 DEF Handle
<1>15. CASE Environment
  <2>1. \A r \in Replies : Append(inbox, r) \in Seq(Replies)
    BY AppendProperties
  <2>2. Connacks \subseteq Replies /\ "MESSAGE" \in Replies
    BY DEF Replies
  <2>3. QED
    BY <1>15, <2>1, <2>2 DEF Environment, BrokerAnswers, BrokerPublishes, BrokerFallsSilent,
                             BrokerStates, networkVars, clientVars
<1>16. CASE UNCHANGED vars
  BY <1>16 DEF vars, socketVars, networkVars, clientVars
<1>17. QED
  BY <1>1, <1>2, <1>3, <1>4, <1>5, <1>6, <1>7, <1>8, <1>9, <1>10, <1>11, <1>12, <1>13,
     <1>14, <1>15, <1>16
     DEF Next, Application

\* Every variable stays in its range, whatever the application sends and however
\* long the queues grow: the state tables of client, network and socket are closed
\* under every event (qmqtt_client_p.cpp, qmqtt_network.cpp).
THEOREM TypeCorrect == Spec => []TypeOK
<1>1. Init => TypeOK
  BY EmptySeq DEF Init, SocketInit, NetworkInit, ClientInit, TypeOK, SocketTypeOK,
                  NetworkTypeOK, ClientTypeOK, BrokerStates
<1>2. QED
  BY <1>1, TypeStep, PTL DEF Spec

-----------------------------------------------------------------------------
(* The inductive invariant. *)

\* Nothing of a connection survives it.
CleanSlate ==
    sock \in {"Unconnected", "Connecting"} =>
        /\ wbuf = <<>> /\ inbox = <<>> /\ batch = <<>>
        /\ broker = "idle"
        /\ cstate # "CONNECTED"
        /\ respTimer = FALSE

\* The broker says nothing before it took CONNECT and answered it.
NothingUnasked ==
    broker \in {"idle", "greeted"} =>
        /\ inbox = <<>> /\ batch = <<>>
        /\ cstate # "CONNECTED"
        /\ respTimer = FALSE

\* A CONNACK is the first frame of its connection, it is handled over a socket
\* that is still open, and the session it announces has not begun.
ConnackFirst ==
    /\ \A i \in 1 .. Len(inbox) : inbox[i] \in Connacks =>
          /\ i = 1 /\ batch = <<>>
          /\ cstate # "CONNECTED"
          /\ inbox[i] = "ACCEPTED" => broker \in {"serving", "silent"}
    /\ \A i \in 1 .. Len(batch) : batch[i] \in Connacks =>
          /\ i = 1 /\ sock = "Connected"
          /\ cstate # "CONNECTED"
          /\ batch[i] = "ACCEPTED" => broker \in {"serving", "silent"}

\* The invariant without its types.
ConnectionInv ==
    /\ CleanSlate
    /\ pendingClose => sock = "Connecting"
    /\ NothingUnasked
    /\ ConnackFirst
    /\ SessionHasConnection
    /\ ReconnectTimerOnlyOffline
    /\ WireOrder

IInv == TypeOK /\ ConnectionInv

-----------------------------------------------------------------------------
(* What the parts of events do to it. *)

\* Sending frames, none of them CONNECT and DISCONNECT only as the last, over a
\* socket that is closed with it, keeps the order on the wire.
LEMMA SendKeepsWireOrder ==
    ASSUME IInv, NEW fs \in Seq(Frames), Send(fs), UNCHANGED broker,
           sock' = sock \/ (sock = "Connected" /\ sock' = "Closing"),
           \A i \in 1 .. Len(fs) :
               /\ fs[i] # Connect
               /\ fs[i] = Disconnect /\ sock = "Connected" => i = Len(fs) /\ sock' = "Closing"
    PROVE  WireOrder'
<1>1. wbuf \in Seq(Frames)
  BY DEF IInv, TypeOK, SocketTypeOK
<1>2. CASE sock = "Connected"
  <2>1. wbuf' = wbuf \o fs
    BY <1>2 DEF Send
  <2>2. /\ wbuf' \in Seq(Frames)
        /\ Len(wbuf') = Len(wbuf) + Len(fs)
        /\ \A i \in 1 .. Len(wbuf) : wbuf'[i] = wbuf[i]
        /\ \A i \in Len(wbuf) + 1 .. Len(wbuf') : wbuf'[i] = fs[i - Len(wbuf)]
    BY <1>1, <2>1, ConcatProperties, LenProperties
  <2>3. /\ Len(wbuf) \in Nat /\ Len(fs) \in Nat
        /\ DOMAIN wbuf = 1 .. Len(wbuf) /\ DOMAIN wbuf' = 1 .. Len(wbuf')
    BY <1>1, <2>2, LenProperties
  <2>4. \A i \in 1 .. Len(wbuf) : wbuf[i] # Disconnect
    BY <1>2, <2>3 DEF IInv, ConnectionInv, WireOrder
  <2>5. ASSUME NEW i \in 1 .. Len(wbuf')
        PROVE  /\ wbuf'[i] = Connect => i = 1 /\ broker' \in {"idle", "silent"}
               /\ wbuf'[i] = Disconnect => i = Len(wbuf') /\ sock' = "Closing"
    <3>1. CASE i \in 1 .. Len(wbuf)
      BY <1>2, <2>2, <2>3, <2>4, <3>1 DEF IInv, ConnectionInv, WireOrder
    <3>2. CASE i \in Len(wbuf) + 1 .. Len(wbuf')
      <4>1. i - Len(wbuf) \in 1 .. Len(fs) /\ wbuf'[i] = fs[i - Len(wbuf)]
        BY <2>2, <2>3, <3>2
      <4>2. QED
        BY <1>2, <2>2, <2>3, <4>1, SMTT(30)
    <3>3. QED
      BY <2>2, <2>3, <3>1, <3>2
  <2>6. ASSUME broker' = "idle" PROVE wbuf' # <<>> /\ Head(wbuf') = Connect
    <3>1. wbuf # <<>> /\ Head(wbuf) = Connect
      BY <1>2, <2>6 DEF IInv, ConnectionInv, WireOrder
    <3>2. 1 \in 1 .. Len(wbuf) /\ 1 \in 1 .. Len(wbuf')
      BY <1>1, <2>2, <2>3, <3>1, EmptySeq
    <3>3. wbuf'[1] = wbuf[1] /\ wbuf[1] = Connect
      BY <2>2, <3>1, <3>2
    <3>4. QED
      BY <2>2, <3>2, <3>3
  <2>7. QED
    BY <2>3, <2>5, <2>6 DEF WireOrder
<1>3. CASE sock # "Connected"
  BY <1>3 DEF Send, IInv, ConnectionInv, WireOrder
<1>4. QED
  BY <1>2, <1>3

\* When the connection is dropped, everything that belonged to it is gone.
LEMMA DroppedKeeps ==
    ASSUME Dropped, batch' = <<>>, cstate' # "CONNECTED", respTimer' = FALSE
    PROVE  ConnectionInv'
<1>1. wbuf' = <<>> /\ inbox' = <<>> /\ Len(wbuf') = 0 /\ Len(inbox') = 0 /\ Len(batch') = 0
  BY DEF Dropped
<1>2. WireOrder'
  BY <1>1 DEF Dropped, WireOrder
<1>3. ConnackFirst'
  BY <1>1 DEF ConnackFirst
<1>4. QED
  BY <1>1, <1>2, <1>3
     DEF Dropped, ConnectionInv, CleanSlate, NothingUnasked, SessionHasConnection,
         ReconnectTimerOnlyOffline

\* What is known while a frame of a batch is handled.
LEMMA TakesFacts ==
    ASSUME IInv, NEW r, Takes(r)
    PROVE  /\ sock \in {"Connected", "Closing"}
           /\ broker \notin {"idle", "greeted"}
           /\ r \in Connacks =>
                 /\ sock = "Connected" /\ cstate # "CONNECTED"
                 /\ r = "ACCEPTED" => broker \in {"serving", "silent"}
           /\ batch' \in Seq(Replies)
           /\ \A i \in 1 .. Len(batch') : batch'[i] \notin Connacks
           /\ \A i \in 1 .. Len(inbox) : inbox[i] \notin Connacks
<1>1. batch # <<>> /\ batch \in Seq(Replies) /\ batch' = Tail(batch) /\ r = Head(batch)
  BY DEF Takes, IInv, TypeOK, NetworkTypeOK
<1>2. /\ Len(batch) \in Nat \ {0}
      /\ batch' \in Seq(Replies)
      /\ Len(batch') = Len(batch) - 1
      /\ \A i \in 1 .. Len(batch') : batch'[i] = batch[i + 1]
  BY <1>1, EmptySeq, HeadTailProperties
<1>3. r = batch[1] /\ 1 \in 1 .. Len(batch)
  BY <1>1, <1>2
<1>4. sock \in {"Connected", "Closing"}
  BY <1>1 DEF IInv, TypeOK, SocketTypeOK, ConnectionInv, CleanSlate
<1>5. broker \notin {"idle", "greeted"}
  BY <1>1 DEF IInv, ConnectionInv, NothingUnasked
<1>6. r \in Connacks =>
        /\ sock = "Connected" /\ cstate # "CONNECTED"
        /\ r = "ACCEPTED" => broker \in {"serving", "silent"}
  BY <1>3 DEF IInv, ConnectionInv, ConnackFirst
<1>7. \A i \in 1 .. Len(batch') : batch'[i] \notin Connacks
  <2> TAKE i \in 1 .. Len(batch')
  <2>1. i + 1 \in 1 .. Len(batch) /\ i + 1 # 1 /\ batch'[i] = batch[i + 1]
    BY <1>2
  <2>2. QED
    BY <2>1 DEF IInv, ConnectionInv, ConnackFirst
<1>8. \A i \in 1 .. Len(inbox) : inbox[i] \notin Connacks
  BY <1>1 DEF IInv, ConnectionInv, ConnackFirst
<1>9. QED
  BY <1>2, <1>4, <1>5, <1>6, <1>7, <1>8

\* Hanging up, from the event loop or while a batch is handled.
LEMMA HangUpKeeps ==
    ASSUME IInv, NEW fs \in {<<>>, <<Puback>>}, HangUpAfter(fs),
           respTimer' \in BOOLEAN, respTimer' => respTimer,
           (InEventLoop /\ UNCHANGED batch) \/ (\E r : Takes(r))
    PROVE  ConnectionInv'
<1>1. /\ cstate' = "DISCONNECTED" /\ UNCHANGED <<inbox, broker, arTimer>>
      /\ Send(Append(fs, Disconnect))
      /\ sock' = sock \/ (sock = "Connected" /\ sock' = "Closing")
      /\ sock = "Connected" => sock' = "Closing"
      /\ pendingClose' = (pendingClose \/ sock = "Connecting")
  BY DEF HangUpAfter
<1>2. WireOrder'
  <2>1. /\ Append(fs, Disconnect) \in Seq(Frames)
        /\ \A i \in 1 .. Len(Append(fs, Disconnect)) :
              /\ Append(fs, Disconnect)[i] # Connect
              /\ Append(fs, Disconnect)[i] = Disconnect => i = Len(Append(fs, Disconnect))
    <3>1. fs \in Seq(Frames) /\ \A i \in 1 .. Len(fs) : fs[i] = Puback
      <4>1. Puback \in Frames
        BY FrameFacts
      <4>2. CASE fs = <<>>
        BY <4>2, EmptySeq
      <4>3. CASE fs = <<Puback>>
        BY <4>1, <4>3
      <4>4. QED
        BY <4>2, <4>3
    <3>2. QED
      BY <3>1, FrameFacts, AppendProperties, LenProperties
  <2>2. QED
    BY <1>1, <2>1, SendKeepsWireOrder
<1>3. /\ batch = <<>> => batch' = <<>>
      /\ \A i \in 1 .. Len(batch') : batch'[i] \notin Connacks
      /\ (\E i \in 1 .. Len(inbox) : inbox[i] \in Connacks) => batch' = <<>>
  BY TakesFacts DEF InEventLoop, Takes, IInv, ConnectionInv, ConnackFirst
<1>4. ConnackFirst'
  BY <1>1, <1>3 DEF ConnackFirst, IInv, ConnectionInv
<1>5. CleanSlate'
  <2>1. CASE sock \in {"Unconnected", "Connecting"}
    BY <1>1, <1>3, <2>1 DEF Send, IInv, ConnectionInv, CleanSlate
  <2>2. CASE sock \notin {"Unconnected", "Connecting"}
    BY <1>1, <2>2 DEF CleanSlate
  <2>3. QED
    BY <2>1, <2>2
<1>6. NothingUnasked'
  BY <1>1, <1>3, TakesFacts DEF NothingUnasked, IInv, ConnectionInv
<1>7. QED
  BY <1>1, <1>2, <1>4, <1>5, <1>6
     DEF ConnectionInv, IInv, SessionHasConnection, ReconnectTimerOnlyOffline

-----------------------------------------------------------------------------
(* Every event keeps the invariant. *)

LEMMA ConnectKeeps ==
    ASSUME IInv, InEventLoop, AttemptBegins \/ CloseWaits, cstate' # "CONNECTED",
           UNCHANGED <<batch, respTimer>>, arTimer' => arTimer
    PROVE  ConnectionInv'
<1>1. CASE AttemptBegins
  <2>1. WireOrder'
    BY <1>1 DEF AttemptBegins, IInv, ConnectionInv, CleanSlate, WireOrder
  <2>2. QED
    BY <1>1, <2>1
       DEF AttemptBegins, IInv, ConnectionInv, CleanSlate, NothingUnasked, ConnackFirst,
           SessionHasConnection, ReconnectTimerOnlyOffline
<1>2. CASE CloseWaits
  <2>1. WireOrder'
    BY <1>2 DEF CloseWaits, IInv, ConnectionInv, CleanSlate, WireOrder
  <2>2. ConnackFirst'
    BY <1>2 DEF InEventLoop, CloseWaits, IInv, ConnectionInv, ConnackFirst
  <2>3. QED
    BY <1>2, <2>1, <2>2
       DEF CloseWaits, IInv, ConnectionInv, CleanSlate, NothingUnasked,
           SessionHasConnection, ReconnectTimerOnlyOffline
<1>3. QED
  BY <1>1, <1>2

\* Sending application frames, pings or acknowledgements.
LEMMA SendKeeps ==
    ASSUME IInv, NEW fs \in Seq(Frames), Send(fs),
           \A i \in 1 .. Len(fs) : fs[i] # Connect /\ fs[i] # Disconnect,
           UNCHANGED <<sock, pendingClose, inbox, broker, arTimer, batch, cstate>>,
           respTimer' => respTimer \/ cstate = "CONNECTED",
           respTimer' \in BOOLEAN
    PROVE  ConnectionInv'
<1>1. WireOrder'
  BY SendKeepsWireOrder
<1>2. CleanSlate'
  BY DEF Send, IInv, ConnectionInv, CleanSlate
<1>3. NothingUnasked'
  BY DEF IInv, ConnectionInv, NothingUnasked
<1>4. QED
  BY <1>1, <1>2, <1>3
     DEF IInv, ConnectionInv, ConnackFirst, SessionHasConnection, ReconnectTimerOnlyOffline

LEMMA FrameLeavesKeeps == IInv /\ FrameLeaves => ConnectionInv'
<1> SUFFICES ASSUME IInv, FrameLeaves PROVE ConnectionInv'
  OBVIOUS
<1>1. CASE sock = "Closing" /\ Len(wbuf) = 1
  BY <1>1, DroppedKeeps DEF FrameLeaves, Disconnected, InEventLoop
<1>2. CASE ~(sock = "Closing" /\ Len(wbuf) = 1)
  <2>1. /\ wbuf # <<>> /\ batch = <<>> /\ batch' = <<>>
        /\ wbuf' = Tail(wbuf) /\ BrokerTakes(Head(wbuf))
        /\ UNCHANGED <<sock, pendingClose, arTimer, cstate, keepTimer, respTimer>>
    BY <1>2 DEF FrameLeaves, InEventLoop, clientVars
  <2>2. /\ wbuf \in Seq(Frames) /\ inbox \in Seq(Replies)
        /\ Len(wbuf) \in Nat \ {0}
        /\ sock \in {"Connected", "Closing"}
    BY <2>1, EmptySeq, LenProperties DEF IInv, TypeOK, SocketTypeOK, ConnectionInv, CleanSlate
  <2>3. /\ wbuf' \in Seq(Frames)
        /\ Len(wbuf') = Len(wbuf) - 1
        /\ \A i \in 1 .. Len(wbuf') : wbuf'[i] = wbuf[i + 1]
        /\ Head(wbuf) = wbuf[1]
        /\ DOMAIN wbuf = 1 .. Len(wbuf) /\ DOMAIN wbuf' = 1 .. Len(wbuf')
    BY <2>1, <2>2, HeadTailProperties, LenProperties
  <2>4. CASE broker # "silent" /\ Head(wbuf).type = "CONNECT"
    <3>1. Head(wbuf) = Connect /\ Connect.type # "PINGREQ"
      BY <2>1, <2>2, <2>4, HeadTailProperties, FrameFacts DEF Connect
    <3>2. broker = "idle" /\ \A i \in 2 .. Len(wbuf) : wbuf[i] # Connect
      BY <2>2, <2>3, <2>4, <3>1, SMTT(30) DEF IInv, ConnectionInv, WireOrder
    <3>3. broker' = "greeted" /\ inbox' = <<>> /\ cstate # "CONNECTED" /\ respTimer = FALSE
      BY <2>1, <2>4, <3>1, <3>2 DEF BrokerTakes, IInv, ConnectionInv, NothingUnasked
    <3>4. WireOrder'
      BY <2>1, <2>2, <2>3, <3>2, <3>3 DEF IInv, ConnectionInv, WireOrder
    <3>5. QED
      BY <2>1, <2>2, <3>3, <3>4
         DEF IInv, ConnectionInv, CleanSlate, NothingUnasked, ConnackFirst,
             SessionHasConnection, ReconnectTimerOnlyOffline
  <2>5. CASE ~(broker # "silent" /\ Head(wbuf).type = "CONNECT")
    <3>1. broker' = broker /\ broker # "idle"
      BY <2>1, <2>2, <2>5 DEF BrokerTakes, IInv, ConnectionInv, WireOrder, Connect
    <3>2. WireOrder'
      BY <2>1, <2>2, <2>3, <3>1 DEF IInv, ConnectionInv, WireOrder
    <3>3. CASE inbox' = inbox
      BY <2>1, <2>2, <3>1, <3>2, <3>3
         DEF IInv, ConnectionInv, CleanSlate, NothingUnasked, ConnackFirst,
             SessionHasConnection, ReconnectTimerOnlyOffline
    <3>4. CASE inbox' = Append(inbox, "PINGRESP") /\ broker = "serving"
      <4>1. \A i \in 1 .. Len(inbox') : inbox'[i] \in Connacks => i \in 1 .. Len(inbox) /\ inbox'[i] = inbox[i]
        BY <2>2, <3>4, AppendProperties, LenProperties DEF Connacks, Replies
      <4>2. ConnackFirst'
        BY <2>1, <3>1, <4>1 DEF IInv, ConnectionInv, ConnackFirst
      <4>3. QED
        BY <2>1, <2>2, <3>1, <3>2, <3>4, <4>2
           DEF IInv, ConnectionInv, CleanSlate, NothingUnasked,
               SessionHasConnection, ReconnectTimerOnlyOffline
    <3>5. QED
      BY <2>1, <3>3, <3>4 DEF BrokerTakes
  <2>6. QED
    BY <2>4, <2>5
<1>3. QED
  BY <1>1, <1>2

LEMMA ReadReadyKeeps == IInv /\ ReadReady => ConnectionInv'
<1> SUFFICES ASSUME IInv, ReadReady PROVE ConnectionInv'
  OBVIOUS
<1>1. /\ batch = <<>> /\ sock = "Connected"
      /\ UNCHANGED <<sock, pendingClose, wbuf, broker, arTimer, cstate, respTimer>>
  BY DEF ReadReady, CopyInbox, InEventLoop, clientVars
<1>2. PICK n \in 1 .. Len(inbox) :
          batch' = SubSeq(inbox, 1, n) /\ inbox' = SubSeq(inbox, n + 1, Len(inbox))
  BY DEF ReadReady, CopyInbox
<1>3. inbox \in Seq(Replies) /\ Len(inbox) \in Nat /\ \A i \in 1 .. Len(inbox) : inbox[i] \in Replies
  BY LenProperties, ElementOfSeq DEF IInv, TypeOK, SocketTypeOK
<1>4. /\ Len(batch') = n
      /\ \A i \in 1 .. Len(batch') : batch'[i] = inbox[i] /\ i \in 1 .. Len(inbox)
  BY <1>2, <1>3, SubSeqProperties
<1>5. \A i \in 1 .. Len(inbox') : inbox'[i] = inbox[n + i] /\ n + i \in 2 .. Len(inbox)
  BY <1>2, <1>3, SubSeqProperties
<1>6. ConnackFirst'
  <2>1. \A i \in 1 .. Len(inbox') : inbox'[i] \notin Connacks
    <3> TAKE i \in 1 .. Len(inbox')
    <3>1. inbox'[i] = inbox[n + i] /\ n + i \in 1 .. Len(inbox) /\ n + i # 1
      BY <1>3, <1>5
    <3>2. QED
      BY <3>1 DEF IInv, ConnectionInv, ConnackFirst
  <2>2. \A i \in 1 .. Len(batch') : batch'[i] \in Connacks =>
            /\ i = 1 /\ cstate # "CONNECTED"
            /\ batch'[i] = "ACCEPTED" => broker \in {"serving", "silent"}
    <3> TAKE i \in 1 .. Len(batch')
    <3>1. batch'[i] = inbox[i] /\ i \in 1 .. Len(inbox)
      BY <1>4
    <3>2. QED
      BY <3>1 DEF IInv, ConnectionInv, ConnackFirst
  <2>3. QED
    BY <1>1, <2>1, <2>2 DEF ConnackFirst
<1>7. broker \notin {"idle", "greeted"}
  BY <1>2, <1>3 DEF IInv, ConnectionInv, NothingUnasked
<1>8. QED
  BY <1>1, <1>6, <1>7
     DEF IInv, ConnectionInv, CleanSlate, NothingUnasked, SessionHasConnection,
         ReconnectTimerOnlyOffline, WireOrder

\* Handling a frame whose slots send, but do not hang up.
LEMMA TakesKeeps ==
    ASSUME IInv, NEW r, Takes(r), NEW fs \in Seq(Frames), Send(fs),
           \A i \in 1 .. Len(fs) : fs[i] # Connect /\ fs[i] # Disconnect,
           UNCHANGED <<sock, pendingClose, inbox, broker, arTimer>>,
           cstate' = cstate \/ (cstate' = "CONNECTED" /\ r = "ACCEPTED"),
           respTimer' \in BOOLEAN, respTimer' => respTimer
    PROVE  ConnectionInv'
<1>1. WireOrder'
  BY SendKeepsWireOrder
<1>2. SessionHasConnection'
  BY TakesFacts DEF Connacks, IInv, ConnectionInv, SessionHasConnection
<1>3. ConnackFirst'
  BY TakesFacts DEF ConnackFirst
<1>4. CleanSlate' /\ NothingUnasked'
  BY TakesFacts DEF CleanSlate, NothingUnasked
<1>5. QED
  BY <1>1, <1>2, <1>3, <1>4 DEF IInv, ConnectionInv, ReconnectTimerOnlyOffline

LEMMA AcceptedKeeps ==
    ASSUME IInv, NEW burst \in Seq(AppFrames), HandleAccepted(burst)
    PROVE  IInv'
<1>1. TypeOK'
  BY AcceptedTypes DEF IInv
<1>2. ConnectionInv'
  BY BurstFacts, TakesKeeps DEF HandleAccepted, IInv, TypeOK, ClientTypeOK
<1>3. QED
  BY <1>1, <1>2 DEF IInv

LEMMA HandleKeeps == IInv /\ Handle => ConnectionInv'
<1> SUFFICES ASSUME IInv, Handle PROVE ConnectionInv'
  OBVIOUS
<1>1. ASSUME NEW burst \in Bursts, HandleAccepted(burst) PROVE ConnectionInv'
  BY <1>1, BurstsAssumption, AcceptedKeeps DEF IInv
<1>2. ASSUME NEW r, Takes(r),
             UNCHANGED <<sock, pendingClose, wbuf, inbox, broker, arTimer, cstate>>,
             respTimer' \in BOOLEAN, respTimer' => respTimer
      PROVE  ConnectionInv'
  <2>1. PICK fs \in Seq(Frames) : fs = <<>>
    BY EmptySeq
  <2>2. Send(fs)
    BY <1>2, <2>1, ConcatEmptySeq DEF Send, IInv, TypeOK, SocketTypeOK
  <2>3. \A i \in 1 .. Len(fs) : fs[i] # Connect /\ fs[i] # Disconnect
    BY <2>1
  <2>4. QED
    BY TakesKeeps, <1>2, <2>2, <2>3
<1>3. ASSUME NEW r, HandleRefused(r) PROVE ConnectionInv'
  BY <1>2, <1>3 DEF HandleRefused, socketVars, clientVars, IInv, TypeOK, ClientTypeOK
<1>4. CASE HandleMessage
  <2>1. /\ <<Puback>> \in Seq(Frames)
        /\ \A i \in 1 .. Len(<<Puback>>) : <<Puback>>[i] # Connect /\ <<Puback>>[i] # Disconnect
    BY FrameFacts
  <2>2. QED
    BY TakesKeeps, <1>4, <2>1 DEF HandleMessage, IInv, TypeOK, ClientTypeOK
<1>5. CASE HandlePingresp
  BY <1>2, <1>5 DEF HandlePingresp, socketVars
<1>6. ASSUME NEW r \in Replies, HandleThenHangUp(r) PROVE ConnectionInv'
  <2>1. (IF r = "MESSAGE" THEN <<Puback>> ELSE <<>>) \in {<<>>, <<Puback>>}
    OBVIOUS
  <2>2. respTimer' \in BOOLEAN /\ (respTimer' => respTimer)
    BY <1>6 DEF HandleThenHangUp
  <2>3. QED
    BY <1>6, <2>1, <2>2, HangUpKeeps DEF HandleThenHangUp
<1>7. QED
  BY <1>1, <1>3, <1>4, <1>5, <1>6 DEF Handle

LEMMA EnvironmentKeeps == IInv /\ Environment => ConnectionInv'
<1> SUFFICES ASSUME IInv, Environment PROVE ConnectionInv'
  OBVIOUS
<1>1. /\ batch = <<>> /\ inbox \in Seq(Replies) /\ Len(inbox) \in Nat
      /\ UNCHANGED <<sock, pendingClose, wbuf, batch, arTimer, cstate, respTimer>>
  BY LenProperties
     DEF Environment, BrokerAnswers, BrokerPublishes, BrokerFallsSilent, InEventLoop,
         networkVars, clientVars, IInv, TypeOK, SocketTypeOK
<1>2. ASSUME NEW connack \in Connacks, BrokerAnswers(connack) PROVE ConnectionInv'
  <2>1. /\ inbox = <<>> /\ cstate # "CONNECTED" /\ respTimer = FALSE
        /\ broker = "greeted" /\ sock = "Connected"
        /\ broker' = IF connack = "ACCEPTED" THEN "serving" ELSE "refusing"
        /\ inbox' = <<connack>>
    BY <1>2 DEF BrokerAnswers, IInv, ConnectionInv, NothingUnasked
  <2>2. ConnackFirst'
    BY <1>1, <2>1 DEF ConnackFirst
  <2>3. WireOrder'
    BY <1>1, <2>1 DEF IInv, ConnectionInv, WireOrder
  <2>4. QED
    BY <1>1, <2>1, <2>2, <2>3
       DEF IInv, ConnectionInv, CleanSlate, NothingUnasked, SessionHasConnection,
           ReconnectTimerOnlyOffline
<1>3. CASE BrokerPublishes
  <2>1. /\ broker = "serving" /\ broker' = broker /\ sock = "Connected"
        /\ inbox' = Append(inbox, "MESSAGE")
    BY <1>3 DEF BrokerPublishes
  <2>2. \A i \in 1 .. Len(inbox') : inbox'[i] \in Connacks => i \in 1 .. Len(inbox) /\ inbox'[i] = inbox[i]
    BY <1>1, <2>1, AppendProperties DEF Connacks, Replies
  <2>3. ConnackFirst'
    BY <1>1, <2>1, <2>2 DEF IInv, ConnectionInv, ConnackFirst
  <2>4. QED
    BY <1>1, <2>1, <2>3
       DEF IInv, ConnectionInv, CleanSlate, NothingUnasked, SessionHasConnection,
           ReconnectTimerOnlyOffline, WireOrder
<1>4. CASE BrokerFallsSilent
  BY <1>1, <1>4
     DEF BrokerFallsSilent, IInv, ConnectionInv, CleanSlate, NothingUnasked, ConnackFirst,
         SessionHasConnection, ReconnectTimerOnlyOffline, WireOrder
<1>5. QED
  BY <1>2, <1>3, <1>4 DEF Environment

LEMMA InvInit == Init => IInv
<1> SUFFICES ASSUME Init PROVE IInv
  OBVIOUS
<1>1. TypeOK
  BY EmptySeq DEF Init, SocketInit, NetworkInit, ClientInit, TypeOK, SocketTypeOK,
                  NetworkTypeOK, ClientTypeOK, BrokerStates
<1>2. Len(<<>>) = 0 /\ DOMAIN <<>> = {}
  OBVIOUS
<1>3. QED
  BY <1>1, <1>2
     DEF Init, SocketInit, NetworkInit, ClientInit, IInv, ConnectionInv, CleanSlate,
         NothingUnasked, ConnackFirst, SessionHasConnection, ReconnectTimerOnlyOffline,
         WireOrder

LEMMA InvStep == IInv /\ [Next]_vars => IInv'
<1> SUFFICES ASSUME IInv, [Next]_vars PROVE ConnectionInv'
  BY TypeStep DEF IInv
<1>1. respTimer \in BOOLEAN
  BY DEF IInv, TypeOK, ClientTypeOK
<1>2. CASE ConnectToHost
  <2>1. CASE (AttemptBegins \/ CloseWaits) /\ cstate' = "CONNECTING"
             /\ UNCHANGED <<keepTimer, respTimer, networkVars>>
    BY <1>2, <2>1, ConnectKeeps DEF ConnectToHost, networkVars
  <2>2. CASE CloseAtOnce /\ Disconnected /\ UNCHANGED <<autoReconnect, batch>>
    BY <1>2, <2>2, DroppedKeeps DEF ConnectToHost, InEventLoop, CloseAtOnce, Disconnected
  <2>3. QED
    BY <1>2, <2>1, <2>2 DEF ConnectToHost
<1>3. CASE DisconnectFromHost
  BY <1>1, <1>3, HangUpKeeps DEF DisconnectFromHost, HangUp
<1>4. ASSUME NEW f \in AppFrames, AppSends(f) PROVE ConnectionInv'
  <2>1. /\ <<f>> \in Seq(Frames)
        /\ \A i \in 1 .. Len(<<f>>) : <<f>>[i] # Connect /\ <<f>>[i] # Disconnect
    BY FrameFacts
  <2>2. QED
    BY <1>1, <1>4, <2>1, SendKeeps DEF AppSends, networkVars
<1>5. CASE SetAutoReconnect
  BY <1>5
     DEF SetAutoReconnect, socketVars, clientVars, IInv, ConnectionInv, CleanSlate,
         NothingUnasked, ConnackFirst, SessionHasConnection, ReconnectTimerOnlyOffline,
         WireOrder
<1>6. CASE Replace
  BY <1>6, DroppedKeeps DEF Replace, InEventLoop
<1>7. CASE KeepAliveFires
  <2>1. CASE cstate = "CONNECTED" /\ Send(<<Pingreq>>)
    <3>1. /\ <<Pingreq>> \in Seq(Frames)
          /\ \A i \in 1 .. Len(<<Pingreq>>) : <<Pingreq>>[i] # Connect /\ <<Pingreq>>[i] # Disconnect
      BY FrameFacts
    <3>2. respTimer' \in BOOLEAN
      BY <1>1, <1>7 DEF KeepAliveFires
    <3>3. QED
      BY <1>7, <2>1, <3>1, <3>2, SendKeeps DEF KeepAliveFires, networkVars
  <2>2. CASE UNCHANGED <<wbuf, respTimer>>
    BY <1>7, <2>2
       DEF KeepAliveFires, networkVars, IInv, ConnectionInv, CleanSlate, NothingUnasked,
           ConnackFirst, SessionHasConnection, ReconnectTimerOnlyOffline, WireOrder
  <2>3. QED
    BY <1>7, <2>1, <2>2 DEF KeepAliveFires
<1>8. CASE PingTimeout
  BY <1>8, HangUpKeeps DEF PingTimeout, HangUp
<1>9. CASE AutoReconnectFires
  <2>1. cstate # "CONNECTED"
    BY <1>9 DEF AutoReconnectFires, IInv, ConnectionInv, ReconnectTimerOnlyOffline, CleanSlate
  <2>2. QED
    BY <1>9, <2>1, ConnectKeeps DEF AutoReconnectFires, clientVars
<1>10. CASE SocketConnects
  <2>1. /\ wbuf = <<>> /\ inbox = <<>> /\ batch = <<>> /\ broker = "idle"
        /\ cstate # "CONNECTED" /\ respTimer = FALSE
    BY <1>10 DEF SocketConnects, ConnectionOpens, IInv, ConnectionInv, CleanSlate
  <2>2. /\ wbuf' = <<Connect>> /\ sock' \in {"Connected", "Closing"} /\ arTimer' = FALSE
        /\ pendingClose' = FALSE
        /\ UNCHANGED <<inbox, batch, broker, cstate, respTimer>>
    BY <1>10, <2>1 DEF SocketConnects, ConnectionOpens
  <2>3. WireOrder'
    BY <2>1, <2>2, FrameFacts DEF WireOrder
  <2>4. QED
    BY <2>1, <2>2, <2>3
       DEF ConnectionInv, CleanSlate, NothingUnasked, ConnackFirst,
           SessionHasConnection, ReconnectTimerOnlyOffline
<1>11. ASSUME NEW hangUp \in BOOLEAN, AttemptFails(hangUp) PROVE ConnectionInv'
  <2>1. batch = <<>> /\ cstate # "CONNECTED" /\ respTimer = FALSE
    BY <1>11 DEF AttemptFails, IInv, ConnectionInv, CleanSlate
  <2>2. QED
    BY <1>11, <2>1, DroppedKeeps DEF AttemptFails, networkVars
<1>12. CASE ConnectionLost
  BY <1>12, DroppedKeeps DEF ConnectionLost, Disconnected, InEventLoop
<1>13. CASE UNCHANGED vars
  BY <1>13
     DEF vars, socketVars, networkVars, clientVars, IInv, ConnectionInv, CleanSlate,
         NothingUnasked, ConnackFirst, SessionHasConnection, ReconnectTimerOnlyOffline,
         WireOrder
<1>14. QED
  BY <1>2, <1>3, <1>4, <1>5, <1>6, <1>7, <1>8, <1>9, <1>10, <1>11, <1>12, <1>13,
     FrameLeavesKeeps, ReadReadyKeeps, HandleKeeps, EnvironmentKeeps
     DEF Next, Application

LEMMA Invariance == Spec => []IInv
BY InvInit, InvStep, PTL DEF Spec

-----------------------------------------------------------------------------
(* Safety. *)

\* isConnectedToHost() is true only over an open socket whose broker accepted the
\* client: no stale or repeated CONNACK, and no refused connectToHost(), makes it
\* true of anything else (handleConnack(), onNetworkDisconnected()).
THEOREM SessionSafe == Spec => []SessionHasConnection
<1>1. IInv => SessionHasConnection
  BY DEF IInv, ConnectionInv
<1>2. QED
  BY <1>1, Invariance, PTL

\* The ping-response timer never outlives the connection that sent the ping, so
\* onPingTimeout() cannot close the next one (stopKeepAlive()).
THEOREM PingTimeoutSafe == Spec => []PingTimeoutStrikesItsConnection
<1>1. IInv => PingTimeoutStrikesItsConnection
  BY DEF IInv, TypeOK, SocketTypeOK, ConnectionInv, CleanSlate, NothingUnasked,
         PingTimeoutStrikesItsConnection
<1>2. QED
  BY <1>1, Invariance, PTL

\* The auto-reconnect timer is stopped when a connection opens and armed only when
\* one is gone: its connectToHost() never ends an established connection
\* (Network::onConnected(), Network::onDisconnected()).
THEOREM ReconnectTimerSafe == Spec => []ReconnectTimerOnlyOffline
<1>1. IInv => ReconnectTimerOnlyOffline
  BY DEF IInv, ConnectionInv
<1>2. QED
  BY <1>1, Invariance, PTL

\* CONNECT is the first frame of every connection and DISCONNECT the last
\* (sendConnect(), disconnectFromHost(), Network::sendFrame()).
THEOREM WireOrderSafe == Spec => []WireOrder
<1>1. IInv => WireOrder
  BY DEF IInv, ConnectionInv
<1>2. QED
  BY <1>1, Invariance, PTL

-----------------------------------------------------------------------------
(* Refinement. *)

LEMMA InitRefines == Init => LinkLife!Init
BY DEF Init, SocketInit, LinkLife!Init, phase

LEMMA PhaseChange ==
    ASSUME sock' = sock, cstate = "CONNECTED" <=> cstate' = "CONNECTED"
    PROVE  phase' = phase
BY DEF phase

\* Every event is a step of Link or leaves the phase alone.
LEMMA StepRefines == IInv /\ [Next]_vars => [LinkLife!Next]_phase
<1> SUFFICES ASSUME IInv, [Next]_vars PROVE [LinkLife!Next]_phase
  OBVIOUS
<1> USE DEF LinkLife!Next, LinkLife!Open, LinkLife!Accepted, LinkLife!HangUp, LinkLife!Gone
<1>1. sock \in {"Unconnected", "Connecting", "Connected", "Closing"}
  BY DEF IInv, TypeOK, SocketTypeOK
<1>2. ASSUME sock' = "Unconnected" PROVE [LinkLife!Next]_phase
  BY <1>1, <1>2 DEF phase
<1>3. ASSUME sock' = "Closing", sock \in {"Connected", "Closing"} PROVE [LinkLife!Next]_phase
  BY <1>3 DEF phase
<1>4. ASSUME sock \in {"Unconnected", "Connecting"}, sock' \in {"Unconnected", "Connecting"}
      PROVE  [LinkLife!Next]_phase
  BY <1>4 DEF phase
<1>5. ASSUME NEW fs, HangUpAfter(fs) PROVE [LinkLife!Next]_phase
  BY <1>1, <1>3, <1>4, <1>5 DEF HangUpAfter
<1>6. ASSUME AttemptBegins \/ CloseWaits PROVE [LinkLife!Next]_phase
  BY <1>3, <1>4, <1>6 DEF AttemptBegins, CloseWaits
<1>7. CASE ConnectToHost
  BY <1>2, <1>6, <1>7 DEF ConnectToHost, CloseAtOnce, Dropped
<1>8. CASE DisconnectFromHost \/ PingTimeout
  BY <1>5, <1>8 DEF DisconnectFromHost, PingTimeout, HangUp
<1>9. CASE AutoReconnectFires
  BY <1>6, <1>9 DEF AutoReconnectFires
<1>10. CASE Replace \/ ConnectionLost \/ (\E hangUp \in BOOLEAN : AttemptFails(hangUp))
  BY <1>2, <1>10 DEF Replace, ConnectionLost, AttemptFails, Dropped
<1>11. CASE SocketConnects
  <2>1. sock = "Connecting" /\ cstate' # "CONNECTED" /\ sock' \in {"Connected", "Closing"}
    BY <1>11 DEF SocketConnects, ConnectionOpens, IInv, ConnectionInv, CleanSlate
  <2>2. QED
    BY <2>1 DEF phase
<1>12. CASE FrameLeaves
  BY <1>2, <1>12, PhaseChange DEF FrameLeaves, Dropped, clientVars
<1>13. ASSUME NEW burst \in Bursts, HandleAccepted(burst) PROVE [LinkLife!Next]_phase
  <2>1. Takes("ACCEPTED") /\ cstate' = "CONNECTED" /\ sock' = sock
    BY <1>13 DEF HandleAccepted
  <2>2. sock = "Connected" /\ cstate # "CONNECTED"
    BY <2>1, TakesFacts DEF Connacks
  <2>3. QED
    BY <2>1, <2>2 DEF phase
<1>14. ASSUME NEW r, HandleThenHangUp(r) PROVE [LinkLife!Next]_phase
  BY <1>5, <1>14 DEF HandleThenHangUp
<1>15. ASSUME NEW r, HandleRefused(r) PROVE [LinkLife!Next]_phase
  BY <1>15, PhaseChange DEF HandleRefused, socketVars, clientVars
<1>16. CASE Handle
  BY <1>13, <1>14, <1>15, <1>16, PhaseChange
     DEF Handle, HandleMessage, HandlePingresp, socketVars
<1>17. CASE SetAutoReconnect \/ KeepAliveFires \/ ReadReady \/ Environment
  BY <1>17, PhaseChange
     DEF SetAutoReconnect, KeepAliveFires, ReadReady, Environment, BrokerAnswers,
         BrokerPublishes, BrokerFallsSilent, CopyInbox, socketVars, networkVars, clientVars
<1>18. ASSUME NEW f \in AppFrames, AppSends(f) PROVE [LinkLife!Next]_phase
  BY <1>18, PhaseChange DEF AppSends
<1>19. CASE UNCHANGED vars
  BY <1>19, PhaseChange DEF vars, socketVars, clientVars
<1>20. QED
  BY <1>7, <1>8, <1>9, <1>10, <1>11, <1>12, <1>16, <1>17, <1>18, <1>19
     DEF Next, Application

\* The client implements Link: connected() is emitted at most once per connection,
\* after it opened, and never after the client hung up.
THEOREM ClientImplementsLink == Spec => ImplementsLink
BY InitRefines, StepRefines, Invariance, PTL DEF Spec, ImplementsLink, LinkLife!Spec
=============================================================================
