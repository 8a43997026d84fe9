--------------------------- MODULE MqttClientMgr ---------------------------
(***************************************************************************)
(* The demo's connection manager (mqttclientmgr.cpp, mqttreconnectpolicy   *)
(* .cpp) over one QMQTT::Client on TCP: it replaces the library's          *)
(* fixed-interval auto-reconnect by an exponential back-off, gives up on   *)
(* errors the user has to repair, and restores the subscriptions after a   *)
(* reconnect.                                                              *)
(*                                                                         *)
(* The manager is a slot of the client's signals, so an action here is an  *)
(* action of Client joined with what the manager's slots do in it.  The    *)
(* broker's half of the session is kept beside it: what the broker holds   *)
(* subscribed, which is what restoring is for.                             *)
(***************************************************************************)
EXTENDS Client, FiniteSets

CONSTANTS
    TopicOrder,        \* the topics, in the key order of QMap<QString, quint8>
    Qos,               \* the QoS levels subscribe() is called with, as names
    AttemptErrors      \* how an attempt may fail: "temporary", "permanent"

VARIABLES
    reconnectTimer,    \* is m_reconnectTimer running?
    delay,             \* MqttReconnectPolicy::m_currentDelayMs, in seconds
    manualDisconnect,  \* m_manualDisconnect
    reconnectAllowed,  \* m_reconnectAllowed
    hasClient,         \* m_client # nullptr
    subs,              \* m_subscriptions
    cleanSession,      \* params.cleanSession of the current client
    brokerSubs,        \* what the broker holds subscribed for this client id
    wanted,            \* history: connect was the user's last word, and no
                       \* error has told him to repair something since
    tries              \* history: retries scheduled since the last success

policyVars == <<reconnectTimer, delay, tries>>
userVars == <<manualDisconnect, hasClient, cleanSession>>
mgrVars == <<policyVars, userVars, reconnectAllowed, subs, brokerSubs, wanted>>
allVars == <<vars, mgrVars>>

InitialReconnectDelay == 5
MaximumReconnectDelay == 60

\* tries stops here: the delay no longer changes.
MaxTries == 5

Topics == {TopicOrder[i] : i \in DOMAIN TopicOrder}
None == "none"

SubscribeFrame(t, q) == [type |-> "SUBSCRIBE", topic |-> t, qos |-> q]
UnsubscribeFrame(t) == [type |-> "UNSUBSCRIBE", topic |-> t]
PublishFrame == [type |-> "PUBLISH"]

ASSUME MgrAssumption ==
    /\ TopicOrder \in Seq(Topics)
    /\ \A i, j \in DOMAIN TopicOrder : TopicOrder[i] = TopicOrder[j] => i = j
    /\ None \notin Qos
    /\ AttemptErrors \subseteq {"temporary", "permanent"}
    /\ AppFrames = {SubscribeFrame(t, q) : t \in Topics, q \in Qos}
                       \cup {UnsubscribeFrame(t) : t \in Topics} \cup {PublishFrame}

Subscriptions == [Topics -> Qos \cup {None}]
NoSubscriptions == [t \in Topics |-> None]

\* Every variable of the manager stays in its range.
MgrTypeOK ==
    /\ TypeOK
    /\ reconnectTimer \in BOOLEAN
    /\ delay \in InitialReconnectDelay .. MaximumReconnectDelay
    /\ manualDisconnect \in BOOLEAN
    /\ reconnectAllowed \in BOOLEAN
    /\ hasClient \in BOOLEAN
    /\ subs \in Subscriptions
    /\ cleanSession \in BOOLEAN
    /\ brokerSubs \in Subscriptions
    /\ wanted \in BOOLEAN
    /\ tries \in 0 .. MaxTries

MgrInit ==
    /\ Init
    /\ reconnectTimer = FALSE
    /\ delay = InitialReconnectDelay
    /\ manualDisconnect = FALSE
    /\ reconnectAllowed = FALSE
    /\ hasClient = FALSE
    /\ subs = NoSubscriptions
    /\ cleanSession = TRUE
    /\ brokerSubs = NoSubscriptions
    /\ wanted = FALSE
    /\ tries = 0

-----------------------------------------------------------------------------
(* Parts of events. *)

\* Mutation: advance() without its upper bound.
AdvanceUncapped(d) == 2 * d

\* MqttReconnectPolicy::advance(), in seconds.
Advance(d) ==
    IF d < MaximumReconnectDelay
    THEN IF 2 * d > MaximumReconnectDelay THEN MaximumReconnectDelay ELSE 2 * d
    ELSE d

\* Mutation: scheduleReconnect() without its early return.
ScheduleReconnectAlways ==
    /\ reconnectTimer' = TRUE
    /\ delay' = Advance(delay)
    /\ tries' = IF tries < MaxTries THEN tries + 1 ELSE tries

\* Mutation: scheduleReconnect() tests isActive() the wrong way round.
ScheduleReconnectInverted ==
    \/ /\ hasClient /\ ~manualDisconnect /\ reconnectAllowed /\ reconnectTimer
       /\ reconnectTimer' = TRUE
       /\ delay' = Advance(delay)
       /\ tries' = IF tries < MaxTries THEN tries + 1 ELSE tries
    \/ /\ ~(hasClient /\ ~manualDisconnect /\ reconnectAllowed /\ reconnectTimer)
       /\ UNCHANGED policyVars

\* scheduleReconnect(), at the end of the client's disconnected() signal.
ScheduleReconnect ==
    \/ /\ hasClient /\ ~manualDisconnect /\ reconnectAllowed /\ ~reconnectTimer
       /\ reconnectTimer' = TRUE
       /\ delay' = Advance(delay)
       /\ tries' = IF tries < MaxTries THEN tries + 1 ELSE tries
    \/ /\ ~(hasClient /\ ~manualDisconnect /\ reconnectAllowed /\ ~reconnectTimer)
       /\ UNCHANGED policyVars

\* Slots of an event that may or may not have ended the connection.
OnDisconnected ==
    IF sock # "Unconnected" /\ sock' = "Unconnected"
    THEN ScheduleReconnect
    ELSE UNCHANGED policyVars

\* error() with one of the codes of isPermanentConnectionError(): the client's
\* disconnectFromHost() runs in the slot, see where this is used.
GiveUp ==
    /\ reconnectAllowed' = FALSE
    /\ reconnectTimer' = FALSE
    /\ UNCHANGED <<delay, tries>>

\* isConnected()
IsConnected == hasClient /\ cstate = "CONNECTED"

\* The keys of m_subscriptions, as their places in key order; and the n-th of them.
StoredKeys == {i \in DOMAIN TopicOrder : subs[TopicOrder[i]] # None}
StoredKey(n) ==
    TopicOrder[CHOOSE i \in StoredKeys : Cardinality({j \in StoredKeys : j <= i}) = n]

\* Mutation: restoreSubscriptions() starts one past the first key.
RestoreFramesSkipsFirst ==
    [n \in 1 .. Cardinality(StoredKeys) - 1 |-> SubscribeFrame(StoredKey(n + 1), subs[StoredKey(n + 1)])]

\* restoreSubscriptions(): one SUBSCRIBE per stored topic, in key order.
RestoreFrames ==
    [n \in 1 .. Cardinality(StoredKeys) |-> SubscribeFrame(StoredKey(n), subs[StoredKey(n)])]

\* What the broker holds after it took f.
BrokerApplies(f, held) ==
    CASE f.type = "SUBSCRIBE"   -> [held EXCEPT ![f.topic] = f.qos]
      [] f.type = "UNSUBSCRIBE" -> [held EXCEPT ![f.topic] = None]
      [] f.type = "CONNECT" /\ cleanSession -> NoSubscriptions
      [] OTHER -> held

-----------------------------------------------------------------------------
(* Calls of the user. *)

\* connectToHost(params), with parameters that pass validation: the reconnect
\* state is reset, the old client is dropped with its signals disconnected (no
\* disconnected() is forwarded), the subscriptions are those of params.
MgrConnectToHost(auto, clean) ==
    /\ InEventLoop
    /\ sock' = "Connecting"
    /\ pendingClose' = FALSE
    /\ wbuf' = <<>> /\ inbox' = <<>> /\ broker' = "idle"
    /\ autoReconnect' = FALSE /\ arTimer' = FALSE
    /\ cstate' = "CONNECTING"
    /\ keepTimer' = FALSE /\ respTimer' = FALSE
    /\ reconnectTimer' = FALSE
    /\ delay' = InitialReconnectDelay
    /\ tries' = 0
    /\ manualDisconnect' = FALSE
    /\ reconnectAllowed' = TRUE
    /\ hasClient' = TRUE
    /\ subs' = auto
    /\ cleanSession' = clean
    /\ wanted' = TRUE
    /\ UNCHANGED <<batch, brokerSubs>>

\* Mutation: disconnectFromHost() leaves the reconnect flags as they are.
MgrDisconnectOnlyHangsUp ==
    /\ wanted' = FALSE
    /\ IF hasClient THEN DisconnectFromHost ELSE UNCHANGED vars
    /\ UNCHANGED <<policyVars, userVars, reconnectAllowed, subs, brokerSubs>>

\* disconnectFromHost()
MgrDisconnectFromHost ==
    /\ manualDisconnect' = TRUE
    /\ reconnectAllowed' = FALSE
    /\ reconnectTimer' = FALSE
    /\ wanted' = FALSE
    /\ IF hasClient THEN DisconnectFromHost ELSE UNCHANGED vars
    /\ UNCHANGED <<delay, tries, hasClient, cleanSession, subs, brokerSubs>>

Subscribe(t, q) ==
    /\ IsConnected
    /\ subs' = [subs EXCEPT ![t] = q]
    /\ AppSends(SubscribeFrame(t, q))
    /\ UNCHANGED <<policyVars, userVars, reconnectAllowed, brokerSubs, wanted>>

Unsubscribe(t) ==
    /\ IsConnected
    /\ subs' = [subs EXCEPT ![t] = None]
    /\ AppSends(UnsubscribeFrame(t))
    /\ UNCHANGED <<policyVars, userVars, reconnectAllowed, brokerSubs, wanted>>

Publish ==
    /\ IsConnected
    /\ AppSends(PublishFrame)
    /\ UNCHANGED mgrVars

-----------------------------------------------------------------------------
(* Events of the client, with the manager's slots. *)

\* Mutation: slot_reconnect() asks for a connected client.
ReconnectFiresInverted ==
    /\ InEventLoop
    /\ reconnectTimer
    /\ reconnectTimer' = FALSE
    /\ IF hasClient /\ ~manualDisconnect /\ reconnectAllowed /\ cstate = "CONNECTED"
       THEN ConnectToHost
       ELSE UNCHANGED vars
    /\ UNCHANGED <<delay, tries, userVars, reconnectAllowed, subs, brokerSubs, wanted>>

\* slot_reconnect(), when the single-shot timer fires.
ReconnectFires ==
    /\ InEventLoop
    /\ reconnectTimer
    /\ reconnectTimer' = FALSE
    /\ IF hasClient /\ ~manualDisconnect /\ reconnectAllowed /\ cstate # "CONNECTED"
       THEN ConnectToHost
       ELSE UNCHANGED vars
    /\ UNCHANGED <<delay, tries, userVars, reconnectAllowed, subs, brokerSubs, wanted>>

\* Mutation: the connected() slot does not reset the policy.
MgrAcceptedKeepsDelay ==
    /\ HandleAccepted(RestoreFrames)
    /\ reconnectTimer' = FALSE
    /\ tries' = 0
    /\ UNCHANGED <<delay, userVars, reconnectAllowed, subs, brokerSubs, wanted>>

\* CONNACK 0: the connected() slot stops the timer, resets the policy and
\* restores the subscriptions.
MgrAccepted ==
    /\ HandleAccepted(RestoreFrames)
    /\ reconnectTimer' = FALSE
    /\ delay' = InitialReconnectDelay
    /\ tries' = 0
    /\ UNCHANGED <<userVars, reconnectAllowed, subs, brokerSubs, wanted>>

\* CONNACK with a code the user has to repair.
MgrRejected ==
    /\ HandleThenHangUp("REJECTED")
    /\ GiveUp
    /\ wanted' = FALSE
    /\ UNCHANGED <<userVars, subs, brokerSubs>>

\* The attempt fails: an ordinary error changes nothing, the proxy's demand for
\* credentials ends the reconnecting.
MgrAttemptFails ==
    /\ \/ /\ "temporary" \in AttemptErrors
          /\ AttemptFails(FALSE)
          /\ UNCHANGED <<policyVars, reconnectAllowed, wanted>>
       \/ /\ "permanent" \in AttemptErrors
          /\ AttemptFails(TRUE)
          /\ GiveUp
          /\ wanted' = FALSE
    /\ UNCHANGED <<userVars, subs, brokerSubs>>

\* The connection is lost, or its last frame is out: disconnected().
MgrConnectionLost ==
    /\ ConnectionLost
    /\ OnDisconnected
    /\ UNCHANGED <<userVars, reconnectAllowed, subs, brokerSubs, wanted>>

MgrFrameLeaves ==
    /\ FrameLeaves
    /\ OnDisconnected
    /\ brokerSubs' = IF broker = "silent" THEN brokerSubs
                     ELSE BrokerApplies(Head(wbuf), brokerSubs)
    /\ UNCHANGED <<userVars, reconnectAllowed, subs, wanted>>

\* The events whose signals the manager only passes on.
ForwardedOnly ==
    /\ \/ KeepAliveFires
       \/ PingTimeout
       \/ SocketConnects
       \/ ReadReady
       \/ HandleRefused("UNAVAILABLE")
       \/ HandleMessage
       \/ HandlePingresp
       \/ Environment
    /\ UNCHANGED mgrVars

-----------------------------------------------------------------------------
User ==
    \/ \E auto \in Subscriptions, clean \in BOOLEAN :
          /\ \A t1, t2 \in Topics : auto[t1] # None /\ auto[t2] # None => t1 = t2
          /\ MgrConnectToHost(auto, clean)
    \/ MgrDisconnectFromHost
    \/ \E t \in Topics, q \in Qos : Subscribe(t, q)
    \/ \E t \in Topics : Unsubscribe(t)
    \/ Publish

MgrNext ==
    \/ User
    \/ ReconnectFires
    \/ MgrAccepted
    \/ MgrRejected
    \/ MgrAttemptFails
    \/ MgrConnectionLost
    \/ MgrFrameLeaves
    \/ ForwardedOnly

MgrSpec == MgrInit /\ [][MgrNext]_allVars

\* The event loop runs what is due: the reconnect timer and the two keep-alive
\* timers fire, attempts end, written frames leave, arrived frames are read and
\* handled.  Of the world: a broker that took a CONNECT answers it, and TCP gives
\* a silent path up.
MgrFairSpec ==
    /\ MgrSpec
    /\ WF_allVars(ReconnectFires)
    /\ WF_allVars((SocketConnects /\ UNCHANGED mgrVars) \/ MgrAttemptFails)
    /\ WF_allVars(MgrFrameLeaves)
    /\ WF_allVars(ReadReady /\ UNCHANGED mgrVars)
    /\ WF_allVars(MgrAccepted \/ MgrRejected \/ (ForwardedOnly /\ batch # <<>>))
    /\ WF_allVars(ForwardedOnly /\ broker = "greeted" /\ broker' \in {"serving", "refusing"})
    /\ WF_allVars(broker \in {"silent", "refusing"} /\ MgrConnectionLost)

-----------------------------------------------------------------------------
(* Safety. *)

\* The reconnect timer runs only between connections, for a client the user still
\* wants: when it fires, connectToHost() always finds an idle socket, and is never
\* the refused call that would close the connection of a client that came back.
ReconnectTimerOnlyWhenWanted ==
    reconnectTimer =>
        /\ hasClient /\ wanted /\ reconnectAllowed /\ ~manualDisconnect
        /\ sock = "Unconnected" /\ cstate = "DISCONNECTED"

\* No attempt begins that the user does not want: not after disconnectFromHost(),
\* whatever was under way then, and not after an error he has to repair.
NoUnwantedReconnect ==
    [][sock = "Unconnected" /\ sock' = "Connecting" => wanted']_allVars

\* The delays of successive retries are those of migration-validation-review
\* .md:90, 5, 10, 20, 40 and 60 seconds, and start again after every success and
\* every connect of the user, through any sequence of losses.
BackoffFollowsTheTable ==
    delay = <<5, 10, 20, 40, 60, 60>>[tries + 1]

\* The frames in the write buffer that concern topic t.
About(t) == {i \in DOMAIN wbuf :
                wbuf[i].type \in {"SUBSCRIBE", "UNSUBSCRIBE"} /\ wbuf[i].topic = t}

\* What the broker will hold for t once the write buffer is out.
Eventual(t) ==
    IF About(t) = {} THEN brokerSubs[t]
    ELSE LET last == CHOOSE i \in About(t) : \A j \in About(t) : j <= i
         IN  IF wbuf[last].type = "SUBSCRIBE" THEN wbuf[last].qos ELSE None

\* In a session the broker holds, or is about to hold, every subscription the
\* manager has, at its QoS; in a clean session it holds no other.
SubscriptionsReachBroker ==
    IsConnected /\ broker = "serving" =>
        \A t \in Topics :
            subs[t] # None \/ cleanSession => Eventual(t) = subs[t]

-----------------------------------------------------------------------------
(* Liveness. *)

\* A client the user wants is never left offline: another attempt begins (or he
\* changes his mind, or is told to repair something).
AnotherAttemptFollows ==
    (wanted /\ sock = "Unconnected") ~> (sock = "Connecting" \/ ~wanted)

\* The table of migration-validation-review.md:90 is one of consecutive failures:
\* a retry that fails is followed by the next.
RetriesContinue ==
    (wanted /\ tries > 0 /\ sock = "Unconnected") ~> (sock = "Connecting" \/ ~wanted)

\* From some point on the path holds, the broker accepts, and the user lets be.
CalmAtLast ==
    <>[][/\ ~User
         /\ ~MgrConnectionLost
         /\ broker' # "silent"
         /\ broker' # "refusing"]_allVars

\* Then the client is connected for good, unless it was told to stop.
ConnectedAtLast == CalmAtLast => <>[](IsConnected \/ ~wanted)
=============================================================================
