-------------------------- MODULE ConnectionParams --------------------------
(***************************************************************************)
(* The demo's requests to connect and to use a proxy: how MqttClientMgr    *)
(* checks the parameters of connectToHost(), makes a client of them and    *)
(* configures it, and how MqttProxyManager checks and sets the application *)
(* proxy.  Module Connect has the client's settings and the CONNECT they   *)
(* make; here they belong to the current client of the manager.  What      *)
(* becomes of the connection is module MqttClientMgr's.                    *)
(*                                                                         *)
(* A text is what it is without the white space around it, and whether     *)
(* there is such white space.                                              *)
(***************************************************************************)
EXTENDS Connect

CONSTANTS
    Forms,          \* the MqttConnectionParams connectToHost() is called with
    ProxyForms,     \* the MqttProxyParams applyProxy() is called with
    UnfitHosts,     \* texts of hosts that QUrl does not take
    MoreTopics,     \* topics subscribed or unsubscribed after connecting
    NoClient, NoProxy, NotAsked     \* there is none

\* A mistake of the user, or none of them.
Answers == {"none", "accepted", "paramsInvalid", "caCertificateLoadFailed", "proxyInvalid"}

ASSUME ParamsAssumption ==
    /\ Empty = [text |-> "", spaces |-> FALSE]
    /\ \A p \in Forms :
          /\ p.keepAlive \in Int /\ p.willQos \in Int /\ p.autoSubscribeQos \in Int
          /\ p.cleanSession \in BOOLEAN /\ p.willRetain \in BOOLEAN
          /\ p.ignoreSelfSigned \in BOOLEAN
    /\ NotAsked \notin Forms \cup ProxyForms

VARIABLES
    mgrClient,      \* m_client: its kind and server, whether it ignores self-signed
                    \* certificates, and the CA certificates added
    subscriptions,  \* m_subscriptions
    reconnect,      \* m_manualDisconnect, m_reconnectAllowed and whether m_reconnectTimer
                    \* runs
    proxy,          \* QNetworkProxy::applicationProxy()
    answered,       \* how the last step's request was answered, if it was one
    formAsked,      \* history: the last accepted parameters of connectToHost()
    touched,        \* history: the topics the user subscribed or unsubscribed since
    proxyAsked      \* history: those of applyProxy()

mgrVars == <<settings, mgrClient, subscriptions, reconnect, formAsked, touched>>
paramsVars == <<mgrVars, proxy, proxyAsked, answered>>

\* QString::trimmed() and isEmpty().
Trimmed(t) == [t EXCEPT !.spaces = FALSE]
IsBlank(t) == Trimmed(t) = Empty

NoReconnect == [manual |-> FALSE, allowed |-> FALSE, timer |-> FALSE]

ParamsInit ==
    /\ ConnectInit
    /\ mgrClient = NoClient
    /\ subscriptions = {}
    /\ reconnect = NoReconnect
    /\ proxy = NoProxy
    /\ answered = "none" /\ formAsked = NotAsked /\ proxyAsked = NotAsked
    /\ touched = {}

-----------------------------------------------------------------------------
(* connectToHost(params). *)

WebSocketKinds == {"ws", "wss"}

\* webSocketUrl() is not empty.
HasWebSocketUrl(p) == Trimmed(p.host) \notin UnfitHosts

IsConnectionParamsValid(p) ==
    /\ ~IsBlank(p.host) /\ p.port > 0 /\ ~IsBlank(p.clientId)
    /\ p.keepAlive \in Seconds
    /\ p.willQos \in 0 .. 2 /\ p.autoSubscribeQos \in 0 .. 2
    /\ p.type \in WebSocketKinds => HasWebSocketUrl(p)

\* Is a CA certificate named that is to be loaded?
NamesCa(p) == p.type = "wss" /\ ~IsBlank(p.sslCaCertPath)

\* createClient(), and of applyClientConfig() the certificates: the file is read a
\* second time, and what cannot be read then is left out.
CreateClient(p, loads) ==
    [kind |-> p.type, host |-> Trimmed(p.host), port |-> p.port,
     ignoreSelfSigned |-> p.type = "wss" /\ p.ignoreSelfSigned,
     caCertificates |-> IF NamesCa(p) /\ loads THEN {Trimmed(p.sslCaCertPath)} ELSE {}]

ASSUME NoClientAssumption == \A p \in Forms, loads \in BOOLEAN : CreateClient(p, loads) # NoClient

\* The setters of applyClientConfig(), in their order, over settings s.
ConfiguredOver(s, p) ==
    LET named  == [s EXCEPT !.version = 4, !.clientId = Stored("clientId", Trimmed(p.clientId))]
        user   == IF p.username = Empty THEN named
                  ELSE [named EXCEPT !.username = p.username, !.password = p.password]
        timed  == [user EXCEPT !.keepAlive = Stored("keepAlive", p.keepAlive % 2 ^ 16),
                               !.cleanSession = p.cleanSession]
    IN  IF p.willTopic = Empty THEN timed
        ELSE [timed EXCEPT !.willTopic = p.willTopic, !.willMessage = p.willMessage,
                           !.willQos = p.willQos % 2 ^ 8, !.willRetain = p.willRetain]

\* Mutation: the client of the last connection is configured again.
ApplyClientConfigAgain(p) == ConfiguredOver(settings, p)

\* applyClientConfig() on the new client.
ApplyClientConfig(p) == ConfiguredOver(Defaults, p)

\* Mutation: the reconnect state is reset before the parameters are looked at.
MgrConnectToHostResetsFirst(p, loads, loadsAgain) ==
    /\ reconnect' = [manual |-> FALSE, allowed |-> TRUE, timer |-> FALSE]
    /\ IF (NamesCa(p) /\ ~loads) \/ ~IsConnectionParamsValid(p)
       THEN /\ answered' = "paramsInvalid"
            /\ UNCHANGED <<settings, mgrClient, subscriptions, formAsked, touched>>
       ELSE /\ answered' = "accepted"
            /\ formAsked' = p /\ touched' = {}
            /\ subscriptions' = {p.autoSubscribeTopic} \ {Empty}
            /\ mgrClient' = CreateClient(p, loadsAgain)
            /\ settings' = ApplyClientConfig(p)
    /\ UNCHANGED <<proxy, proxyAsked>>

\* The file of the certificates is looked at before all else; loads and loadsAgain
\* are what the two readings of it find.
MgrConnectToHost(p, loads, loadsAgain) ==
    /\ \/ /\ NamesCa(p) /\ ~loads
          /\ answered' = "caCertificateLoadFailed"
          /\ UNCHANGED mgrVars
       \/ /\ NamesCa(p) => loads
          /\ ~IsConnectionParamsValid(p)
          /\ answered' = "paramsInvalid"
          /\ UNCHANGED mgrVars
       \/ /\ NamesCa(p) => loads
          /\ IsConnectionParamsValid(p)
          /\ answered' = "accepted"
          /\ formAsked' = p /\ touched' = {}
          /\ reconnect' = [manual |-> FALSE, allowed |-> TRUE, timer |-> FALSE]
          /\ subscriptions' = {p.autoSubscribeTopic} \ {Empty}
          /\ mgrClient' = CreateClient(p, loadsAgain)
          /\ settings' = ApplyClientConfig(p)
    /\ UNCHANGED <<proxy, proxyAsked>>

-----------------------------------------------------------------------------
(* applyProxy(params). *)

\* Mutation: the host is taken as it was typed, and the password without its user.
ProxyAsTyped(q) ==
    [type |-> q.type, host |-> q.host, port |-> q.port,
     user |-> Trimmed(q.username), password |-> q.password]

\* The QNetworkProxy made of the parameters.
Proxy(q) ==
    [type |-> q.type, host |-> Trimmed(q.host), port |-> q.port,
     user |-> Trimmed(q.username),
     password |-> IF IsBlank(q.username) THEN Empty ELSE q.password]

ASSUME NoProxyAssumption == \A q \in ProxyForms : Proxy(q) # NoProxy

ApplyProxy(q) ==
    /\ \/ /\ q.type = "None"
          /\ proxy' = NoProxy /\ proxyAsked' = q /\ answered' = "accepted"
       \/ /\ q.type \in {"Http", "Socks5"} /\ ~IsBlank(q.host) /\ q.port > 0
          /\ proxy' = Proxy(q) /\ proxyAsked' = q /\ answered' = "accepted"
       \/ /\ q.type # "None"
          /\ ~(q.type \in {"Http", "Socks5"} /\ ~IsBlank(q.host) /\ q.port > 0)
          /\ answered' = "proxyInvalid"
          /\ UNCHANGED <<proxy, proxyAsked>>
    /\ UNCHANGED mgrVars

-----------------------------------------------------------------------------
(* What else changes this state between two requests: see MqttClientMgr. *)

Subscribe(t) ==
    /\ mgrClient # NoClient
    /\ subscriptions' = subscriptions \cup {t} /\ touched' = touched \cup {t}
    /\ answered' = "none"
    /\ UNCHANGED <<settings, mgrClient, reconnect, formAsked, proxy, proxyAsked>>

Unsubscribe(t) ==
    /\ mgrClient # NoClient
    /\ subscriptions' = subscriptions \ {t} /\ touched' = touched \cup {t}
    /\ answered' = "none"
    /\ UNCHANGED <<settings, mgrClient, reconnect, formAsked, proxy, proxyAsked>>

ConnectionLost ==
    /\ mgrClient # NoClient /\ reconnect.allowed /\ ~reconnect.manual
    /\ reconnect' = [reconnect EXCEPT !.timer = TRUE]
    /\ answered' = "none"
    /\ UNCHANGED <<settings, mgrClient, subscriptions, formAsked, touched, proxy, proxyAsked>>

MgrDisconnectFromHost ==
    /\ reconnect' = [manual |-> TRUE, allowed |-> FALSE, timer |-> FALSE]
    /\ answered' = "none"
    /\ UNCHANGED <<settings, mgrClient, subscriptions, formAsked, touched, proxy, proxyAsked>>

Request ==
    \/ \E p \in Forms, loads, loadsAgain \in BOOLEAN : MgrConnectToHost(p, loads, loadsAgain)
    \/ \E q \in ProxyForms : ApplyProxy(q)

ParamsNext ==
    \/ Request
    \/ \E t \in MoreTopics : Subscribe(t) \/ Unsubscribe(t)
    \/ ConnectionLost \/ MgrDisconnectFromHost

ParamsSpec == ParamsInit /\ [][ParamsNext]_paramsVars

-----------------------------------------------------------------------------
(* Properties. *)

\* Every variable stays in its range, and a client is there if one was asked for.
ParamsTypeOK ==
    /\ DOMAIN settings = SettingNames
    /\ settings.willQos \in 0 .. 2
    /\ settings.keepAlive
          \in {k * Millisecond : k \in {300} \cup ({p.keepAlive : p \in Forms} \cap Seconds)}
    /\ mgrClient = NoClient <=> formAsked = NotAsked
    /\ proxy = NoProxy \/ (proxy.port > 0 /\ proxy.host # Empty)
    /\ answered \in Answers
    /\ reconnect \in [manual : BOOLEAN, allowed : BOOLEAN, timer : BOOLEAN]
    /\ reconnect.timer => reconnect.allowed /\ ~reconnect.manual

\* A request that is refused, for whichever of its parameters, leaves everything
\* as it was: the client and its subscriptions, a pending reconnect, the proxy.
RefusedChangesNothing ==
    [][answered' \notin {"none", "accepted"}
          => UNCHANGED <<mgrVars, proxy, proxyAsked>>]_paramsVars

\* What the form's user means to tell the broker; a password without a user name
\* is none, a will without a topic neither.
FormMeans(p) ==
    [version |-> 4, clientId |-> Trimmed(p.clientId), cleanSession |-> p.cleanSession,
     keepAlive |-> p.keepAlive,
     will |-> IF p.willTopic = Empty THEN NoWill
              ELSE [topic |-> p.willTopic, message |-> p.willMessage, qos |-> p.willQos,
                    retain |-> p.willRetain],
     username |-> p.username,
     password |-> IF p.username = Empty THEN Empty ELSE p.password]

\* CONNECT says to the broker exactly what the form says that was accepted last,
\* with nothing left of an earlier one and no number that lost its high bits.
ConnectSaysForm ==
    mgrClient # NoClient =>
        LET packet == SendConnect(settings)
        IN  WellFormed(packet) /\ Read(packet) = FormMeans(formAsked)

\* The client is of the form's kind and dials its server, and trusts no certificate
\* for an earlier form.
ClientSaysForm ==
    mgrClient # NoClient =>
        /\ mgrClient.kind = formAsked.type
        /\ mgrClient.host = Trimmed(formAsked.host) /\ mgrClient.port = formAsked.port
        /\ mgrClient.ignoreSelfSigned <=> formAsked.type = "wss" /\ formAsked.ignoreSelfSigned
        /\ mgrClient.caCertificates \subseteq {Trimmed(formAsked.sslCaCertPath)} \ {Empty}
        /\ mgrClient.caCertificates # {} => formAsked.type = "wss"

\* Of the topics that the user has not touched since, the manager will subscribe the
\* form's own and none of an earlier form.
SubscriptionsSayForm ==
    mgrClient # NoClient =>
        subscriptions \ touched = ({formAsked.autoSubscribeTopic} \ {Empty}) \ touched

\* The application proxy is that of the last accepted proxy form, or none if that
\* asked for none, and it has no user or password of another.
ProxySaysForm ==
    IF proxyAsked = NotAsked \/ proxyAsked.type = "None" THEN proxy = NoProxy
    ELSE /\ proxy # NoProxy
         /\ proxy.type = proxyAsked.type
         /\ proxy.host = Trimmed(proxyAsked.host) /\ proxy.port = proxyAsked.port
         /\ proxy.user = Trimmed(proxyAsked.username)
         /\ proxy.password = IF proxy.user = Empty THEN Empty ELSE proxyAsked.password

\* What was accepted last is in force: the manager's client, with its server, trust and
\* settings, the topics it will subscribe, and the application proxy.
AcceptedIsInForce ==
    ConnectSaysForm /\ ClientSaysForm /\ SubscriptionsSayForm /\ ProxySaysForm
=============================================================================
