------------------------------ MODULE MCParts ------------------------------
(***************************************************************************)
(* The instances that TLC checks of Router, Message, Connect,              *)
(* ConnectionParams, Endpoint and Tls.  These share no variable, and no    *)
(* property relates two of them, so a behaviour of all six violates one    *)
(* only if a behaviour of one of them does: each behaviour here is of one  *)
(* part, and the others stay at one of their initial states.  (Connect's   *)
(* settings are those of ConnectionParams' client: part "settings" calls   *)
(* the setters one by one, part "params" as the demo does.)                *)
(***************************************************************************)
EXTENDS Router, Message, ConnectionParams, Endpoint, Tls

VARIABLE part

Parts == {"routes", "shapes", "messages", "settings", "params", "endpoint", "tls"}

-----------------------------------------------------------------------------
(* Router: two routes with the same filter; and one route of many shapes, one *)
(* that matches inside longer topics, one for #, one without a name, one with *)
(* a dot.                                                                     *)

MCNames == {":p", ":q"}
MCValueSymbols == {"a", "b"}
MCSameFilter == {<<"a", "/", "+", ":p">>, <<"a", "/", "+", ":q">>, <<"b">>}
MCShapes ==
    {<<"a", "/", "+", ":p">>, <<"+", ":p", "/", "b">>, <<"+", ":p", "/", "#", ":q">>,
     <<"b", "/", "+", ":p", "/", "+", ":q">>, <<"a", "/", "+">>, <<"a", ".", "b">>}
MCRoutes == MCSameFilter \cup MCShapes
MCFewTopics == {<<"b">>}
MCShapesTopics ==
    {<<"a">>, <<"b">>, <<"/">>, <<"a", "/", "b">>, <<"a", "a", "/", "b">>, <<"a", "/", "a">>,
     <<"b", "/", "a", "/", "b">>, <<"b", "/", "a", "b", "/", "a">>, <<"a", "/", ".", "b">>,
     <<"a", ".", "b">>, <<"a", "a", "b">>}
MCTopics == MCFewTopics \cup MCShapesTopics
MCOwnFilters == {<<"#">>}

\* The bounds of the two.
OfShapes ==
    /\ routes = <<>> \/ routes' = routes
    /\ connected => connected'
    /\ \A s \in Range(routes') : s.id = 1 /\ s.route \in MCShapes
    /\ clean' /\ Len(toBroker') <= 1 /\ Len(toClient') <= 1
    /\ \A topic \in Range(toClient') : topic \in MCShapesTopics

OfRoutes ==
    /\ \A s \in Range(routes') : s.route \in MCSameFilter
    /\ \A topic \in Range(toClient') : topic \in MCFewTopics
    /\ \A p \in Range(toBroker') : p.filter \notin MCOwnFilters

-----------------------------------------------------------------------------
(* Message: three messages, setters for two of the fields, a QoS that does not *)
(* fit its bits.                                                               *)

MCArgs == [f \in Fields |-> CASE f = "qos" -> {5} [] f = "dup" -> {TRUE} [] OTHER -> {}]
MCGiven == {[id |-> 7, qos |-> 6, retain |-> TRUE, dup |-> FALSE, topic |-> "t",
             payload |-> "p"]}

-----------------------------------------------------------------------------
(* Connect: every setting empty or not, a QoS of the will that does not fit,   *)
(* and the ends of the keep-alive interval.                                    *)

T(s) == [text |-> s, spaces |-> FALSE]
Padded(s) == [text |-> s, spaces |-> TRUE]

MCEmpty == T("")
MCGenerated == T("uuid")

MCValues ==
    [f \in SettingNames |->
        CASE f = "version" -> {3, 4}
          [] f = "keepAlive" -> {0, 65535}
          [] f = "willQos" -> {0, 1, 2, 4}
          [] f \in {"cleanSession", "willRetain"} -> BOOLEAN
          [] OTHER -> {MCEmpty, T(f)}]

-----------------------------------------------------------------------------
(* ConnectionParams: forms that differ from a plain one in one field, or in two *)
(* that are read together.                                                      *)

MCUnfitHosts == {T("a b")}
MCMoreTopics == {T("inbox")}

PlainForm ==
    [host |-> T("host"), port |-> 1883, type |-> "tcp", clientId |-> T("id"),
     username |-> T(""), password |-> T(""), keepAlive |-> 30, cleanSession |-> TRUE,
     sslCaCertPath |-> T(""), ignoreSelfSigned |-> FALSE,
     willTopic |-> T(""), willMessage |-> T(""), willQos |-> 0, willRetain |-> FALSE,
     autoSubscribeTopic |-> T("inbox"), autoSubscribeQos |-> 1]

Entries ==
    [host |-> {Padded("host"), Padded(""), T("a b")}, port |-> {0}, type |-> {"ws", "wss"},
     clientId |-> {Padded("id"), Padded("")}, username |-> {T("user"), Padded("")},
     password |-> {T("word")}, keepAlive |-> {-1, 0, 65535, 65536}, cleanSession |-> {FALSE},
     sslCaCertPath |-> {Padded("ca"), Padded("")}, ignoreSelfSigned |-> {TRUE},
     willTopic |-> {T("will")}, willMessage |-> {T("gone")}, willQos |-> {-1, 2, 3},
     willRetain |-> {TRUE}, autoSubscribeTopic |-> {T("")}, autoSubscribeQos |-> {3}]

With(p, f) == {[p EXCEPT ![f] = v] : v \in Entries[f]}
WithBoth(f, g) == UNION {With(p, g) : p \in With(PlainForm, f)}
MCForms ==
    UNION {With(PlainForm, f) : f \in DOMAIN Entries} \cup {PlainForm}
    \cup WithBoth("type", "host") \cup WithBoth("type", "sslCaCertPath")
    \cup WithBoth("username", "password")
    \cup WithBoth("willTopic", "willQos") \cup WithBoth("willTopic", "willRetain")

ProxyForm(type, host, port, user, word) ==
    [type |-> type, host |-> host, port |-> port, username |-> user, password |-> T(word)]
MCProxyForms ==
    {ProxyForm("None", T("proxy"), 8080, T("user"), "word"),
     ProxyForm("Http", T("proxy"), 8080, T("user"), "word"),
     ProxyForm("Socks5", Padded("proxy"), 1080, Padded(""), "other"),
     ProxyForm("Http", Padded(""), 8080, T("user"), "word"),
     ProxyForm("Socks5", T("proxy"), 0, T("user"), "word")}

-----------------------------------------------------------------------------
(* Tls. *)

MCKinds == {"ssl", "legacy", "wss"}
MCSelfSigned == {"SelfSignedCertificate", "SelfSignedCertificateInChain"}
MCOtherErrors == {"HostNameMismatch"}

-----------------------------------------------------------------------------
formVars == <<mgrClient, subscriptions, reconnect, formAsked, touched, proxy, proxyAsked, answered>>
partsVars == <<part, routerVars, messageVars, settings, formVars, endpointVars, tlsVars>>

PartsInit ==
    /\ part \in Parts
    /\ RouterInit /\ MessageInit /\ ParamsInit /\ EndpointInit /\ TlsInit
    /\ part = "endpoint" \/ own.hostName = NoName
    /\ part = "tls" \/ (kind = "ssl" /\ ~ignoreSelfSigned)

PartsNext ==
    /\ UNCHANGED part
    /\ \/ /\ \/ part = "routes" /\ RouterNext /\ OfRoutes
             \/ part = "shapes" /\ RouterNext /\ OfShapes
          /\ UNCHANGED <<messageVars, settings, formVars, endpointVars, tlsVars>>
       \/ /\ part = "messages" /\ MessageNext
          /\ UNCHANGED <<routerVars, settings, formVars, endpointVars, tlsVars>>
       \/ /\ part = "settings" /\ ConnectNext
          /\ UNCHANGED <<routerVars, messageVars, formVars, endpointVars, tlsVars>>
       \/ /\ part = "params" /\ ParamsNext
          /\ UNCHANGED <<routerVars, messageVars, endpointVars, tlsVars>>
       \/ /\ part = "endpoint" /\ EndpointNext
          /\ UNCHANGED <<routerVars, messageVars, settings, formVars, tlsVars>>
       \/ /\ part = "tls" /\ TlsNext
          /\ UNCHANGED <<routerVars, messageVars, settings, formVars, endpointVars>>

PartsSpec == PartsInit /\ [][PartsNext]_partsVars

\* The type invariants of the parts, and with Message's that the counts are exact.
PartsTypeOK ==
    /\ RouterTypeOK
    /\ MessageTypeOK /\ CountsAreExact
    /\ IF part = "settings" THEN ConnectTypeOK ELSE ParamsTypeOK
    /\ EndpointTypeOK
    /\ TlsTypeOK
=============================================================================
