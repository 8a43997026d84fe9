-------------------------- MODULE MCMqttClientWgt --------------------------
(* The instance of MqttClientWgt that TLC checks. *)
EXTENDS MqttClientWgt

MCAccounts == {"", "ann", "a/b"}
MCUnfit == {"a/b"}
MCOneInbox == <<InboxTopic("ann")>>
MCKeepAlives == {DesignedKeepAlive, -1}
MCOneQos == {"1"}
MCAppFrames ==
    {SubscribeFrame(t, q) : t \in Topics, q \in Qos}
        \cup {UnsubscribeFrame(t) : t \in Topics} \cup {PublishFrame}
MCNoBursts == {<<>>}
MCPermanentErrors == {"permanent"}
=============================================================================
