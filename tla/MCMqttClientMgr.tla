-------------------------- MODULE MCMqttClientMgr --------------------------
(* The instances of MqttClientMgr that TLC checks. *)
EXTENDS MqttClientMgr

MCTopicOrder == <<"inbox">>
MCTwoTopics == <<"inbox", "news">>
MCQos == {"0", "1"}
MCOneQos == {"1"}
MCAppFrames ==
    {SubscribeFrame(t, q) : t \in Topics, q \in Qos}
        \cup {UnsubscribeFrame(t) : t \in Topics} \cup {PublishFrame}
MCNoBursts == {<<>>}
MCAttemptErrors == {"temporary", "permanent"}
MCTemporaryErrors == {"temporary"}
=============================================================================
