------------------------------ MODULE Session ------------------------------
(***************************************************************************)
(* Packet identifiers and acknowledgements: nextmid(), the two hashes      *)
(* _midToMessage and _midToTopic, and the QoS 1 and QoS 2 exchanges in     *)
(* both directions (qmqtt_client_p.cpp), over connections that come and    *)
(* go and against a broker that repeats what was not acknowledged.         *)
(*                                                                         *)
(* A connection is up from the moment the broker took CONNECT; module      *)
(* Client shows that CONNECT is first on every connection, and that what   *)
(* an earlier one left behind never reaches the next.  DISCONNECT is a     *)
(* loss that the client asked for: the packets before it may still arrive, *)
(* the answers are not read.  The client's identifiers and the broker's    *)
(* are two spaces; a broker's message stands for its identifier.           *)
(***************************************************************************)
EXTENDS Integers, Sequences

CONSTANTS
    Messages,       \* what the application publishes, each once, with id 0
    Qos,            \* the QoS of each of them
    Topics,         \* what it subscribes to and unsubscribes from
    Inbound,        \* what the broker publishes to it, each once
    InQos,          \* the QoS of each of them
    CleanSessions,  \* the values setCleanSession() is called with
    MaxId,          \* largest packet identifier, 65535 for a quint16
    None

ASSUME SessionAssumption ==
    /\ Qos \in [Messages -> 0 .. 2]
    /\ InQos \in [Inbound -> 0 .. 2]
    /\ CleanSessions \subseteq BOOLEAN
    /\ MaxId \in Nat \ {0}
    /\ None \notin Messages \cup Topics

VARIABLES
    up,             \* is there a connection whose CONNECT the broker took?
    toBroker,       \* packets on their way to the broker, in order
    toClient,       \* packets on their way to the client, in order
    gmid,           \* ClientPrivate::_gmid
    midToMessage,   \* ClientPrivate::_midToMessage
    midToTopic,     \* ClientPrivate::_midToTopic
    issued,         \* history: the messages publish() was called with
    published,      \* history: the messages published() was emitted for
    received,       \* history: how often received() was emitted for each
    taken,          \* history: how often the broker took each message
    held,           \* broker: identifiers of QoS 2 that await PUBREL
    stage,          \* broker: how far each of its own messages is
    queued          \* broker: those whose next packet is still to be sent

appVars == <<issued, published, received>>
clientVars == <<gmid, midToMessage, midToTopic>>
brokerVars == <<taken, held, stage, queued>>
vars == <<up, toBroker, toClient, clientVars, appVars, brokerVars>>

Ids == 1 .. MaxId

\* A packet; about is the message or the topic of the exchange it belongs to.
\* Only PUBLISH, SUBSCRIBE and UNSUBSCRIBE really carry it: in the others it is
\* history, which no action reads.
Packet(type, id, about) == [type |-> type, id |-> id, about |-> about]

\* A packet of an exchange of the broker's.
Own == 0
BrokerPacket(type, i) == Packet(type, Own, i)

ToBroker ==
    [type : {"PUBLISH", "PUBREL", "SUBSCRIBE", "UNSUBSCRIBE"}, id : Ids \cup {Own},
     about : Messages \cup Topics]
        \cup [type : {"PUBACK", "PUBREC", "PUBCOMP"}, id : {Own}, about : Inbound]

ToClient ==
    [type : {"PUBACK", "PUBREC", "PUBCOMP", "SUBACK", "UNSUBACK"}, id : Ids,
     about : Messages \cup Topics]
        \cup [type : {"PUBLISH", "PUBREL"}, id : {Own}, about : Inbound]

\* Every variable stays in its range.
TypeOK ==
    /\ up \in BOOLEAN
    /\ toBroker \in Seq(ToBroker)
    /\ toClient \in Seq(ToClient)
    /\ gmid \in Ids
    /\ midToMessage \in [Ids -> Messages \cup {None}]
    /\ midToTopic \in [Ids -> Topics \cup {None}]
    /\ issued \subseteq Messages
    /\ published \subseteq Messages \cup {None}
    /\ received \in [Inbound -> 0 .. 2]
    /\ taken \in [Messages -> 0 .. 2]
    /\ held \subseteq Ids
    /\ stage \in [Inbound -> {"new", "sent", "released", "done"}]
    /\ queued \subseteq Inbound

NoMessages == [id \in Ids |-> None]
NoTopics == [id \in Ids |-> None]

Init ==
    /\ up = FALSE
    /\ toBroker = <<>>
    /\ toClient = <<>>
    /\ gmid = 1
    /\ midToMessage = NoMessages
    /\ midToTopic = NoTopics
    /\ issued = {}
    /\ published = {}
    /\ received = [i \in Inbound |-> 0]
    /\ taken = [m \in Messages |-> 0]
    /\ held = {}
    /\ stage = [i \in Inbound |-> "new"]
    /\ queued = {}

-----------------------------------------------------------------------------
(* Parts of events. *)

\* Histories count to two: once, and more than once.
CountUp(n) == IF n < 2 THEN n + 1 ELSE n

\* sendFrame(): dropped without a connection.
Send(p) == toBroker' = IF up THEN Append(toBroker, p) ELSE toBroker

\* Mutation: nextmid() does not step over zero.
NextMidWithZero == (gmid + 1) % (MaxId + 1)

\* What nextmid() leaves in _gmid: the next identifier, wrapping past zero.
NextMid == IF gmid = MaxId THEN 1 ELSE gmid + 1

\* nextmid() does not look whether an identifier is still in use.  Bound: the
\* application never has so many exchanges open that it meets one that is.
IdFree == midToMessage[gmid] = None /\ midToTopic[gmid] = None

-----------------------------------------------------------------------------
(* Calls of the application. *)

\* publish() with QoS 0: no identifier, and published() at once.
PublishQos0(m) ==
    /\ m \notin issued /\ Qos[m] = 0
    /\ issued' = issued \cup {m}
    /\ published' = published \cup {m}
    /\ Send(Packet("PUBLISH", Own, m))
    /\ UNCHANGED <<up, toClient, clientVars, received, brokerVars>>

\* Mutation: publish() does not advance the identifier.
PublishSameId(m) ==
    /\ m \notin issued /\ Qos[m] > 0
    /\ issued' = issued \cup {m}
    /\ Send(Packet("PUBLISH", gmid, m))
    /\ midToMessage' = [midToMessage EXCEPT ![gmid] = m]
    /\ UNCHANGED <<up, toClient, gmid, midToTopic, published, received, brokerVars>>

\* Mutation: publish() emits published() at QoS 1 as at QoS 0.
PublishTellsAtOnce(m) ==
    /\ m \notin issued /\ Qos[m] > 0
    /\ IdFree
    /\ issued' = issued \cup {m}
    /\ Send(Packet("PUBLISH", gmid, m))
    /\ gmid' = NextMid
    /\ midToMessage' = [midToMessage EXCEPT ![gmid] = m]
    /\ published' = IF Qos[m] = 1 THEN published \cup {m} ELSE published
    /\ UNCHANGED <<up, toClient, midToTopic, received, brokerVars>>

\* publish() with QoS 1 or 2: the identifier is taken and the message recorded
\* whether or not the packet is sent.
Publish(m) ==
    /\ m \notin issued /\ Qos[m] > 0
    /\ IdFree
    /\ issued' = issued \cup {m}
    /\ Send(Packet("PUBLISH", gmid, m))
    /\ gmid' = NextMid
    /\ midToMessage' = [midToMessage EXCEPT ![gmid] = m]
    /\ UNCHANGED <<up, toClient, midToTopic, published, received, brokerVars>>

\* subscribe() and unsubscribe().
Request(type, t) ==
    /\ IdFree
    /\ Send(Packet(type, gmid, t))
    /\ gmid' = NextMid
    /\ midToTopic' = [midToTopic EXCEPT ![gmid] = t]
    /\ UNCHANGED <<up, toClient, midToMessage, appVars, brokerVars>>

-----------------------------------------------------------------------------
(* Connections. *)

\* A connection opens.  A clean session discards what the broker kept of the
\* last one; otherwise the broker sends again what was not acknowledged.
Connect(clean) ==
    /\ ~up
    /\ up' = TRUE
    /\ IF clean
       THEN /\ held' = {}
            /\ stage' = [i \in Inbound |-> IF stage[i] = "new" THEN "new" ELSE "done"]
            /\ queued' = {}
       ELSE /\ queued' = {i \in Inbound : stage[i] \in {"sent", "released"}}
            /\ UNCHANGED <<held, stage>>
    /\ UNCHANGED <<toBroker, toClient, clientVars, appVars, taken>>

\* onNetworkDisconnected(): both hashes are emptied, the identifiers go on.
Lose ==
    /\ up
    /\ up' = FALSE
    /\ toBroker' = <<>> /\ toClient' = <<>>
    /\ midToMessage' = NoMessages
    /\ midToTopic' = NoTopics
    /\ UNCHANGED <<gmid, appVars, brokerVars>>

\* The application deletes the client and constructs another one with the same
\* client id.
Replace ==
    /\ up' = FALSE
    /\ toBroker' = <<>> /\ toClient' = <<>>
    /\ gmid' = 1
    /\ midToMessage' = NoMessages
    /\ midToTopic' = NoTopics
    /\ UNCHANGED <<appVars, brokerVars>>

-----------------------------------------------------------------------------
(* The broker. *)

\* It takes a PUBLISH: always at QoS 0 and 1, at QoS 2 unless it holds the
\* identifier already.
BrokerTakesPublish ==
    /\ toBroker # <<>>
    /\ LET p == Head(toBroker)
           repeated == Qos[p.about] = 2 /\ p.id \in held
       IN  /\ p.type = "PUBLISH"
           /\ taken' = IF repeated THEN taken
                       ELSE [taken EXCEPT ![p.about] = CountUp(@)]
           /\ held' = IF Qos[p.about] = 2 THEN held \cup {p.id} ELSE held
           /\ \/ Qos[p.about] = 0 /\ UNCHANGED toClient
              \/ Qos[p.about] = 1
                    /\ toClient' = Append(toClient, Packet("PUBACK", p.id, p.about))
              \/ Qos[p.about] = 2
                    /\ toClient' = Append(toClient, Packet("PUBREC", p.id, p.about))
    /\ toBroker' = Tail(toBroker)
    /\ UNCHANGED <<up, clientVars, appVars, stage, queued>>

BrokerTakesPubrel ==
    /\ toBroker # <<>>
    /\ LET p == Head(toBroker)
       IN  /\ p.type = "PUBREL"
           /\ held' = held \ {p.id}
           /\ toClient' = Append(toClient, Packet("PUBCOMP", p.id, p.about))
    /\ toBroker' = Tail(toBroker)
    /\ UNCHANGED <<up, clientVars, appVars, taken, stage, queued>>

BrokerTakesRequest ==
    /\ toBroker # <<>>
    /\ LET p == Head(toBroker)
       IN  \/ /\ p.type = "SUBSCRIBE"
              /\ toClient' = Append(toClient, Packet("SUBACK", p.id, p.about))
           \/ /\ p.type = "UNSUBSCRIBE"
              /\ toClient' = Append(toClient, Packet("UNSUBACK", p.id, p.about))
    /\ toBroker' = Tail(toBroker)
    /\ UNCHANGED <<up, clientVars, appVars, brokerVars>>

\* The client's answers in an exchange of the broker's.
BrokerTakesAnswer ==
    /\ toBroker # <<>>
    /\ LET p == Head(toBroker)
       IN  \/ /\ p.type \in {"PUBACK", "PUBCOMP"}
              /\ stage' = [stage EXCEPT ![p.about] = "done"]
              /\ queued' = queued \ {p.about}
           \/ /\ p.type = "PUBREC"
              /\ stage' = [stage EXCEPT ![p.about] = "released"]
              /\ queued' = queued \cup {p.about}
    /\ toBroker' = Tail(toBroker)
    /\ UNCHANGED <<up, toClient, clientVars, appVars, taken, held>>

\* A message for the client comes in at the broker.
BrokerAccepts(i) ==
    /\ up
    /\ stage[i] = "new"
    /\ stage' = [stage EXCEPT ![i] = "sent"]
    /\ queued' = queued \cup {i}
    /\ UNCHANGED <<up, toBroker, toClient, clientVars, appVars, taken, held>>

\* The broker sends the PUBLISH or PUBREL that is due, again after a reconnect.
BrokerSends(i) ==
    /\ up
    /\ i \in queued
    /\ queued' = queued \ {i}
    /\ toClient' = Append(toClient,
                          BrokerPacket(IF stage[i] = "sent" THEN "PUBLISH" ELSE "PUBREL", i))
    /\ stage' = IF stage[i] = "sent" /\ InQos[i] = 0 THEN [stage EXCEPT ![i] = "done"] ELSE stage
    /\ UNCHANGED <<up, toBroker, clientVars, appVars, taken, held>>

-----------------------------------------------------------------------------
(* Packets the client takes: onNetworkReceived(). *)

\* PUBACK and PUBCOMP: published() for the message the identifier stands for,
\* which leaves the hash.  (An empty message, None, if there is no such.)
HandlePubackPubcomp ==
    /\ toClient # <<>>
    /\ LET p == Head(toClient)
       IN  /\ p.type \in {"PUBACK", "PUBCOMP"}
           /\ published' = published \cup {midToMessage[p.id]}
           /\ midToMessage' = [midToMessage EXCEPT ![p.id] = None]
    /\ toClient' = Tail(toClient)
    /\ UNCHANGED <<up, toBroker, gmid, midToTopic, issued, received, brokerVars>>

\* Mutation: the message leaves the hash with PUBREC.
HandlePubrecTakes ==
    /\ toClient # <<>>
    /\ LET p == Head(toClient)
       IN  /\ p.type = "PUBREC"
           /\ Send(Packet("PUBREL", p.id, p.about))
           /\ midToMessage' = [midToMessage EXCEPT ![p.id] = None]
    /\ toClient' = Tail(toClient)
    /\ UNCHANGED <<up, gmid, midToTopic, appVars, brokerVars>>

\* PUBREC: PUBREL.
HandlePubrec ==
    /\ toClient # <<>>
    /\ LET p == Head(toClient)
       IN  /\ p.type = "PUBREC"
           /\ Send(Packet("PUBREL", p.id, p.about))
    /\ toClient' = Tail(toClient)
    /\ UNCHANGED <<up, clientVars, appVars, brokerVars>>

\* SUBACK and UNSUBACK: subscribed() or unsubscribed(), for the topic that
\* leaves the hash.
HandleSubackUnsuback ==
    /\ toClient # <<>>
    /\ LET p == Head(toClient)
       IN  /\ p.type \in {"SUBACK", "UNSUBACK"}
           /\ midToTopic' = [midToTopic EXCEPT ![p.id] = None]
    /\ toClient' = Tail(toClient)
    /\ UNCHANGED <<up, toBroker, gmid, midToMessage, appVars, brokerVars>>

\* PUBLISH: PUBACK or PUBREC, and received() at once; the identifier of a QoS 2
\* message is not remembered.
HandlePublish ==
    /\ toClient # <<>>
    /\ LET p == Head(toClient)
       IN  /\ p.type = "PUBLISH"
           /\ received' = [received EXCEPT ![p.about] = CountUp(@)]
           /\ \/ InQos[p.about] = 0 /\ UNCHANGED toBroker
              \/ InQos[p.about] = 1 /\ Send(BrokerPacket("PUBACK", p.about))
              \/ InQos[p.about] = 2 /\ Send(BrokerPacket("PUBREC", p.about))
    /\ toClient' = Tail(toClient)
    /\ UNCHANGED <<up, clientVars, issued, published, brokerVars>>

\* Mutation: PUBREL is not answered.
HandlePubrelSilently ==
    /\ toClient # <<>>
    /\ Head(toClient).type = "PUBREL"
    /\ toClient' = Tail(toClient)
    /\ UNCHANGED <<up, toBroker, clientVars, appVars, brokerVars>>

\* PUBREL: PUBCOMP.
HandlePubrel ==
    /\ toClient # <<>>
    /\ LET p == Head(toClient)
       IN  /\ p.type = "PUBREL"
           /\ Send(BrokerPacket("PUBCOMP", p.about))
    /\ toClient' = Tail(toClient)
    /\ UNCHANGED <<up, clientVars, appVars, brokerVars>>

-----------------------------------------------------------------------------
Application ==
    \/ \E m \in Messages : PublishQos0(m) \/ Publish(m)
    \/ \E t \in Topics : Request("SUBSCRIBE", t) \/ Request("UNSUBSCRIBE", t)

BrokerTakes ==
    \/ BrokerTakesPublish
    \/ BrokerTakesPubrel
    \/ BrokerTakesRequest
    \/ BrokerTakesAnswer

Handle ==
    \/ HandlePubackPubcomp
    \/ HandlePubrec
    \/ HandleSubackUnsuback
    \/ HandlePublish
    \/ HandlePubrel

\* What happens to one client object.
ClientStep ==
    \/ Application
    \/ \E clean \in CleanSessions : Connect(clean)
    \/ Lose
    \/ BrokerTakes
    \/ \E i \in Inbound : BrokerAccepts(i) \/ BrokerSends(i)
    \/ Handle

Next == ClientStep \/ Replace

Spec == Init /\ [][Next]_vars

\* What is on its way arrives, and the broker sends what is due.  Nothing is
\* assumed of the application, nor that a connection lasts or comes back.
Fairness ==
    /\ WF_vars(BrokerTakes)
    /\ WF_vars(Handle)
    /\ \A i \in Inbound : WF_vars(BrokerSends(i))

FairSpec == Spec /\ Fairness

\* The same for an application that keeps its client.
OneClientSpec == Init /\ [][ClientStep]_vars /\ Fairness

-----------------------------------------------------------------------------
(* Safety. *)

\* No two packets under one identifier are on their way at once, through wraps of
\* the counter, lost connections and new clients: an acknowledgement can be taken
\* for that of one exchange only.
OnePacketPerExchange ==
    /\ \A k1, k2 \in DOMAIN toBroker :
          toBroker[k1].id # Own /\ toBroker[k1].id = toBroker[k2].id => k1 = k2
    /\ \A k1, k2 \in DOMAIN toClient :
          toClient[k1].id # Own /\ toClient[k1].id = toClient[k2].id => k1 = k2
    /\ \A k1 \in DOMAIN toBroker, k2 \in DOMAIN toClient :
          toBroker[k1].id # Own => toBroker[k1].id # toClient[k2].id

\* Every acknowledgement will be reported for the message or the topic that the
\* broker acknowledged, and none for an empty message.
AcksNameTheirRequest ==
    \A k \in DOMAIN toClient :
        LET p == toClient[k]
        IN  /\ p.type \in {"PUBACK", "PUBREC", "PUBCOMP"} => midToMessage[p.id] = p.about
            /\ p.type \in {"SUBACK", "UNSUBACK"} => midToTopic[p.id] = p.about

\* published(), at QoS 1 and 2, means that the broker took the message ("Receive
\* when publish is succeeded", qmqtt-API.md:87).
PublishedWasTaken ==
    \A m \in Messages : m \in published /\ Qos[m] > 0 => taken[m] > 0

\* A message of QoS 2 is received at most once ("exactly once",
\* mqttclientwgt.cpp:456).
ReceivedOnce ==
    \A i \in Inbound : InQos[i] = 2 => received[i] <= 1

-----------------------------------------------------------------------------
(* Refinement and liveness. *)

DeliveryOf == INSTANCE Delivery WITH
    confirmed <- {m \in published : m # None /\ Qos[m] > 0}

\* With clean sessions, a session delivers as Delivery says: what is lost is lost,
\* but nothing is taken, confirmed or received twice, or confirmed untaken.
ImplementsDelivery == DeliveryOf!Spec

\* A message of QoS 1 or 2 whose packet is on its way.
Sent(m) ==
    \E k \in DOMAIN toBroker :
        toBroker[k].type = "PUBLISH" /\ toBroker[k].about = m /\ Qos[m] > 0

\* While its connection lasts, every exchange comes to its end, on both sides:
\* no handler leaves one waiting for a packet that nobody sends.
ExchangesComplete ==
    /\ \A m \in Messages : Sent(m) ~> (m \in published \/ ~up)
    /\ \A i \in Inbound :
          (up /\ stage[i] \in {"sent", "released"}) ~> (stage[i] = "done" \/ ~up)

\* From some point on a connection holds.
HoldsAtLast == <>[]up

\* A message of QoS 1 or 2 that was published over a connection reaches the broker,
\* if need be over another ("at least once", mqttclientwgt.cpp:458 and
\* migration-validation-review.md:165), once a connection holds.
DeliveredAtLeastOnce ==
    HoldsAtLast => \A m \in Messages : Sent(m) ~> taken[m] > 0
=============================================================================
