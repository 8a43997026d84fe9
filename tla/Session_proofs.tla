--------------------------- MODULE Session_proofs ---------------------------
(***************************************************************************)
(* Proofs about module Session, for every set of messages and topics,      *)
(* every QoS and an identifier counter of any width: acknowledgements are  *)
(* never mixed up, and with clean sessions the exchanges deliver messages  *)
(* as module Delivery says.                                                *)
(***************************************************************************)
EXTENDS Session, SequenceTheorems, TLAPS

-----------------------------------------------------------------------------
(* Sequences of packets. *)

\* What is left when the first packet is taken.
LEMMA TailElements ==
    ASSUME NEW S, NEW s \in Seq(S), s # <<>>
    PROVE  /\ 1 \in DOMAIN s /\ Head(s) = s[1] /\ Head(s) \in S
           /\ Tail(s) \in Seq(S)
           /\ \A k \in DOMAIN Tail(s) :
                 k \in Nat /\ k + 1 \in DOMAIN s /\ k + 1 # 1 /\ Tail(s)[k] = s[k + 1]
OBVIOUS

\* What is there when a packet is written.
LEMMA AppendElements ==
    ASSUME NEW S, NEW s \in Seq(S), NEW e \in S
    PROVE  /\ Append(s, e) \in Seq(S)
           /\ \A k \in DOMAIN Append(s, e) :
                 \/ k \in DOMAIN s /\ Append(s, e)[k] = s[k]
                 \/ k = Len(s) + 1 /\ Append(s, e)[k] = e
BY AppendProperties

\* OnePacketPerExchange, of any two sequences.
Apart(s, t) ==
    /\ \A k1, k2 \in DOMAIN s : s[k1].id # Own /\ s[k1].id = s[k2].id => k1 = k2
    /\ \A k1, k2 \in DOMAIN t : t[k1].id # Own /\ t[k1].id = t[k2].id => k1 = k2
    /\ \A k1 \in DOMAIN s, k2 \in DOMAIN t : s[k1].id # Own => s[k1].id # t[k2].id

LEMMA ApartSymmetric ==
    ASSUME NEW s, NEW t, Apart(s, t)
    PROVE  Apart(t, s)
BY DEF Apart

LEMMA ApartTail ==
    ASSUME NEW S, NEW s \in Seq(S), s # <<>>, NEW t, Apart(s, t)
    PROVE  /\ Apart(Tail(s), t)
           /\ Head(s).id # Own =>
                 /\ \A k \in DOMAIN Tail(s) : Tail(s)[k].id # Head(s).id
                 /\ \A k \in DOMAIN t : t[k].id # Head(s).id
BY TailElements DEF Apart

\* A packet is written whose exchange has no other packet on its way.
LEMMA ApartAppend ==
    ASSUME NEW S, NEW s \in Seq(S), NEW e \in S, NEW t, Apart(s, t),
           e.id # Own => /\ \A k \in DOMAIN s : s[k].id # e.id
                         /\ \A k \in DOMAIN t : t[k].id # e.id
    PROVE  Apart(Append(s, e), t)
<1> DEFINE a == Append(s, e)
<1>1. \A k \in DOMAIN a : \/ k \in DOMAIN s /\ a[k] = s[k]
                          \/ k = Len(s) + 1 /\ a[k] = e
  BY AppendElements
<1> HIDE DEF a
<1>2. Apart(a, t)
  BY <1>1 DEF Apart
<1>3. QED
  BY <1>2 DEF a

\* A packet is taken and answered in its exchange, or not at all.
LEMMA ApartAnswer ==
    ASSUME NEW S, NEW s \in Seq(S), s # <<>>, NEW T, NEW t \in Seq(T), Apart(s, t),
           NEW e \in T, e.id = Own \/ e.id = Head(s).id
    PROVE  Apart(Tail(s), Append(t, e))
<1>1. Apart(t, Tail(s))
  BY ApartTail, ApartSymmetric
<1>2. e.id # Own => /\ \A k \in DOMAIN t : t[k].id # e.id
                    /\ \A k \in DOMAIN Tail(s) : Tail(s)[k].id # e.id
  BY ApartTail
<1>3. Apart(Append(t, e), Tail(s))
  BY <1>1, <1>2, ApartAppend
<1>4. QED
  BY <1>3, ApartSymmetric

-----------------------------------------------------------------------------
(* The invariant of the exchanges: every packet on its way belongs to an entry *)
(* of the client's hashes.                                                     *)

\* A packet that the client wrote.
OutOK(p) ==
    /\ p.type = "PUBLISH" =>
          /\ p.about \in Messages
          /\ p.id = Own <=> Qos[p.about] = 0
          /\ p.id # Own => midToMessage[p.id] = p.about
    /\ p.type = "PUBREL" =>
          /\ p.about \in Messages /\ Qos[p.about] = 2
          /\ p.id # Own /\ midToMessage[p.id] = p.about
    /\ p.type \in {"SUBSCRIBE", "UNSUBSCRIBE"} =>
          /\ p.about \in Topics
          /\ p.id # Own /\ midToTopic[p.id] = p.about

\* A packet that the broker wrote.
InOK(p) ==
    /\ p.type \in {"PUBACK", "PUBREC", "PUBCOMP"} =>
          /\ p.about \in Messages /\ midToMessage[p.id] = p.about
          /\ IF p.type = "PUBACK" THEN Qos[p.about] = 1 ELSE Qos[p.about] = 2
    /\ p.type \in {"SUBACK", "UNSUBACK"} =>
          /\ p.about \in Topics /\ midToTopic[p.id] = p.about

ExchangeInv ==
    /\ Apart(toBroker, toClient)
    /\ \A k \in DOMAIN toBroker : OutOK(toBroker[k])
    /\ \A k \in DOMAIN toClient : InOK(toClient[k])
    /\ ~up => toBroker = <<>> /\ toClient = <<>>

IInv == TypeOK /\ ExchangeInv

\* What OutOK() and InOK() say of a packet concerns its own identifier only.
LEMMA OtherEntries ==
    ASSUME TypeOK, NEW x,
           \A id \in Ids : id # x => /\ midToMessage'[id] = midToMessage[id]
                                     /\ midToTopic'[id] = midToTopic[id]
    PROVE  /\ \A p \in ToBroker : p.id # x /\ OutOK(p) => OutOK(p)'
           /\ \A p \in ToClient : p.id # x /\ InOK(p) => InOK(p)'
BY DEF OutOK, InOK, ToBroker, ToClient, Own, TypeOK

\* Packets of the types that the actions write.
LEMMA PacketTypes ==
    /\ \A id \in Ids \cup {Own}, about \in Messages \cup Topics :
          \A type \in {"PUBLISH", "PUBREL", "SUBSCRIBE", "UNSUBSCRIBE"} :
             Packet(type, id, about) \in ToBroker
    /\ \A i \in Inbound, type \in {"PUBACK", "PUBREC", "PUBCOMP"} :
          BrokerPacket(type, i) \in ToBroker
    /\ \A id \in Ids, about \in Messages \cup Topics :
          \A type \in {"PUBACK", "PUBREC", "PUBCOMP", "SUBACK", "UNSUBACK"} :
             Packet(type, id, about) \in ToClient
    /\ \A i \in Inbound, type \in {"PUBLISH", "PUBREL"} : BrokerPacket(type, i) \in ToClient
BY DEF Packet, BrokerPacket, ToBroker, ToClient

\* The fields of a packet.
LEMMA PacketFields ==
    /\ \A type, id, about : /\ Packet(type, id, about).type = type
                            /\ Packet(type, id, about).id = id
                            /\ Packet(type, id, about).about = about
    /\ \A type, i : /\ BrokerPacket(type, i).type = type
                    /\ BrokerPacket(type, i).id = Own
                    /\ BrokerPacket(type, i).about = i
BY DEF Packet, BrokerPacket

\* A packet on its way has an entry, so an identifier without one is fresh.
LEMMA FreshId ==
    ASSUME IInv, NEW id \in Ids, midToMessage[id] = None, midToTopic[id] = None
    PROVE  /\ \A k \in DOMAIN toBroker : toBroker[k].id # id
           /\ \A k \in DOMAIN toClient : toClient[k].id # id
<1> USE DEF IInv, ExchangeInv, TypeOK
<1>1. ASSUME NEW k \in DOMAIN toBroker, toBroker[k].id = id PROVE FALSE
  <2>1. toBroker[k] \in ToBroker /\ OutOK(toBroker[k]) /\ id # Own
    BY DEF Ids, Own
  <2>2. QED
    BY <1>1, <2>1, SessionAssumption DEF OutOK, ToBroker
<1>2. ASSUME NEW k \in DOMAIN toClient, toClient[k].id = id PROVE FALSE
  <2>1. toClient[k] \in ToClient /\ InOK(toClient[k]) /\ id # Own
    BY DEF Ids, Own
  <2>2. QED
    BY <1>2, <2>1, SessionAssumption DEF InOK, ToClient
<1>3. QED
  BY <1>1, <1>2

\* What the client takes, and what it answers.
LEMMA ClientTakes ==
    ASSUME IInv, toClient # <<>>
    PROVE  /\ up /\ Head(toClient) \in ToClient /\ InOK(Head(toClient))
           /\ Tail(toClient) \in Seq(ToClient)
           /\ \A k \in DOMAIN Tail(toClient) : /\ Tail(toClient)[k] \in ToClient
                                               /\ InOK(Tail(toClient)[k])
           /\ Apart(toBroker, Tail(toClient))
<1> USE DEF IInv, ExchangeInv, TypeOK
<1>1. Apart(toBroker, Tail(toClient))
  BY ApartTail, ApartSymmetric
<1>2. QED
  BY <1>1, TailElements

LEMMA ClientAnswers ==
    ASSUME IInv, toClient # <<>>, NEW e \in ToBroker, OutOK(e),
           e.id = Own \/ e.id = Head(toClient).id, Send(e)
    PROVE  /\ toBroker' \in Seq(ToBroker)
           /\ \A k \in DOMAIN toBroker' : OutOK(toBroker'[k])
           /\ Apart(toBroker', Tail(toClient))
<1> USE DEF IInv, ExchangeInv, TypeOK
<1>1. toBroker' = Append(toBroker, e)
  BY DEF Send
<1>2. Apart(Tail(toClient), toBroker')
  BY <1>1, ApartAnswer, ApartSymmetric
<1>3. QED
  BY <1>1, <1>2, ApartSymmetric, AppendElements

\* What the broker takes, and what it answers.
LEMMA BrokerTakesOne ==
    ASSUME IInv, toBroker # <<>>
    PROVE  /\ up /\ Head(toBroker) \in ToBroker /\ OutOK(Head(toBroker))
           /\ Tail(toBroker) \in Seq(ToBroker)
           /\ \A k \in DOMAIN Tail(toBroker) : OutOK(Tail(toBroker)[k])
           /\ Apart(Tail(toBroker), toClient)
<1> USE DEF IInv, ExchangeInv, TypeOK
<1>1. Apart(Tail(toBroker), toClient)
  BY ApartTail
<1>2. QED
  BY <1>1, TailElements

LEMMA BrokerAnswers ==
    ASSUME IInv, toBroker # <<>>, NEW e \in ToClient, InOK(e), e.id = Head(toBroker).id
    PROVE  /\ Append(toClient, e) \in Seq(ToClient)
           /\ \A k \in DOMAIN Append(toClient, e) : InOK(Append(toClient, e)[k])
           /\ Apart(Tail(toBroker), Append(toClient, e))
<1> USE DEF IInv, ExchangeInv, TypeOK
<1>1. Apart(Tail(toBroker), Append(toClient, e))
  BY ApartAnswer
<1>2. QED
  BY <1>1, AppendElements

\* The invariant after a step that leaves the hashes alone.
LEMMA HashesKept ==
    ASSUME TypeOK', UNCHANGED <<midToMessage, midToTopic>>, Apart(toBroker', toClient'),
           \A k \in DOMAIN toBroker' : OutOK(toBroker'[k]),
           \A k \in DOMAIN toClient' : InOK(toClient'[k]),
           up' \/ (toBroker' = <<>> /\ toClient' = <<>>)
    PROVE  IInv'
BY DEF IInv, ExchangeInv, OutOK, InOK, Apart

-----------------------------------------------------------------------------
(* Every step keeps the invariant. *)

LEMMA InvInit == Init => IInv
<1> SUFFICES ASSUME Init PROVE IInv
  OBVIOUS
<1>1. TypeOK
  <2>1. gmid \in Ids /\ held \subseteq Ids
    BY SessionAssumption DEF Init, Ids
  <2>2. midToMessage \in [Ids -> Messages \cup {None}] /\ midToTopic \in [Ids -> Topics \cup {None}]
    BY DEF Init, NoMessages, NoTopics
  <2>3. received \in [Inbound -> 0 .. 2] /\ taken \in [Messages -> 0 .. 2]
    BY DEF Init
  <2>4. stage \in [Inbound -> {"new", "sent", "released", "done"}]
    BY DEF Init
  <2>5. QED
    BY <2>1, <2>2, <2>3, <2>4, EmptySeq DEF Init, TypeOK
<1>2. ExchangeInv
  BY DEF Init, ExchangeInv, Apart
<1>3. QED
  BY <1>1, <1>2 DEF IInv

\* nextmid()
LEMMA NextMidType ==
    ASSUME gmid \in Ids PROVE NextMid \in Ids
BY SessionAssumption DEF NextMid, Ids

\* A new exchange begins: its identifier is fresh, so its entry disturbs no packet.
LEMMA NewExchange ==
    ASSUME IInv, IdFree, NEW e \in ToBroker, e.id = gmid, Send(e), OutOK(e)',
           UNCHANGED <<up, toClient>>, TypeOK',
           \A id \in Ids : id # gmid => /\ midToMessage'[id] = midToMessage[id]
                                        /\ midToTopic'[id] = midToTopic[id]
    PROVE  IInv'
<1> USE DEF IInv, ExchangeInv, TypeOK
<1>1. /\ \A k \in DOMAIN toBroker : toBroker[k].id # gmid
      /\ \A k \in DOMAIN toClient : toClient[k].id # gmid
  BY FreshId DEF IdFree
<1>2. /\ \A k \in DOMAIN toBroker, p \in ToBroker : p = toBroker[k] => OutOK(p)'
      /\ \A k \in DOMAIN toClient, p \in ToClient : p = toClient[k] => InOK(p)'
  BY <1>1, OtherEntries
<1>3. \A k \in DOMAIN toClient' : InOK(toClient[k])'
  <2>1. ASSUME NEW k \in DOMAIN toClient, NEW p \in ToClient, p = toClient[k]
        PROVE  InOK(toClient[k])'
    <3>1. InOK(p)' /\ p = (toClient[k])'
      BY <1>2, <2>1
    <3>2. QED
      BY <3>1 DEF InOK
  <2>2. QED
    BY <2>1
<1>4. CASE up
  <2>1. toBroker' = Append(toBroker, e)
    BY <1>4 DEF Send
  <2>2. Apart(toBroker', toClient)
    BY <1>1, <2>1, ApartAppend
  <2>3. \A k \in DOMAIN toBroker' : OutOK(toBroker[k])'
    <3>1. ASSUME NEW k \in DOMAIN toBroker', NEW p \in ToBroker, p = toBroker'[k]
          PROVE  OutOK(toBroker[k])'
      <4>1. OutOK(p)'
        BY <1>2, <2>1, <3>1, AppendElements
      <4>2. QED
        BY <3>1, <4>1 DEF OutOK
    <3>2. \A k \in DOMAIN toBroker' : toBroker'[k] \in ToBroker
      OBVIOUS
    <3>3. QED
      BY <3>1, <3>2
  <2>4. Apart(toBroker, toClient)'
    BY <2>2 DEF Apart
  <2>5. QED
    BY <1>3, <1>4, <2>3, <2>4
<1>5. CASE ~up
  <2>1. toBroker' = <<>> /\ toClient' = <<>>
    BY <1>5 DEF Send
  <2>2. QED
    BY <2>1 DEF Apart
<1>6. QED
  BY <1>4, <1>5

\* An exchange ends: the packet that ended it was the only one of its identifier.
LEMMA ExchangeEnds ==
    ASSUME IInv, toClient # <<>>, Head(toClient).id # Own,
           toClient' = Tail(toClient), UNCHANGED <<up, toBroker>>, TypeOK',
           \A id \in Ids : id # Head(toClient).id =>
               /\ midToMessage'[id] = midToMessage[id]
               /\ midToTopic'[id] = midToTopic[id]
    PROVE  IInv'
<1> USE DEF IInv, ExchangeInv, TypeOK
<1> DEFINE rest == Tail(toClient)
<1>1. /\ \A k \in DOMAIN rest : rest[k].id # Head(toClient).id
      /\ \A k \in DOMAIN toBroker : toBroker[k].id # Head(toClient).id
  BY ApartTail, ApartSymmetric
<1>2. /\ \A k \in DOMAIN toBroker, p \in ToBroker : p = toBroker[k] => OutOK(p)'
      /\ \A k \in DOMAIN rest, p \in ToClient : p = rest[k] => InOK(p)'
  BY <1>1, OtherEntries, ClientTakes
<1>3. \A k \in DOMAIN toBroker' : OutOK(toBroker[k])'
  <2>1. ASSUME NEW k \in DOMAIN toBroker', NEW p \in ToBroker, p = toBroker'[k]
        PROVE  OutOK(toBroker[k])'
    <3>1. OutOK(p)'
      BY <1>2, <2>1
    <3>2. QED
      BY <2>1, <3>1 DEF OutOK
  <2>2. \A k \in DOMAIN toBroker' : toBroker'[k] \in ToBroker
    OBVIOUS
  <2>3. QED
    BY <2>1, <2>2
<1>4. \A k \in DOMAIN toClient' : InOK(toClient[k])'
  <2>1. ASSUME NEW k \in DOMAIN toClient', NEW p \in ToClient, p = toClient'[k]
        PROVE  InOK(toClient[k])'
    <3>1. InOK(p)'
      BY <1>2, <2>1
    <3>2. QED
      BY <2>1, <3>1 DEF InOK
  <2>2. \A k \in DOMAIN toClient' : toClient'[k] \in ToClient
    BY ClientTakes
  <2>3. QED
    BY <2>1, <2>2
<1>5. Apart(toBroker, toClient)'
  BY ClientTakes DEF Apart
<1>6. QED
  BY <1>3, <1>4, <1>5, ClientTakes

\* publish(), subscribe() and unsubscribe()
LEMMA ApplicationKeeps ==
    ASSUME IInv, Application PROVE IInv'
<1> USE DEF IInv, TypeOK
<1>1. ASSUME NEW m \in Messages, PublishQos0(m) PROVE IInv'
  <2> DEFINE e == Packet("PUBLISH", Own, m)
  <2>1. e \in ToBroker /\ OutOK(e) /\ e.id = Own
    <3>1. e \in ToBroker
      BY PacketTypes
    <3>2. QED
      BY <1>1, <3>1 DEF PublishQos0, Packet, OutOK
  <2> HIDE DEF e
  <2>2. /\ toBroker' \in Seq(ToBroker) /\ Apart(toBroker', toClient)
        /\ \A k \in DOMAIN toBroker' : OutOK(toBroker'[k])
        /\ up \/ toBroker' = <<>>
    <3>1. CASE up
      <4>1. toBroker' = Append(toBroker, e)
        BY <1>1, <3>1 DEF PublishQos0, Send, e
      <4>2. Apart(toBroker', toClient)
        BY <2>1, <4>1, ApartAppend DEF ExchangeInv
      <4>3. QED
        BY <2>1, <3>1, <4>1, <4>2, AppendElements DEF ExchangeInv
    <3>2. CASE ~up
      BY <1>1, <3>2 DEF PublishQos0, Send, ExchangeInv
    <3>3. QED
      BY <3>1, <3>2
  <2>3. TypeOK'
    BY <1>1, <2>2 DEF PublishQos0, clientVars, brokerVars
  <2>4. QED
    BY <1>1, <2>2, <2>3, HashesKept DEF PublishQos0, clientVars, ExchangeInv
<1>2. ASSUME NEW m \in Messages, Publish(m) PROVE IInv'
  <2>1. PICK id \in Ids : id = gmid
    OBVIOUS
  <2> DEFINE e == Packet("PUBLISH", id, m)
  <2>2. e \in ToBroker /\ e.id = gmid
    BY <2>1, PacketTypes, PacketFields
  <2>3. Send(e) /\ midToMessage'[id] = m
    BY <1>2, <2>1 DEF Publish
  <2>4. e.type = "PUBLISH" /\ e.id = id /\ e.about = m /\ id # Own /\ Qos[m] > 0
    BY <1>2, PacketFields DEF Publish, Ids, Own
  <2> HIDE DEF e
  <2>5. OutOK(e)'
    BY <2>3, <2>4 DEF OutOK, e, Packet
  <2>6. TypeOK'
    <3>1. toBroker' \in Seq(ToBroker)
      BY <2>2, <2>3, AppendProperties DEF Send
    <3>2. QED
      BY <1>2, <3>1, NextMidType DEF Publish, brokerVars
  <2>7. QED
    BY <1>2, <2>2, <2>3, <2>5, <2>6, NewExchange DEF Publish
<1>3. ASSUME NEW t \in Topics, NEW type \in {"SUBSCRIBE", "UNSUBSCRIBE"}, Request(type, t)
      PROVE  IInv'
  <2>1. PICK id \in Ids : id = gmid
    OBVIOUS
  <2> DEFINE e == Packet(type, id, t)
  <2>2. e \in ToBroker /\ e.id = gmid
    BY <2>1, PacketTypes, PacketFields
  <2>3. Send(e) /\ midToTopic'[id] = t
    BY <1>3, <2>1 DEF Request
  <2>4. e.type = type /\ e.id = id /\ e.about = t /\ id # Own
    BY PacketFields DEF Ids, Own
  <2> HIDE DEF e
  <2>5. OutOK(e)'
    BY <2>3, <2>4 DEF OutOK, e, Packet
  <2>6. TypeOK'
    <3>1. toBroker' \in Seq(ToBroker)
      BY <2>2, <2>3, AppendProperties DEF Send
    <3>2. QED
      BY <1>3, <3>1, NextMidType DEF Request, appVars, brokerVars
  <2>7. QED
    BY <1>3, <2>2, <2>3, <2>5, <2>6, NewExchange DEF Request
<1>4. QED
  BY <1>1, <1>2, <1>3 DEF Application

\* Connections open and end, and clients are replaced.
LEMMA ConnectionsKeep ==
    ASSUME IInv, (\E clean \in CleanSessions : Connect(clean)) \/ Lose \/ Replace PROVE IInv'
<1> USE DEF IInv, TypeOK
<1>1. ASSUME NEW clean \in CleanSessions, Connect(clean) PROVE IInv'
  <2>1. held' \subseteq Ids /\ queued' \subseteq Inbound
    BY <1>1 DEF Connect
  <2>2. stage' \in [Inbound -> {"new", "sent", "released", "done"}]
    BY <1>1 DEF Connect
  <2>3. TypeOK'
    BY <1>1, <2>1, <2>2 DEF Connect, clientVars, appVars
  <2>4. QED
    BY <1>1, <2>3, HashesKept DEF Connect, clientVars, ExchangeInv
<1>2. ASSUME Lose \/ Replace PROVE IInv'
  <2>1. /\ toBroker' = <<>> /\ toClient' = <<>> /\ up' = FALSE
        /\ midToMessage' \in [Ids -> Messages \cup {None}]
        /\ midToTopic' \in [Ids -> Topics \cup {None}]
    BY <1>2 DEF Lose, Replace, NoMessages, NoTopics
  <2>2. gmid' \in Ids
    BY <1>2, SessionAssumption DEF Lose, Replace, Ids
  <2>3. TypeOK'
    BY <1>2, <2>1, <2>2, EmptySeq DEF Lose, Replace, appVars, brokerVars
  <2>4. ExchangeInv'
    BY <2>1 DEF ExchangeInv, Apart
  <2>5. QED
    BY <2>3, <2>4
<1>3. QED
  BY <1>1, <1>2

\* The broker takes a packet of the client's.
LEMMA BrokerTakesKeeps ==
    ASSUME IInv, BrokerTakes PROVE IInv'
<1> DEFINE p == Head(toBroker)
<1>1. toBroker # <<>> /\ toBroker' = Tail(toBroker)
  BY DEF BrokerTakes, BrokerTakesPublish, BrokerTakesPubrel, BrokerTakesRequest,
         BrokerTakesAnswer
<1>2. /\ up /\ p \in ToBroker /\ OutOK(p)
      /\ Tail(toBroker) \in Seq(ToBroker)
      /\ \A k \in DOMAIN Tail(toBroker) : OutOK(Tail(toBroker)[k])
      /\ Apart(Tail(toBroker), toClient)
  BY <1>1, BrokerTakesOne
<1> HIDE DEF p
<1> USE DEF IInv, TypeOK
<1>3. \A n \in 0 .. 2 : CountUp(n) \in 0 .. 2
  BY DEF CountUp
\* An answer in the exchange that the packet belongs to.
<1>4. ASSUME NEW type \in {"PUBACK", "PUBREC", "PUBCOMP", "SUBACK", "UNSUBACK"},
             InOK(Packet(type, p.id, p.about)), p.id \in Ids, p.about \in Messages \cup Topics,
             toClient' = Append(toClient, Packet(type, p.id, p.about)),
             UNCHANGED <<up, clientVars>>, TypeOK'
      PROVE  IInv'
  <2> DEFINE e == Packet(type, p.id, p.about)
  <2>1. e \in ToClient /\ e.id = p.id
    BY <1>4, PacketTypes, PacketFields
  <2>2. InOK(e) /\ toClient' = Append(toClient, e)
    BY <1>4
  <2> HIDE DEF e
  <2>3. /\ \A k \in DOMAIN Append(toClient, e) : InOK(Append(toClient, e)[k])
        /\ Apart(Tail(toBroker), Append(toClient, e))
    BY <1>1, <2>1, <2>2, BrokerAnswers DEF p
  <2>4. QED
    BY <1>1, <1>2, <1>4, <2>2, <2>3, HashesKept DEF clientVars
<1>5. ASSUME BrokerTakesPublish PROVE IInv'
  <2>1. /\ p.type = "PUBLISH" /\ p.about \in Messages /\ Qos[p.about] \in 0 .. 2
        /\ p.id = Own <=> Qos[p.about] = 0
        /\ p.id # Own => p.id \in Ids /\ midToMessage[p.id] = p.about
    <3>1. p.type = "PUBLISH" /\ p.id \in Ids \cup {Own}
      BY <1>2, <1>5 DEF BrokerTakesPublish, p, ToBroker
    <3>2. QED
      BY <1>2, <3>1, SessionAssumption DEF OutOK
  <2>2. /\ taken' \in [Messages -> 0 .. 2]
        /\ held' \subseteq Ids
    BY <1>3, <1>5, <2>1 DEF BrokerTakesPublish, p
  <2>3. CASE Qos[p.about] = 0
    <3>1. toClient' = toClient
      BY <1>5, <2>3 DEF BrokerTakesPublish, p
    <3>2. TypeOK'
      BY <1>1, <1>2, <1>5, <2>2, <3>1 DEF BrokerTakesPublish, clientVars, appVars
    <3>3. QED
      BY <1>1, <1>2, <1>5, <3>1, <3>2, HashesKept
         DEF BrokerTakesPublish, clientVars, ExchangeInv
  <2>4. CASE Qos[p.about] # 0
    <3>1. PICK type \in {"PUBACK", "PUBREC"} :
              /\ toClient' = Append(toClient, Packet(type, p.id, p.about))
              /\ IF type = "PUBACK" THEN Qos[p.about] = 1 ELSE Qos[p.about] = 2
      BY <1>5, <2>1, <2>4 DEF BrokerTakesPublish, p
    <3>2. InOK(Packet(type, p.id, p.about))
      BY <2>1, <2>4, <3>1, PacketFields DEF InOK
    <3>3. toClient' \in Seq(ToClient)
      BY <2>1, <2>4, <3>1, PacketTypes, AppendProperties
    <3>4. TypeOK'
      BY <1>1, <1>2, <1>5, <2>2, <3>3 DEF BrokerTakesPublish, clientVars, appVars
    <3>5. QED
      BY <1>4, <1>5, <2>1, <2>4, <3>1, <3>2, <3>4 DEF BrokerTakesPublish
  <2>5. QED
    BY <2>3, <2>4
<1>6. ASSUME BrokerTakesPubrel PROVE IInv'
  <2>1. /\ p.about \in Messages /\ Qos[p.about] = 2
        /\ p.id \in Ids /\ midToMessage[p.id] = p.about
    BY <1>2, <1>6 DEF BrokerTakesPubrel, p, OutOK, ToBroker, Own
  <2>2. toClient' = Append(toClient, Packet("PUBCOMP", p.id, p.about))
    BY <1>6 DEF BrokerTakesPubrel, p
  <2>3. InOK(Packet("PUBCOMP", p.id, p.about))
    BY <2>1, PacketFields DEF InOK
  <2>4. toClient' \in Seq(ToClient)
    BY <2>1, <2>2, PacketTypes, AppendProperties
  <2>5. TypeOK'
    BY <1>1, <1>2, <1>6, <2>4 DEF BrokerTakesPubrel, clientVars, appVars
  <2>6. QED
    BY <1>4, <1>6, <2>1, <2>2, <2>3, <2>5 DEF BrokerTakesPubrel
<1>7. ASSUME BrokerTakesRequest PROVE IInv'
  <2>1. /\ p.about \in Topics
        /\ p.id \in Ids /\ midToTopic[p.id] = p.about
    BY <1>2, <1>7 DEF BrokerTakesRequest, p, OutOK, ToBroker, Own
  <2>2. PICK type \in {"SUBACK", "UNSUBACK"} :
            toClient' = Append(toClient, Packet(type, p.id, p.about))
    BY <1>7 DEF BrokerTakesRequest, p
  <2>3. InOK(Packet(type, p.id, p.about))
    BY <2>1, PacketFields DEF InOK
  <2>4. toClient' \in Seq(ToClient)
    BY <2>1, <2>2, PacketTypes, AppendProperties
  <2>5. TypeOK'
    BY <1>1, <1>2, <1>7, <2>4 DEF BrokerTakesRequest, clientVars, appVars, brokerVars
  <2>6. QED
    BY <1>4, <1>7, <2>1, <2>2, <2>3, <2>5 DEF BrokerTakesRequest
<1>8. ASSUME BrokerTakesAnswer PROVE IInv'
  <2>1. p.about \in Inbound
    BY <1>2, <1>8 DEF BrokerTakesAnswer, p, ToBroker
  <2>2. TypeOK'
    BY <1>1, <1>2, <1>8, <2>1 DEF BrokerTakesAnswer, clientVars, appVars, p
  <2>3. QED
    BY <1>1, <1>2, <1>8, <2>2, HashesKept DEF BrokerTakesAnswer, clientVars, ExchangeInv
<1>9. QED
  BY <1>5, <1>6, <1>7, <1>8 DEF BrokerTakes

\* The broker's own messages.
LEMMA BrokerSendsKeeps ==
    ASSUME IInv, NEW i \in Inbound, BrokerAccepts(i) \/ BrokerSends(i) PROVE IInv'
<1> USE DEF IInv, TypeOK
<1>1. CASE BrokerAccepts(i)
  <2>1. TypeOK'
    BY <1>1 DEF BrokerAccepts, clientVars, appVars
  <2>2. QED
    BY <1>1, <2>1, HashesKept DEF BrokerAccepts, clientVars, ExchangeInv
<1>2. CASE BrokerSends(i)
  <2>1. PICK type \in {"PUBLISH", "PUBREL"} :
            toClient' = Append(toClient, BrokerPacket(type, i))
    BY <1>2 DEF BrokerSends
  <2> DEFINE e == BrokerPacket(type, i)
  <2>2. e \in ToClient /\ InOK(e) /\ e.id = Own
    BY PacketTypes, PacketFields DEF InOK
  <2>3. toClient' = Append(toClient, e)
    BY <2>1
  <2> HIDE DEF e
  <2>4. toClient' \in Seq(ToClient) /\ \A k \in DOMAIN toClient' : InOK(toClient'[k])
    BY <2>2, <2>3, AppendElements DEF ExchangeInv
  <2>5. Apart(toBroker, toClient')
    <3>1. Apart(toClient, toBroker)
      BY ApartSymmetric DEF ExchangeInv
    <3>2. Apart(toClient', toBroker)
      BY <2>2, <2>3, <3>1, ApartAppend
    <3>3. QED
      BY <3>2, ApartSymmetric
  <2>6. TypeOK'
    BY <1>2, <2>4 DEF BrokerSends, clientVars, appVars
  <2>7. QED
    BY <1>2, <2>4, <2>5, <2>6, HashesKept DEF BrokerSends, clientVars, ExchangeInv
<1>3. QED
  BY <1>1, <1>2

\* onNetworkReceived()
LEMMA HandleKeeps ==
    ASSUME IInv, Handle PROVE IInv'
<1> DEFINE p == Head(toClient)
<1>1. toClient # <<>> /\ toClient' = Tail(toClient)
  BY DEF Handle, HandlePubackPubcomp, HandlePubrec, HandleSubackUnsuback, HandlePublish,
         HandlePubrel
<1>2. /\ up /\ p \in ToClient /\ InOK(p)
      /\ Tail(toClient) \in Seq(ToClient)
      /\ \A k \in DOMAIN Tail(toClient) : InOK(Tail(toClient)[k])
      /\ Apart(toBroker, Tail(toClient))
  BY <1>1, ClientTakes
<1> HIDE DEF p
<1> USE DEF IInv, TypeOK
<1>3. \A n \in 0 .. 2 : CountUp(n) \in 0 .. 2
  BY DEF CountUp
\* An answer, in the exchange that the packet belongs to or in one of the broker's.
<1>4. ASSUME NEW type \in {"PUBACK", "PUBREC", "PUBCOMP", "PUBREL"},
             NEW id, NEW about,
             Packet(type, id, about) \in ToBroker, OutOK(Packet(type, id, about)),
             id = Own \/ id = p.id, Send(Packet(type, id, about)),
             UNCHANGED <<up, clientVars, issued, published, brokerVars>>,
             received' \in [Inbound -> 0 .. 2]
      PROVE  IInv'
  <2> DEFINE e == Packet(type, id, about)
  <2>1. e \in ToBroker /\ OutOK(e) /\ (e.id = Own \/ e.id = p.id) /\ Send(e)
    BY <1>4, PacketFields
  <2> HIDE DEF e
  <2>2. /\ toBroker' \in Seq(ToBroker)
        /\ \A k \in DOMAIN toBroker' : OutOK(toBroker'[k])
        /\ Apart(toBroker', Tail(toClient))
    BY <1>1, <2>1, ClientAnswers DEF p
  <2>3. TypeOK'
    BY <1>1, <1>2, <1>4, <2>2 DEF clientVars, brokerVars
  <2>4. QED
    BY <1>1, <1>2, <1>4, <2>2, <2>3, HashesKept DEF clientVars
<1>5. ASSUME HandlePubackPubcomp PROVE IInv'
  <2>1. p.type \in {"PUBACK", "PUBCOMP"} /\ p.id \in Ids /\ p.id # Own
    BY <1>2, <1>5 DEF HandlePubackPubcomp, p, ToClient, Ids, Own
  <2>2. midToMessage' = [midToMessage EXCEPT ![p.id] = None]
    BY <1>5 DEF HandlePubackPubcomp, p
  <2>3. published' \subseteq Messages \cup {None}
    BY <1>5, <2>1 DEF HandlePubackPubcomp, p
  <2>4. TypeOK'
    BY <1>1, <1>2, <1>5, <2>2, <2>3 DEF HandlePubackPubcomp, brokerVars
  <2>5. \A id \in Ids : id # p.id => /\ midToMessage'[id] = midToMessage[id]
                                     /\ midToTopic'[id] = midToTopic[id]
    BY <1>5, <2>2 DEF HandlePubackPubcomp
  <2>6. QED
    BY <1>1, <1>5, <2>1, <2>4, <2>5, ExchangeEnds DEF HandlePubackPubcomp, p
<1>6. ASSUME HandlePubrec PROVE IInv'
  <2>1. /\ p.id \in Ids /\ p.about \in Messages /\ Qos[p.about] = 2
        /\ midToMessage[p.id] = p.about
    BY <1>2, <1>6 DEF HandlePubrec, p, InOK, ToClient
  <2>2. Packet("PUBREL", p.id, p.about) \in ToBroker
    BY <2>1, PacketTypes
  <2>3. OutOK(Packet("PUBREL", p.id, p.about))
    BY <2>1, PacketFields DEF OutOK, Ids, Own
  <2>4. Send(Packet("PUBREL", p.id, p.about))
    BY <1>6 DEF HandlePubrec, p
  <2>5. QED
    BY <1>4, <1>6, <2>2, <2>3, <2>4 DEF HandlePubrec, appVars
<1>7. ASSUME HandleSubackUnsuback PROVE IInv'
  <2>1. p.type \in {"SUBACK", "UNSUBACK"} /\ p.id \in Ids /\ p.id # Own
    BY <1>2, <1>7 DEF HandleSubackUnsuback, p, ToClient, Ids, Own
  <2>2. midToTopic' = [midToTopic EXCEPT ![p.id] = None]
    BY <1>7 DEF HandleSubackUnsuback, p
  <2>3. TypeOK'
    BY <1>1, <1>2, <1>7, <2>2 DEF HandleSubackUnsuback, appVars, brokerVars
  <2>4. \A id \in Ids : id # p.id => /\ midToMessage'[id] = midToMessage[id]
                                     /\ midToTopic'[id] = midToTopic[id]
    BY <1>7, <2>2 DEF HandleSubackUnsuback
  <2>5. QED
    BY <1>1, <1>7, <2>1, <2>3, <2>4, ExchangeEnds DEF HandleSubackUnsuback, p
<1>8. ASSUME HandlePublish PROVE IInv'
  <2>1. p.about \in Inbound
    BY <1>2, <1>8 DEF HandlePublish, p, ToClient
  <2>2. received' \in [Inbound -> 0 .. 2]
    BY <1>3, <1>8, <2>1 DEF HandlePublish, p
  <2>3. CASE toBroker' = toBroker
    <3>1. TypeOK'
      BY <1>1, <1>2, <1>8, <2>2, <2>3 DEF HandlePublish, clientVars, brokerVars
    <3>2. QED
      BY <1>1, <1>2, <1>8, <2>3, <3>1, HashesKept DEF HandlePublish, clientVars, ExchangeInv
  <2>4. ASSUME NEW type \in {"PUBACK", "PUBREC"}, Send(BrokerPacket(type, p.about)) PROVE IInv'
    <3>1. Packet(type, Own, p.about) \in ToBroker
      BY <2>1, PacketTypes DEF BrokerPacket
    <3>2. OutOK(Packet(type, Own, p.about))
      BY PacketFields DEF OutOK
    <3>3. Send(Packet(type, Own, p.about))
      BY <2>4 DEF BrokerPacket
    <3>4. QED
      BY <1>4, <1>8, <2>2, <3>1, <3>2, <3>3 DEF HandlePublish
  <2>5. QED
    BY <1>8, <2>3, <2>4 DEF HandlePublish, p
<1>9. ASSUME HandlePubrel PROVE IInv'
  <2>1. p.about \in Inbound
    BY <1>2, <1>9 DEF HandlePubrel, p, ToClient
  <2>2. Packet("PUBCOMP", Own, p.about) \in ToBroker
    BY <2>1, PacketTypes DEF BrokerPacket
  <2>3. OutOK(Packet("PUBCOMP", Own, p.about))
    BY PacketFields DEF OutOK
  <2>4. Send(Packet("PUBCOMP", Own, p.about))
    BY <1>9 DEF HandlePubrel, p, BrokerPacket
  <2>5. QED
    BY <1>4, <1>9, <2>2, <2>3, <2>4 DEF HandlePubrel, appVars
<1>10. QED
  BY <1>5, <1>6, <1>7, <1>8, <1>9 DEF Handle

LEMMA InvStep == IInv /\ [Next]_vars => IInv'
<1> SUFFICES ASSUME IInv, [Next]_vars PROVE IInv'
  OBVIOUS
<1>1. CASE UNCHANGED vars
  BY <1>1 DEF vars, clientVars, appVars, brokerVars, IInv, TypeOK, ExchangeInv, Apart, OutOK,
              InOK
<1>2. CASE Next
  BY <1>2, ApplicationKeeps, ConnectionsKeep, BrokerTakesKeeps, BrokerSendsKeeps, HandleKeeps
     DEF Next, ClientStep
<1>3. QED
  BY <1>1, <1>2

THEOREM Invariance == Spec => []IInv
BY InvInit, InvStep, PTL DEF Spec

\* Every variable stays in its range: the counter never leaves the identifiers,
\* whatever wraps and new clients it goes through, and so no packet carries the
\* identifier 0, which stands for no exchange.
THEOREM TypeCorrect == Spec => []TypeOK
<1>1. IInv => TypeOK
  BY DEF IInv
<1>2. QED
  BY <1>1, Invariance, PTL

\* No two packets under one identifier are on their way at once.
THEOREM OnePacket == Spec => []OnePacketPerExchange
<1>1. IInv => OnePacketPerExchange
  BY DEF IInv, ExchangeInv, Apart, OnePacketPerExchange
<1>2. QED
  BY <1>1, Invariance, PTL

\* Every acknowledgement is reported for what the broker acknowledged.
THEOREM AcksNamed == Spec => []AcksNameTheirRequest
<1>1. IInv => AcksNameTheirRequest
  BY DEF IInv, ExchangeInv, InOK, AcksNameTheirRequest
<1>2. QED
  BY <1>1, Invariance, PTL

-----------------------------------------------------------------------------
(***************************************************************************)
(* With clean sessions a session delivers as module Delivery says: nothing *)
(* is taken, confirmed or received twice, or confirmed before it was       *)
(* taken.  The assumption is needed: the runs session_untaken and          *)
(* session_duplicate show the opposite of a session that is kept.          *)
(***************************************************************************)

-----------------------------------------------------------------------------
(* The packets of a sequence. *)

LEMMA RangeTail ==
    ASSUME NEW S, NEW s \in Seq(S), s # <<>>
    PROVE  Range(Tail(s)) \subseteq Range(s) /\ Head(s) \in Range(s)
BY TailElements DEF Range

LEMMA RangeAppend ==
    ASSUME NEW S, NEW s \in Seq(S), NEW e \in S
    PROVE  Range(Append(s, e)) = Range(s) \cup {e}
<1> DEFINE a == Append(s, e)
<1>1. Len(a) = Len(s) + 1 /\ DOMAIN a = 1 .. Len(a) /\ DOMAIN s = 1 .. Len(s) /\ Len(s) \in Nat
  BY AppendProperties
<1>2. /\ \A k \in DOMAIN a : (a[k] = s[k] /\ k \in DOMAIN s) \/ a[k] = e
      /\ \A k \in DOMAIN s : a[k] = s[k] /\ k \in DOMAIN a
      /\ Len(s) + 1 \in DOMAIN a /\ a[Len(s) + 1] = e
  BY <1>1, AppendProperties, AppendElements
<1> HIDE DEF a
<1>3. Range(a) = Range(s) \cup {e}
  BY <1>2 DEF Range
<1>4. QED
  BY <1>3 DEF a

\* No two PUBLISH of the same message.
Once(s) ==
    \A k1, k2 \in DOMAIN s :
        s[k1].type = "PUBLISH" /\ s[k2].type = "PUBLISH" /\ s[k1].about = s[k2].about => k1 = k2

LEMMA OnceTail ==
    ASSUME NEW S, NEW s \in Seq(S), s # <<>>, Once(s)
    PROVE  /\ Once(Tail(s))
           /\ \A q \in Range(Tail(s)) :
                 Head(s).type = "PUBLISH" /\ q.type = "PUBLISH" => q.about # Head(s).about
BY TailElements DEF Once, Range

LEMMA OnceAppend ==
    ASSUME NEW S, NEW s \in Seq(S), NEW e \in S, Once(s),
           e.type = "PUBLISH" =>
               \A q \in Range(s) : q.type = "PUBLISH" => q.about # e.about
    PROVE  Once(Append(s, e))
<1> DEFINE a == Append(s, e)
<1>1. \A k \in DOMAIN a : \/ k \in DOMAIN s /\ a[k] = s[k]
                          \/ k = Len(s) + 1 /\ a[k] = e
  BY AppendElements
<1> HIDE DEF a
<1>2. Once(a)
  BY <1>1 DEF Once, Range
<1>3. QED
  BY <1>2 DEF a

-----------------------------------------------------------------------------
(* The invariant of clean sessions. *)

\* A PUBLISH has not been taken before, a PUBREL is of a message that was.
OutClean(p) ==
    /\ p.type = "PUBLISH" => p.about \in issued /\ taken[p.about] = 0 /\ p.id \notin held
    /\ p.type = "PUBREL" => taken[p.about] = 1

\* An acknowledgement is of a message that was taken, a PUBLISH has not been
\* received before.
InClean(p) ==
    /\ p.type \in {"PUBACK", "PUBREC", "PUBCOMP"} => taken[p.about] = 1
    /\ p.type = "PUBCOMP" => p.id \notin held
    /\ p.type = "PUBLISH" => received[p.about] = 0

\* The hash has the message of every identifier that the broker holds.
HeldInv == up => \A id \in held : midToMessage[id] \in Messages /\ Qos[midToMessage[id]] = 2

MessageInv ==
    \A m \in Messages :
        /\ taken[m] <= 1
        /\ m \notin issued => taken[m] = 0
        /\ m \in published /\ Qos[m] > 0 => taken[m] = 1

\* A message of the broker whose PUBLISH is still to be sent.
InboundInv ==
    \A i \in Inbound : stage[i] = "new" \/ (stage[i] = "sent" /\ i \in queued) =>
        /\ received[i] = 0
        /\ \A p \in Range(toClient) : p.type = "PUBLISH" => p.about # i

PacketInv ==
    /\ Once(toBroker) /\ \A p \in Range(toBroker) : OutClean(p)
    /\ Once(toClient) /\ \A p \in Range(toClient) : InClean(p)

CleanInv == HeldInv /\ MessageInv /\ InboundInv /\ PacketInv

\* What the broker takes.
LEMMA TakenByBroker ==
    ASSUME IInv, PacketInv, toBroker # <<>>
    PROVE  /\ up /\ Head(toBroker) \in ToBroker
           /\ OutOK(Head(toBroker)) /\ OutClean(Head(toBroker))
           /\ Once(Tail(toBroker))
           /\ \A q \in Range(Tail(toBroker)) :
                 /\ q \in ToBroker /\ OutClean(q)
                 /\ Head(toBroker).id # Own => q.id # Head(toBroker).id
                 /\ Head(toBroker).type = "PUBLISH" /\ q.type = "PUBLISH" =>
                       q.about # Head(toBroker).about
           /\ \A q \in Range(toClient) :
                 /\ q \in ToClient /\ InClean(q)
                 /\ Head(toBroker).id # Own => q.id # Head(toBroker).id
<1> USE DEF IInv, TypeOK, ExchangeInv, PacketInv
<1>1. up /\ Head(toBroker) \in ToBroker /\ OutOK(Head(toBroker)) /\ OutClean(Head(toBroker))
  BY BrokerTakesOne, RangeTail
<1>2. Once(Tail(toBroker))
  BY OnceTail
<1>3. ASSUME NEW q \in Range(Tail(toBroker))
      PROVE  /\ q \in ToBroker /\ OutClean(q)
             /\ Head(toBroker).id # Own => q.id # Head(toBroker).id
             /\ Head(toBroker).type = "PUBLISH" /\ q.type = "PUBLISH" =>
                   q.about # Head(toBroker).about
  <2>1. OutClean(q)
    BY RangeTail
  <2>2. Head(toBroker).id # Own => q.id # Head(toBroker).id
    BY ApartTail DEF Range
  <2>3. Head(toBroker).type = "PUBLISH" /\ q.type = "PUBLISH" => q.about # Head(toBroker).about
    BY OnceTail
  <2>4. q \in ToBroker
    BY TailElements DEF Range
  <2>5. QED
    BY <2>1, <2>2, <2>3, <2>4
<1>4. ASSUME NEW q \in Range(toClient)
      PROVE  /\ q \in ToClient /\ InClean(q)
             /\ Head(toBroker).id # Own => q.id # Head(toBroker).id
  BY ApartTail DEF Range
<1>5. QED
  BY <1>1, <1>2, <1>3, <1>4

\* What the client takes.
LEMMA TakenByClient ==
    ASSUME IInv, PacketInv, toClient # <<>>
    PROVE  /\ up /\ Head(toClient) \in ToClient
           /\ InOK(Head(toClient)) /\ InClean(Head(toClient))
           /\ Once(Tail(toClient))
           /\ \A q \in Range(Tail(toClient)) :
                 /\ q \in ToClient /\ q \in Range(toClient) /\ InClean(q)
                 /\ Head(toClient).id # Own => q.id # Head(toClient).id
                 /\ Head(toClient).type = "PUBLISH" /\ q.type = "PUBLISH" =>
                       q.about # Head(toClient).about
<1> USE DEF IInv, TypeOK, ExchangeInv, PacketInv
<1>1. up /\ Head(toClient) \in ToClient /\ InOK(Head(toClient)) /\ InClean(Head(toClient))
  BY ClientTakes, RangeTail
<1>2. Once(Tail(toClient))
  BY OnceTail
<1>3. Apart(toClient, toBroker)
  BY ApartSymmetric
<1>4. ASSUME NEW q \in Range(Tail(toClient))
      PROVE  /\ q \in ToClient /\ q \in Range(toClient) /\ InClean(q)
             /\ Head(toClient).id # Own => q.id # Head(toClient).id
             /\ Head(toClient).type = "PUBLISH" /\ q.type = "PUBLISH" =>
                   q.about # Head(toClient).about
  <2>1. q \in Range(toClient) /\ InClean(q)
    BY RangeTail
  <2>2. Head(toClient).id # Own => q.id # Head(toClient).id
    BY <1>3, ApartTail DEF Range
  <2>3. Head(toClient).type = "PUBLISH" /\ q.type = "PUBLISH" => q.about # Head(toClient).about
    BY OnceTail
  <2>4. q \in ToClient
    BY TailElements DEF Range
  <2>5. QED
    BY <2>1, <2>2, <2>3, <2>4
<1>5. QED
  BY <1>1, <1>2, <1>4

\* What the client writes.
LEMMA Written ==
    ASSUME IInv, PacketInv, NEW e \in ToBroker, Send(e),
           e.type = "PUBLISH" => \A q \in Range(toBroker) : q.type = "PUBLISH" => q.about # e.about
    PROVE  Once(toBroker') /\ Range(toBroker') \subseteq Range(toBroker) \cup {e}
<1> USE DEF IInv, TypeOK, PacketInv
<1>1. CASE up
  BY <1>1, OnceAppend, RangeAppend DEF Send
<1>2. CASE ~up
  BY <1>2 DEF Send
<1>3. QED
  BY <1>1, <1>2

\* What the broker writes.
LEMMA WrittenToClient ==
    ASSUME IInv, PacketInv, NEW e \in ToClient,
           e.type = "PUBLISH" => \A q \in Range(toClient) : q.type = "PUBLISH" => q.about # e.about
    PROVE  /\ Once(Append(toClient, e))
           /\ Range(Append(toClient, e)) \subseteq Range(toClient) \cup {e}
BY OnceAppend, RangeAppend DEF IInv, TypeOK, PacketInv

-----------------------------------------------------------------------------
(* Every step keeps the invariant, if sessions are clean. *)

LEMMA CleanInit == Init => CleanInv
BY DEF Init, CleanInv, HeldInv, MessageInv, InboundInv, PacketInv, Once, Range

\* publish(), subscribe() and unsubscribe()
LEMMA CleanApplication ==
    ASSUME IInv, CleanInv, Application PROVE CleanInv'
<1> USE DEF IInv, TypeOK, CleanInv
<1>1. ASSUME NEW m \in Messages, PublishQos0(m) \/ Publish(m) PROVE CleanInv'
  <2>1. PICK id \in Ids \cup {Own} :
            /\ Send(Packet("PUBLISH", id, m))
            /\ id = Own \/ (id = gmid /\ midToMessage[id] = None)
            /\ \A other \in Ids : other # id => midToMessage'[other] = midToMessage[other]
    BY <1>1 DEF PublishQos0, Publish, IdFree, clientVars
  <2> DEFINE e == Packet("PUBLISH", id, m)
  <2>2. e \in ToBroker /\ e.type = "PUBLISH" /\ e.id = id /\ e.about = m
    BY PacketTypes, PacketFields
  <2>3. Send(e)
    BY <2>1
  <2> HIDE DEF e
  <2>4. /\ m \notin issued /\ issued' = issued \cup {m}
        /\ published' = published \/ (Qos[m] = 0 /\ published' = published \cup {m})
        /\ UNCHANGED <<up, toClient, received, taken, held, stage, queued>>
    BY <1>1 DEF PublishQos0, Publish, brokerVars
  <2>5. \A q \in Range(toBroker) : q.type = "PUBLISH" => q.about # m
    BY <2>4 DEF PacketInv, OutClean
  <2>6. Once(toBroker') /\ Range(toBroker') \subseteq Range(toBroker) \cup {e}
    BY <2>2, <2>3, <2>5, Written
  <2>7. up => id \notin held
    BY <2>1, SessionAssumption DEF HeldInv, Ids, Own
  <2>8. HeldInv'
    BY <2>1, <2>4, <2>7 DEF HeldInv
  <2>9. MessageInv'
    BY <2>4 DEF MessageInv
  <2>10. InboundInv'
    BY <2>4 DEF InboundInv
  <2>11. PacketInv'
    <3>1. taken[m] = 0
      BY <2>4 DEF MessageInv
    <3>2. ASSUME NEW q \in Range(toBroker') PROVE OutClean(q)'
      <4>1. CASE up
        BY <2>2, <2>4, <2>6, <2>7, <3>1, <4>1 DEF PacketInv, OutClean
      <4>2. CASE ~up
        BY <2>3, <2>4, <4>2 DEF PacketInv, OutClean, Send
      <4>3. QED
        BY <4>1, <4>2
    <3>3. QED
      BY <2>4, <2>6, <3>2 DEF PacketInv, InClean
  <2>12. QED
    BY <2>8, <2>9, <2>10, <2>11
<1>2. ASSUME NEW t \in Topics, NEW type \in {"SUBSCRIBE", "UNSUBSCRIBE"}, Request(type, t)
      PROVE  CleanInv'
  <2>1. PICK id \in Ids : id = gmid
    OBVIOUS
  <2> DEFINE e == Packet(type, id, t)
  <2>2. e \in ToBroker /\ e.type = type
    BY PacketTypes, PacketFields
  <2>3. Send(e)
    BY <1>2, <2>1 DEF Request
  <2> HIDE DEF e
  <2>4. UNCHANGED <<up, toClient, midToMessage, appVars, brokerVars>>
    BY <1>2 DEF Request
  <2>5. Once(toBroker') /\ Range(toBroker') \subseteq Range(toBroker) \cup {e}
    BY <2>2, <2>3, Written
  <2>6. PacketInv'
    BY <2>2, <2>4, <2>5 DEF PacketInv, OutClean, InClean, appVars, brokerVars
  <2>7. HeldInv' /\ MessageInv' /\ InboundInv'
    BY <2>4 DEF HeldInv, MessageInv, InboundInv, appVars, brokerVars
  <2>8. QED
    BY <2>6, <2>7
<1>3. QED
  BY <1>1, <1>2 DEF Application

\* Connections open and end, and clients are replaced.
LEMMA CleanConnections ==
    ASSUME CleanSessions \subseteq {TRUE}, IInv, CleanInv,
           (\E clean \in CleanSessions : Connect(clean)) \/ Lose \/ Replace
    PROVE  CleanInv'
<1> USE DEF IInv, TypeOK, CleanInv
<1>1. CASE \E clean \in CleanSessions : Connect(clean)
  <2>1. /\ held' = {} /\ queued' = {}
        /\ \A i \in Inbound : stage'[i] = "new" => stage[i] = "new"
        /\ UNCHANGED <<toBroker, toClient, clientVars, appVars, taken>>
        /\ \A i \in Inbound : stage'[i] = "sent" => i \notin queued'
    BY <1>1 DEF Connect
  <2>2. HeldInv' /\ MessageInv'
    BY <2>1 DEF HeldInv, MessageInv, appVars
  <2>3. InboundInv'
    BY <2>1 DEF InboundInv, appVars
  <2>4. PacketInv'
    BY <2>1 DEF PacketInv, OutClean, InClean, appVars
  <2>5. QED
    BY <2>2, <2>3, <2>4
<1>2. CASE Lose \/ Replace
  <2>1. /\ toBroker' = <<>> /\ toClient' = <<>> /\ up' = FALSE
        /\ UNCHANGED <<appVars, brokerVars>>
    BY <1>2 DEF Lose, Replace
  <2>2. HeldInv' /\ MessageInv'
    BY <2>1 DEF HeldInv, MessageInv, appVars, brokerVars
  <2>3. InboundInv' /\ PacketInv'
    BY <2>1 DEF InboundInv, PacketInv, Once, Range, appVars, brokerVars
  <2>4. QED
    BY <2>2, <2>3
<1>3. QED
  BY <1>1, <1>2

\* What becomes of a PUBLISH that the broker takes: it is the first time.
LEMMA FirstTaken ==
    ASSUME IInv, CleanInv, BrokerTakesPublish
    PROVE  LET p == Head(toBroker)
           IN  /\ p \in ToBroker /\ p.about \in Messages /\ p.about \in issued
               /\ taken[p.about] = 0
               /\ taken' = [taken EXCEPT ![p.about] = 1]
<1> DEFINE p == Head(toBroker)
<1>1. p \in ToBroker /\ OutOK(p) /\ OutClean(p) /\ p.type = "PUBLISH"
  BY TakenByBroker DEF BrokerTakesPublish, CleanInv
<1>2. p.about \in Messages /\ p.about \in issued /\ taken[p.about] = 0 /\ p.id \notin held
  BY <1>1 DEF OutOK, OutClean
<1>3. taken' = [taken EXCEPT ![p.about] = 1]
  BY <1>2 DEF BrokerTakesPublish, CountUp, IInv, TypeOK
<1>4. QED
  BY <1>1, <1>2, <1>3

\* The broker takes a packet of the client's.
LEMMA CleanBrokerTakes ==
    ASSUME IInv, CleanInv, BrokerTakes PROVE CleanInv'
<1> DEFINE p == Head(toBroker)
<1>1. /\ up /\ p \in ToBroker /\ OutOK(p) /\ OutClean(p) /\ toBroker' = Tail(toBroker)
      /\ Once(Tail(toBroker))
      /\ \A q \in Range(Tail(toBroker)) :
            /\ q \in ToBroker /\ OutClean(q)
            /\ p.id # Own => q.id # p.id
            /\ p.type = "PUBLISH" /\ q.type = "PUBLISH" => q.about # p.about
      /\ \A q \in Range(toClient) :
            q \in ToClient /\ InClean(q) /\ (p.id # Own => q.id # p.id)
  BY TakenByBroker DEF BrokerTakes, BrokerTakesPublish, BrokerTakesPubrel,
         BrokerTakesRequest, BrokerTakesAnswer, CleanInv
<1> HIDE DEF p
<1> USE DEF IInv, TypeOK, CleanInv
<1>2. UNCHANGED <<up, clientVars, appVars>>
  BY DEF BrokerTakes, BrokerTakesPublish, BrokerTakesPubrel, BrokerTakesRequest,
         BrokerTakesAnswer
<1>3. Once(toBroker') /\ Range(toBroker') = Range(Tail(toBroker))
  BY <1>1
\* An answer in the exchange that the packet belongs to.
<1>4. ASSUME NEW type \in {"PUBACK", "PUBREC", "PUBCOMP", "SUBACK", "UNSUBACK"},
             p.id \in Ids, p.about \in Messages \cup Topics,
             toClient' = Append(toClient, Packet(type, p.id, p.about))
      PROVE  /\ Once(toClient')
             /\ \A q \in Range(toClient') :
                   \/ q \in Range(toClient)
                   \/ q.type = type /\ q.id = p.id /\ q.about = p.about
             /\ (stage' = stage /\ queued' = queued) => InboundInv'
  <2> DEFINE e == Packet(type, p.id, p.about)
  <2>1. e \in ToClient /\ e.type = type /\ e.id = p.id /\ e.about = p.about
    BY <1>4, PacketTypes, PacketFields
  <2>2. toClient' = Append(toClient, e)
    BY <1>4
  <2> HIDE DEF e
  <2>3. Once(toClient') /\ Range(toClient') \subseteq Range(toClient) \cup {e}
    BY <2>1, <2>2, WrittenToClient
  <2>4. (stage' = stage /\ queued' = queued) => InboundInv'
    BY <1>2, <2>1, <2>3 DEF InboundInv, appVars
  <2>5. QED
    BY <2>1, <2>3, <2>4
<1>5. ASSUME BrokerTakesPublish PROVE CleanInv'
  <2>1. /\ p.type = "PUBLISH" /\ p.about \in Messages /\ p.about \in issued
        /\ taken[p.about] = 0 /\ taken' = [taken EXCEPT ![p.about] = 1]
        /\ held' = IF Qos[p.about] = 2 THEN held \cup {p.id} ELSE held
        /\ UNCHANGED <<stage, queued>>
    BY <1>5, FirstTaken DEF BrokerTakesPublish, p
  <2>2. /\ p.id \in Ids \cup {Own}
        /\ p.id = Own <=> Qos[p.about] = 0
        /\ p.id # Own => midToMessage[p.id] = p.about
    BY <1>1, <2>1 DEF OutOK, ToBroker
  <2>3. HeldInv'
    BY <1>1, <1>2, <2>1, <2>2 DEF HeldInv, clientVars
  <2>4. MessageInv'
    BY <1>2, <2>1 DEF MessageInv, appVars
  <2>5. /\ Once(toClient') /\ InboundInv'
        /\ \A q \in Range(toClient') :
              \/ q \in Range(toClient)
              \/ q.type \in {"PUBACK", "PUBREC"} /\ q.about = p.about
    <3>1. CASE toClient' = toClient
      BY <1>2, <2>1, <3>1 DEF InboundInv, PacketInv, appVars
    <3>2. CASE Qos[p.about] = 1
      BY <1>4, <1>5, <2>1, <2>2, <3>2 DEF BrokerTakesPublish, p
    <3>3. CASE Qos[p.about] = 2
      BY <1>4, <1>5, <2>1, <2>2, <3>3 DEF BrokerTakesPublish, p
    <3>4. QED
      BY <1>5, <3>1, <3>2, <3>3 DEF BrokerTakesPublish, p
  <2>6. ASSUME NEW q \in Range(toBroker') PROVE OutClean(q)'
    BY <1>1, <1>2, <1>3, <2>1, <2>2, SessionAssumption DEF OutClean, ToBroker, appVars
  <2>7. ASSUME NEW q \in Range(toClient') PROVE InClean(q)'
    <3>1. CASE q \in Range(toClient)
      <4>1. q.about \in Messages \cup Topics \cup Inbound /\ InClean(q)
        BY <1>1, <3>1 DEF ToClient
      <4>2. q.type \in {"PUBACK", "PUBREC", "PUBCOMP"} => taken'[q.about] = 1
        BY <2>1, <4>1 DEF InClean
      <4>3. q.type = "PUBCOMP" => q.id \notin held'
        BY <1>1, <2>1, <2>2, <3>1, <4>1 DEF InClean
      <4>4. QED
        BY <1>2, <4>1, <4>2, <4>3 DEF InClean, appVars
    <3>2. CASE q.type \in {"PUBACK", "PUBREC"} /\ q.about = p.about
      BY <2>1, <3>2 DEF InClean
    <3>3. QED
      BY <2>5, <3>1, <3>2
  <2>8. QED
    BY <1>3, <2>3, <2>4, <2>5, <2>6, <2>7 DEF PacketInv
<1>6. ASSUME BrokerTakesPubrel PROVE CleanInv'
  <2>1. /\ p.type = "PUBREL" /\ held' = held \ {p.id}
        /\ toClient' = Append(toClient, Packet("PUBCOMP", p.id, p.about))
        /\ UNCHANGED <<taken, stage, queued>>
    BY <1>6 DEF BrokerTakesPubrel, p
  <2>2. p.about \in Messages /\ p.id \in Ids /\ taken[p.about] = 1
    BY <1>1, <2>1 DEF OutOK, OutClean, ToBroker, Own
  <2>3. HeldInv' /\ MessageInv'
    BY <1>2, <2>1 DEF HeldInv, MessageInv, clientVars, appVars
  <2>4. /\ Once(toClient') /\ InboundInv'
        /\ \A q \in Range(toClient') :
              \/ q \in Range(toClient)
              \/ q.type = "PUBCOMP" /\ q.id = p.id /\ q.about = p.about
    BY <1>4, <2>1, <2>2
  <2>5. \A q \in Range(toBroker') : OutClean(q)'
    BY <1>1, <1>2, <1>3, <2>1 DEF OutClean, appVars
  <2>6. \A q \in Range(toClient') : InClean(q)'
    BY <1>1, <1>2, <2>1, <2>2, <2>4 DEF InClean, appVars
  <2>7. QED
    BY <1>3, <2>3, <2>4, <2>5, <2>6 DEF PacketInv
<1>7. ASSUME BrokerTakesRequest PROVE CleanInv'
  <2>1. /\ p.id \in Ids /\ p.about \in Topics
        /\ UNCHANGED brokerVars
    BY <1>1, <1>7 DEF BrokerTakesRequest, p, OutOK, ToBroker, Own
  <2>2. PICK type \in {"SUBACK", "UNSUBACK"} :
            toClient' = Append(toClient, Packet(type, p.id, p.about))
    BY <1>7 DEF BrokerTakesRequest, p
  <2>3. /\ Once(toClient') /\ InboundInv'
        /\ \A q \in Range(toClient') : q \in Range(toClient) \/ q.type = type
    BY <1>4, <2>1, <2>2 DEF brokerVars
  <2>4. HeldInv' /\ MessageInv'
    BY <1>2, <2>1 DEF HeldInv, MessageInv, clientVars, appVars, brokerVars
  <2>5. \A q \in Range(toBroker') : OutClean(q)'
    BY <1>1, <1>2, <1>3, <2>1 DEF OutClean, appVars, brokerVars
  <2>6. \A q \in Range(toClient') : InClean(q)'
    BY <1>1, <1>2, <2>1, <2>3 DEF InClean, appVars, brokerVars
  <2>7. QED
    BY <1>3, <2>3, <2>4, <2>5, <2>6 DEF PacketInv
<1>8. ASSUME BrokerTakesAnswer PROVE CleanInv'
  <2>1. /\ p.about \in Inbound
        /\ UNCHANGED <<toClient, taken, held>>
        /\ \A i \in Inbound : stage'[i] = "new" => stage[i] = "new"
        /\ \A i \in Inbound : stage'[i] = "sent" /\ i \in queued' =>
                                  stage[i] = "sent" /\ i \in queued
    BY <1>1, <1>8 DEF BrokerTakesAnswer, p, ToBroker
  <2>2. HeldInv' /\ MessageInv'
    BY <1>2, <2>1 DEF HeldInv, MessageInv, clientVars, appVars
  <2>3. InboundInv'
    BY <1>2, <2>1 DEF InboundInv, appVars
  <2>4. PacketInv'
    BY <1>1, <1>2, <1>3, <2>1 DEF PacketInv, OutClean, InClean, appVars
  <2>5. QED
    BY <2>2, <2>3, <2>4
<1>9. QED
  BY <1>5, <1>6, <1>7, <1>8 DEF BrokerTakes

\* The broker's own messages.
LEMMA CleanBrokerSends ==
    ASSUME IInv, CleanInv, NEW i \in Inbound, BrokerAccepts(i) \/ BrokerSends(i)
    PROVE  CleanInv'
<1> USE DEF IInv, TypeOK, CleanInv
<1>1. CASE BrokerAccepts(i)
  <2>1. HeldInv' /\ MessageInv' /\ PacketInv'
    BY <1>1 DEF BrokerAccepts, HeldInv, MessageInv, PacketInv, OutClean, InClean,
                clientVars, appVars
  <2>2. InboundInv'
    BY <1>1 DEF BrokerAccepts, InboundInv, appVars
  <2>3. QED
    BY <2>1, <2>2
<1>2. CASE BrokerSends(i)
  <2>1. PICK type \in {"PUBLISH", "PUBREL"} :
            /\ toClient' = Append(toClient, BrokerPacket(type, i))
            /\ type = "PUBLISH" <=> stage[i] = "sent"
    BY <1>2 DEF BrokerSends
  <2> DEFINE e == BrokerPacket(type, i)
  <2>2. e \in ToClient /\ e.type = type /\ e.about = i
    BY PacketTypes, PacketFields
  <2>3. toClient' = Append(toClient, e)
    BY <2>1
  <2> HIDE DEF e
  <2>4. /\ i \in queued /\ queued' = queued \ {i}
        /\ \A j \in Inbound : j # i => stage'[j] = stage[j]
        /\ stage'[i] # "new" \/ stage[i] = "new"
        /\ UNCHANGED <<up, toBroker, clientVars, appVars, taken, held>>
    BY <1>2 DEF BrokerSends
  <2>5. type = "PUBLISH" =>
            /\ received[i] = 0
            /\ \A q \in Range(toClient) : q.type = "PUBLISH" => q.about # i
    BY <2>1, <2>4 DEF InboundInv
  <2>6. Once(toClient') /\ Range(toClient') \subseteq Range(toClient) \cup {e}
    BY <2>2, <2>3, <2>5, WrittenToClient
  <2>7. HeldInv' /\ MessageInv'
    BY <2>4 DEF HeldInv, MessageInv, clientVars, appVars
  <2>8. PacketInv'
    BY <2>2, <2>4, <2>5, <2>6 DEF PacketInv, OutClean, InClean, appVars
  <2>9. InboundInv'
    BY <2>1, <2>2, <2>4, <2>6 DEF InboundInv, appVars
  <2>10. QED
    BY <2>7, <2>8, <2>9
<1>3. QED
  BY <1>1, <1>2

\* What becomes of an acknowledgement and of a PUBLISH that the client takes.
LEMMA FirstReceived ==
    ASSUME IInv, CleanInv, HandlePublish
    PROVE  LET p == Head(toClient)
           IN  /\ p \in ToClient /\ p.about \in Inbound /\ received[p.about] = 0
               /\ received' = [received EXCEPT ![p.about] = 1]
<1> DEFINE p == Head(toClient)
<1>1. p \in ToClient /\ InClean(p) /\ p.type = "PUBLISH"
  BY TakenByClient DEF HandlePublish, CleanInv
<1>2. p.about \in Inbound /\ received[p.about] = 0
  BY <1>1 DEF InClean, ToClient
<1>3. received' = [received EXCEPT ![p.about] = 1]
  BY <1>2 DEF HandlePublish, CountUp, IInv, TypeOK
<1>4. QED
  BY <1>1, <1>2, <1>3

LEMMA ConfirmedWasTaken ==
    ASSUME IInv, CleanInv, HandlePubackPubcomp
    PROVE  LET p == Head(toClient)
           IN  /\ p.id \in Ids /\ midToMessage[p.id] = p.about
               /\ p.about \in Messages /\ taken[p.about] = 1
               /\ published' = published \cup {p.about}
<1> DEFINE p == Head(toClient)
<1>1. p \in ToClient /\ InOK(p) /\ InClean(p) /\ p.type \in {"PUBACK", "PUBCOMP"}
  BY TakenByClient DEF HandlePubackPubcomp, CleanInv
<1>2. p.id \in Ids /\ p.about \in Messages /\ midToMessage[p.id] = p.about /\ taken[p.about] = 1
  BY <1>1 DEF InOK, InClean, ToClient
<1>3. QED
  BY <1>2 DEF HandlePubackPubcomp

\* onNetworkReceived()
LEMMA CleanHandle ==
    ASSUME IInv, CleanInv, Handle PROVE CleanInv'
<1> DEFINE p == Head(toClient)
<1>1. /\ up /\ p \in ToClient /\ InOK(p) /\ InClean(p) /\ toClient' = Tail(toClient)
      /\ Once(Tail(toClient))
      /\ \A q \in Range(Tail(toClient)) :
            /\ q \in ToClient /\ q \in Range(toClient) /\ InClean(q)
            /\ p.id # Own => q.id # p.id
            /\ p.type = "PUBLISH" /\ q.type = "PUBLISH" => q.about # p.about
  BY TakenByClient DEF Handle, HandlePubackPubcomp, HandlePubrec, HandleSubackUnsuback,
         HandlePublish, HandlePubrel, CleanInv
<1> HIDE DEF p
<1> USE DEF IInv, TypeOK, CleanInv
<1>2. UNCHANGED <<up, gmid, issued, brokerVars>>
  BY DEF Handle, HandlePubackPubcomp, HandlePubrec, HandleSubackUnsuback, HandlePublish,
         HandlePubrel, clientVars, appVars
<1>3. Once(toClient') /\ Range(toClient') = Range(Tail(toClient))
  BY <1>1
<1>4. ASSUME NEW type \in {"PUBACK", "PUBREC", "PUBCOMP", "PUBREL"}, NEW id, NEW about,
             Packet(type, id, about) \in ToBroker, Send(Packet(type, id, about)),
             type = "PUBREL" => taken[about] = 1
      PROVE  Once(toBroker') /\ \A q \in Range(toBroker') : OutClean(q)'
  <2> DEFINE e == Packet(type, id, about)
  <2>1. e \in ToBroker /\ e.type = type /\ e.about = about /\ Send(e)
    BY <1>4, PacketFields
  <2> HIDE DEF e
  <2>2. Once(toBroker') /\ Range(toBroker') \subseteq Range(toBroker) \cup {e}
    BY <2>1, Written
  <2>3. QED
    BY <1>2, <1>4, <2>1, <2>2 DEF PacketInv, OutClean, brokerVars
<1>5. ASSUME received' = received PROVE InboundInv' /\ \A q \in Range(toClient') : InClean(q)'
  BY <1>1, <1>2, <1>3, <1>5 DEF InboundInv, InClean, brokerVars
<1>6. ASSUME HandlePubackPubcomp PROVE CleanInv'
  <2>1. /\ p.type \in {"PUBACK", "PUBCOMP"}
        /\ midToMessage' = [midToMessage EXCEPT ![p.id] = None]
        /\ UNCHANGED <<toBroker, received>>
    BY <1>6 DEF HandlePubackPubcomp, p
  <2>2. /\ p.id \in Ids /\ midToMessage[p.id] = p.about
        /\ p.about \in Messages /\ taken[p.about] = 1
        /\ published' = published \cup {p.about}
    BY <1>6, ConfirmedWasTaken DEF p
  <2>3. p.id \notin held
    BY <1>1, <2>1, <2>2 DEF InOK, InClean, HeldInv
  <2>4. HeldInv'
    BY <1>2, <2>1, <2>2, <2>3 DEF HeldInv, brokerVars
  <2>5. MessageInv'
    BY <1>2, <2>2 DEF MessageInv, brokerVars
  <2>6. PacketInv'
    BY <1>2, <1>3, <1>5, <2>1 DEF PacketInv, OutClean, brokerVars
  <2>7. QED
    BY <1>5, <2>1, <2>4, <2>5, <2>6
<1>7. ASSUME HandlePubrec PROVE CleanInv'
  <2>1. /\ p.type = "PUBREC" /\ Send(Packet("PUBREL", p.id, p.about))
        /\ UNCHANGED <<clientVars, appVars>>
    BY <1>7 DEF HandlePubrec, p
  <2>2. Packet("PUBREL", p.id, p.about) \in ToBroker /\ taken[p.about] = 1
    BY <1>1, <2>1, PacketTypes DEF InOK, InClean, ToClient
  <2>3. HeldInv' /\ MessageInv'
    BY <1>2, <2>1 DEF HeldInv, MessageInv, brokerVars, clientVars, appVars
  <2>4. received' = received
    BY <2>1 DEF appVars
  <2>5. QED
    BY <1>3, <1>4, <1>5, <2>1, <2>2, <2>3, <2>4 DEF PacketInv
<1>8. ASSUME HandleSubackUnsuback PROVE CleanInv'
  <2>1. UNCHANGED <<toBroker, midToMessage, published, received>>
    BY <1>8 DEF HandleSubackUnsuback, appVars
  <2>2. HeldInv' /\ MessageInv'
    BY <1>2, <2>1 DEF HeldInv, MessageInv, brokerVars
  <2>3. PacketInv'
    BY <1>2, <1>3, <1>5, <2>1 DEF PacketInv, OutClean, brokerVars
  <2>4. QED
    BY <1>5, <2>1, <2>2, <2>3
<1>9. ASSUME HandlePublish PROVE CleanInv'
  <2>1. /\ p.type = "PUBLISH" /\ p.about \in Inbound
        /\ received[p.about] = 0 /\ received' = [received EXCEPT ![p.about] = 1]
        /\ UNCHANGED <<midToMessage, published>>
    BY <1>9, FirstReceived DEF HandlePublish, clientVars, p
  <2>2. Once(toBroker') /\ \A q \in Range(toBroker') : OutClean(q)'
    <3>1. CASE toBroker' = toBroker
      BY <1>2, <3>1 DEF PacketInv, OutClean, brokerVars
    <3>2. ASSUME NEW type \in {"PUBACK", "PUBREC"}, Send(BrokerPacket(type, p.about))
          PROVE  Once(toBroker') /\ \A q \in Range(toBroker') : OutClean(q)'
      <4>1. Packet(type, Own, p.about) \in ToBroker /\ Send(Packet(type, Own, p.about))
        BY <2>1, <3>2, PacketTypes DEF BrokerPacket
      <4>2. QED
        BY <1>4, <4>1
    <3>3. QED
      BY <1>9, <3>1, <3>2 DEF HandlePublish, p
  <2>3. HeldInv' /\ MessageInv'
    BY <1>2, <2>1 DEF HeldInv, MessageInv, brokerVars
  <2>4. p \in Range(toClient)
    BY <1>9, RangeTail DEF HandlePublish, p
  <2>5. InboundInv'
    BY <1>1, <1>2, <1>3, <2>1, <2>4 DEF InboundInv, brokerVars
  <2>6. ASSUME NEW q \in Range(toClient') PROVE InClean(q)'
    <3>1. InClean(q) /\ q \in ToClient /\ (q.type = "PUBLISH" => q.about # p.about)
      BY <1>1, <1>3, <2>1
    <3>2. q.type = "PUBLISH" => received'[q.about] = 0
      BY <2>1, <3>1 DEF InClean, ToClient
    <3>3. QED
      BY <1>2, <3>1, <3>2 DEF InClean, brokerVars
  <2>7. QED
    BY <1>3, <2>2, <2>3, <2>5, <2>6 DEF PacketInv
<1>10. ASSUME HandlePubrel PROVE CleanInv'
  <2>1. p.type = "PUBREL" /\ UNCHANGED <<clientVars, appVars>>
    BY <1>10 DEF HandlePubrel, p
  <2>2. Packet("PUBCOMP", Own, p.about) \in ToBroker /\ Send(Packet("PUBCOMP", Own, p.about))
    BY <1>1, <1>10, PacketTypes DEF HandlePubrel, p, BrokerPacket, ToClient
  <2>3. HeldInv' /\ MessageInv'
    BY <1>2, <2>1 DEF HeldInv, MessageInv, brokerVars, clientVars, appVars
  <2>4. received' = received
    BY <2>1 DEF appVars
  <2>5. QED
    BY <1>3, <1>4, <1>5, <2>2, <2>3, <2>4 DEF PacketInv
<1>11. QED
  BY <1>6, <1>7, <1>8, <1>9, <1>10 DEF Handle

LEMMA CleanStep ==
    ASSUME CleanSessions \subseteq {TRUE}
    PROVE  IInv /\ CleanInv /\ [Next]_vars => CleanInv'
<1> SUFFICES ASSUME IInv, CleanInv, [Next]_vars PROVE CleanInv'
  OBVIOUS
<1>1. CASE UNCHANGED vars
  BY <1>1 DEF vars, clientVars, appVars, brokerVars, CleanInv, HeldInv, MessageInv, InboundInv,
              PacketInv, OutClean, InClean
<1>2. CASE Next
  BY <1>2, CleanApplication, CleanConnections, CleanBrokerTakes, CleanBrokerSends, CleanHandle
     DEF Next, ClientStep
<1>3. QED
  BY <1>1, <1>2

THEOREM CleanInvariance ==
    ASSUME CleanSessions \subseteq {TRUE}
    PROVE  Spec => []CleanInv
BY CleanInit, CleanStep, Invariance, PTL DEF Spec

\* With clean sessions, published() at QoS 1 and 2 means that the broker took the
\* message.
THEOREM PublishedTaken ==
    ASSUME CleanSessions \subseteq {TRUE}
    PROVE  Spec => []PublishedWasTaken
<1>1. CleanInv => PublishedWasTaken
  BY DEF CleanInv, MessageInv, PublishedWasTaken
<1>2. QED
  BY <1>1, CleanInvariance, PTL

-----------------------------------------------------------------------------
(* Every step takes, confirms or receives one message for the first time, or *)
(* none.                                                                     *)

LEMMA DeliveryInit == Init => DeliveryOf!Init
BY DEF Init, DeliveryOf!Init

LEMMA DeliveryStep ==
    ASSUME IInv, CleanInv, [Next]_vars PROVE [DeliveryOf!Next]_DeliveryOf!vars
<1> DEFINE confirmed == {m \in published : m # None /\ Qos[m] > 0}
<1> USE DEF IInv, TypeOK
<1>1. ASSUME UNCHANGED <<taken, received>>, confirmed' = confirmed
      PROVE  [DeliveryOf!Next]_DeliveryOf!vars
  BY <1>1 DEF DeliveryOf!vars
<1>2. ASSUME UNCHANGED <<taken, received, published>> PROVE [DeliveryOf!Next]_DeliveryOf!vars
  BY <1>1, <1>2
<1>3. ASSUME NEW m \in Messages, PublishQos0(m) PROVE [DeliveryOf!Next]_DeliveryOf!vars
  <2>1. published' = published \cup {m} /\ Qos[m] = 0 /\ UNCHANGED <<taken, received>>
    BY <1>3 DEF PublishQos0, brokerVars
  <2>2. confirmed' = confirmed
    BY <2>1
  <2>3. QED
    BY <1>1, <2>1, <2>2
<1>4. ASSUME BrokerTakesPublish PROVE [DeliveryOf!Next]_DeliveryOf!vars
  <2>1. PICK m \in Messages : taken[m] = 0 /\ taken' = [taken EXCEPT ![m] = 1]
    BY <1>4, FirstTaken
  <2>2. UNCHANGED <<published, received>>
    BY <1>4 DEF BrokerTakesPublish, appVars
  <2>3. DeliveryOf!Take(m)
    BY <2>1, <2>2 DEF DeliveryOf!Take
  <2>4. QED
    BY <2>3 DEF DeliveryOf!Next
<1>5. ASSUME HandlePubackPubcomp PROVE [DeliveryOf!Next]_DeliveryOf!vars
  <2>1. PICK m \in Messages : taken[m] = 1 /\ published' = published \cup {m}
    BY <1>5, ConfirmedWasTaken
  <2>2. UNCHANGED <<taken, received>>
    BY <1>5 DEF HandlePubackPubcomp, brokerVars
  <2>3. m # None
    BY SessionAssumption
  <2>4. CASE m \in published \/ Qos[m] = 0
    <3>1. confirmed' = confirmed
      BY <2>1, <2>4
    <3>2. QED
      BY <1>1, <2>2, <3>1
  <2>5. CASE m \notin published /\ Qos[m] # 0
    <3>1. Qos[m] > 0
      BY <2>5, SessionAssumption
    <3>2. m \notin confirmed /\ confirmed' = confirmed \cup {m}
      BY <2>1, <2>3, <2>5, <3>1
    <3>3. DeliveryOf!Confirm(m)
      BY <2>1, <2>2, <3>2 DEF DeliveryOf!Confirm
    <3>4. QED
      BY <3>3 DEF DeliveryOf!Next
  <2>6. QED
    BY <2>4, <2>5
<1>6. ASSUME HandlePublish PROVE [DeliveryOf!Next]_DeliveryOf!vars
  <2>1. PICK i \in Inbound : received[i] = 0 /\ received' = [received EXCEPT ![i] = 1]
    BY <1>6, FirstReceived
  <2>2. UNCHANGED <<taken, published>>
    BY <1>6 DEF HandlePublish, brokerVars
  <2>3. DeliveryOf!Receive(i)
    BY <2>1, <2>2 DEF DeliveryOf!Receive
  <2>4. QED
    BY <2>3 DEF DeliveryOf!Next
<1>7. CASE UNCHANGED vars
  BY <1>2, <1>7 DEF vars, appVars, brokerVars
<1>8. CASE Next
  <2>1. ASSUME NEW m \in Messages, Publish(m) PROVE UNCHANGED <<taken, received, published>>
    BY <2>1 DEF Publish, brokerVars
  <2>2. ASSUME NEW type, NEW t, Request(type, t) PROVE UNCHANGED <<taken, received, published>>
    BY <2>2 DEF Request, appVars, brokerVars
  <2>3. ASSUME (\E clean \in CleanSessions : Connect(clean)) \/ Lose \/ Replace
        PROVE  UNCHANGED <<taken, received, published>>
    BY <2>3 DEF Connect, Lose, Replace, appVars, brokerVars
  <2>4. ASSUME BrokerTakesPubrel \/ BrokerTakesRequest \/ BrokerTakesAnswer
        PROVE  UNCHANGED <<taken, received, published>>
    BY <2>4 DEF BrokerTakesPubrel, BrokerTakesRequest, BrokerTakesAnswer, appVars, brokerVars
  <2>5. ASSUME NEW i \in Inbound, BrokerAccepts(i) \/ BrokerSends(i)
        PROVE  UNCHANGED <<taken, received, published>>
    BY <2>5 DEF BrokerAccepts, BrokerSends, appVars
  <2>6. ASSUME HandlePubrec \/ HandleSubackUnsuback \/ HandlePubrel
        PROVE  UNCHANGED <<taken, received, published>>
    BY <2>6 DEF HandlePubrec, HandleSubackUnsuback, HandlePubrel, appVars, brokerVars
  <2>7. QED
    BY <1>2, <1>3, <1>4, <1>5, <1>6, <1>8, <2>1, <2>2, <2>3, <2>4, <2>5, <2>6
       DEF Next, ClientStep, Application, BrokerTakes, Handle
<1>9. QED
  BY <1>7, <1>8

\* With clean sessions, a session delivers as module Delivery says.
THEOREM Delivers ==
    ASSUME CleanSessions \subseteq {TRUE}
    PROVE  Spec => ImplementsDelivery
<1>1. Init => DeliveryOf!Init
  BY DeliveryInit
<1>2. IInv /\ CleanInv /\ [Next]_vars => [DeliveryOf!Next]_DeliveryOf!vars
  BY DeliveryStep
<1>3. QED
  BY <1>1, <1>2, Invariance, CleanInvariance, PTL DEF Spec, ImplementsDelivery, DeliveryOf!Spec
=============================================================================
