---------------------------- MODULE Router_proofs ----------------------------
(***************************************************************************)
(* Proofs about module Router, for any routes, filters and topics: what    *)
(* the broker holds subscribed for the routes, and that a message which    *)
(* the filter of a route matches reaches it with the right parameters.     *)
(*                                                                         *)
(* The second is about texts of every length.  The library's induction     *)
(* theorems take an operator and cannot be used here; what stands for them *)
(* is the rank of a place among places, a cardinality, and LeastOf.        *)
(***************************************************************************)
EXTENDS Router, SequenceTheorems, FiniteSetTheorems, TLAPS

-----------------------------------------------------------------------------
(* Subscriptions. *)

Subscriptions == [id : Ids, route : Routes]
Packets == [type : {"SUBSCRIBE", "UNSUBSCRIBE"}, filter : Filters]

\* The broker ends with filter f: it has it, or is sent it, and is not sent the
\* opposite after that.
EndsWith(held, w, f) ==
    \E i \in 0 .. Len(w) :
        /\ IF i = 0 THEN f \in held ELSE w[i] = Packet("SUBSCRIBE", f)
        /\ \A j \in (i + 1) .. Len(w) : w[j] # Packet("UNSUBSCRIBE", f)

\* What the broker makes of a packet.
Applied(p, held) ==
    IF p.type = "SUBSCRIBE" THEN held \cup {p.filter} ELSE held \ {p.filter}

\* The inductive invariant of the routes: what the broker ends with has every route's
\* filter that no other route took away, and in a clean session nothing that is no
\* route's nor the application's own.
BrokerEnds ==
    connected =>
        /\ \A f \in LiveFilters \ shed : EndsWith(brokerSubs, toBroker, f)
        /\ clean => \A f \in Filters : EndsWith(brokerSubs, toBroker, f) => f \in LiveFilters \cup OwnFilters

-----------------------------------------------------------------------------
(* Sequences. *)

LEMMA RemovedFacts ==
    ASSUME NEW S, NEW s \in Seq(S), NEW i \in DOMAIN s
    PROVE  /\ RemoveAt(s, i) \in Seq(S)
           /\ Len(s) \in Nat /\ i \in 1 .. Len(s)
           /\ DOMAIN RemoveAt(s, i) = 1 .. Len(s) - 1
           /\ \A j \in 1 .. Len(s) - 1 : RemoveAt(s, i)[j] = IF j < i THEN s[j] ELSE s[j + 1]
<1> DEFINE front == SubSeq(s, 1, i - 1)
           back == SubSeq(s, i + 1, Len(s))
<1>1. Len(s) \in Nat /\ i \in 1 .. Len(s)
  BY LenProperties
<1>2. front \in Seq(S) /\ Len(front) = i - 1 /\ \A j \in 1 .. i - 1 : front[j] = s[j]
  BY <1>1, SubSeqProperties
<1>3. /\ back \in Seq(S) /\ Len(back) = Len(s) - i
      /\ \A j \in 1 .. Len(s) - i : back[j] = s[i + j]
  BY <1>1, SubSeqProperties
<1> HIDE DEF front, back
<1>4. /\ front \o back \in Seq(S) /\ DOMAIN (front \o back) = 1 .. Len(s) - 1
      /\ \A j \in 1 .. i - 1 : (front \o back)[j] = s[j]
      /\ \A j \in i .. Len(s) - 1 : (front \o back)[j] = back[j - (i - 1)]
  <2>1. /\ front \o back \in Seq(S) /\ Len(front \o back) = Len(front) + Len(back)
        /\ \A j \in 1 .. Len(front) + Len(back) :
               (front \o back)[j] = IF j <= Len(front) THEN front[j] ELSE back[j - Len(front)]
    <3>1. front \in Seq(S) /\ back \in Seq(S)
      BY <1>2, <1>3
    <3>2. QED
      BY <3>1, ConcatProperties
  <2>2. DOMAIN (front \o back) = 1 .. Len(front \o back)
    BY <2>1, LenProperties
  <2>3. Len(front) = i - 1 /\ Len(front) + Len(back) = Len(s) - 1
    BY <1>1, <1>2, <1>3
  <2>4. \A j \in 1 .. i - 1 : (front \o back)[j] = s[j]
    BY <1>2, <2>1, <2>3
  <2>5. \A j \in i .. Len(s) - 1 : (front \o back)[j] = back[j - (i - 1)]
    <3>1. \A j \in i .. Len(s) - 1 : j \in 1 .. Len(s) - 1 /\ ~ (j <= i - 1)
      BY <1>1
    <3>2. QED
      BY <2>1, <2>3, <3>1
  <2>6. QED
    BY <2>1, <2>2, <2>3, <2>4, <2>5
<1>5. ASSUME NEW j \in i .. Len(s) - 1 PROVE (front \o back)[j] = s[j + 1]
  <2>1. j - (i - 1) \in 1 .. Len(s) - i /\ i + (j - (i - 1)) = j + 1
    BY <1>1
  <2>2. QED
    BY <1>3, <1>4, <2>1
<1>6. RemoveAt(s, i) = front \o back
  BY DEF RemoveAt, front, back
<1>7. ASSUME NEW j \in 1 .. Len(s) - 1
      PROVE  RemoveAt(s, i)[j] = IF j < i THEN s[j] ELSE s[j + 1]
  <2>1. CASE j < i
    <3>1. j \in 1 .. i - 1
      BY <1>1, <2>1
    <3>2. QED
      BY <1>4, <1>6, <2>1, <3>1
  <2>2. CASE ~(j < i)
    <3>1. j \in i .. Len(s) - 1
      BY <1>1, <2>2
    <3>2. QED
      BY <1>5, <1>6, <2>2, <3>1
  <2>3. QED
    BY <2>1, <2>2
<1>8. QED
  BY <1>1, <1>4, <1>6, <1>7

\* A packet sent last decides its filter, and no other.
LEMMA SentEnds ==
    ASSUME NEW w \in Seq(Packets), NEW p \in Packets, NEW held, NEW f
    PROVE  EndsWith(held, w \o <<p>>, f)
             <=> \/ p = Packet("SUBSCRIBE", f)
                 \/ EndsWith(held, w, f) /\ p # Packet("UNSUBSCRIBE", f)
<1> DEFINE v == w \o <<p>>
           n == Len(w)
<1>1. /\ n \in Nat /\ Len(v) = n + 1 /\ v[n + 1] = p
      /\ \A i \in 1 .. n : v[i] = w[i]
  BY LenProperties, ConcatProperties
<1> HIDE DEF v, n
<1>2. ASSUME p = Packet("SUBSCRIBE", f) PROVE EndsWith(held, v, f)
  <2>1. n + 1 \in 0 .. Len(v) /\ n + 1 # 0
    BY <1>1
  <2>2. \A j \in (n + 1 + 1) .. Len(v) : v[j] # Packet("UNSUBSCRIBE", f)
    BY <1>1
  <2>3. QED
    BY <1>1, <1>2, <2>1, <2>2 DEF EndsWith
<1>3. ASSUME EndsWith(held, w, f), p # Packet("UNSUBSCRIBE", f) PROVE EndsWith(held, v, f)
  <2>1. PICK i \in 0 .. n : /\ IF i = 0 THEN f \in held ELSE w[i] = Packet("SUBSCRIBE", f)
                            /\ \A j \in (i + 1) .. n : w[j] # Packet("UNSUBSCRIBE", f)
    BY <1>3 DEF EndsWith, n
  <2>2. i \in 0 .. Len(v) /\ (i # 0 => v[i] = w[i])
    BY <1>1
  <2>3. ASSUME NEW j \in (i + 1) .. Len(v) PROVE v[j] # Packet("UNSUBSCRIBE", f)
    <3>1. j \in (i + 1) .. n \/ j = n + 1
      BY <1>1
    <3>2. QED
      BY <1>1, <1>3, <2>1, <3>1
  <2>4. QED
    BY <2>1, <2>2, <2>3 DEF EndsWith
<1>4. ASSUME EndsWith(held, v, f), p # Packet("SUBSCRIBE", f)
      PROVE  EndsWith(held, w, f) /\ p # Packet("UNSUBSCRIBE", f)
  <2>1. PICK i \in 0 .. Len(v) : /\ IF i = 0 THEN f \in held ELSE v[i] = Packet("SUBSCRIBE", f)
                                 /\ \A j \in (i + 1) .. Len(v) : v[j] # Packet("UNSUBSCRIBE", f)
    BY <1>4 DEF EndsWith
  <2>2. i # n + 1
    BY <1>1, <1>4, <2>1
  <2>3. i \in 0 .. n /\ (i # 0 => v[i] = w[i]) /\ n + 1 \in (i + 1) .. Len(v)
    BY <1>1, <2>2
  <2>4. p # Packet("UNSUBSCRIBE", f)
    BY <1>1, <2>1, <2>3
  <2>5. \A j \in (i + 1) .. n : w[j] # Packet("UNSUBSCRIBE", f)
    BY <1>1, <2>1
  <2>6. QED
    BY <2>1, <2>3, <2>4, <2>5 DEF EndsWith, n
<1>5. QED
  BY <1>2, <1>3, <1>4 DEF v

\* A packet that reaches the broker changes nothing of what it ends with.
LEMMA TakenEnds ==
    ASSUME NEW w \in Seq(Packets), w # <<>>, NEW held, NEW f
    PROVE  EndsWith(Applied(Head(w), held), Tail(w), f) <=> EndsWith(held, w, f)
<1> DEFINE p == Head(w)
           v == Tail(w)
           n == Len(w)
           now == Applied(p, held)
<1>1. /\ n \in Nat \ {0} /\ p = w[1] /\ p \in Packets /\ Len(v) = n - 1
      /\ \A i \in 1 .. n - 1 : v[i] = w[i + 1]
  BY HeadTailProperties, LenProperties, EmptySeq, ElementOfSeq
<1>2. f \in now <=> \/ p = Packet("SUBSCRIBE", f)
                    \/ f \in held /\ p # Packet("UNSUBSCRIBE", f)
  BY <1>1 DEF Applied, Packets, Packet
<1> HIDE DEF p, v, n, now
<1>3. ASSUME EndsWith(held, w, f) PROVE EndsWith(now, v, f)
  <2>1. PICK i \in 0 .. n : /\ IF i = 0 THEN f \in held ELSE w[i] = Packet("SUBSCRIBE", f)
                            /\ \A j \in (i + 1) .. n : w[j] # Packet("UNSUBSCRIBE", f)
    BY <1>3 DEF EndsWith, n
  <2>2. ASSUME NEW k \in 0 .. n - 1, k >= i - 1, NEW j \in (k + 1) .. Len(v)
        PROVE  v[j] # Packet("UNSUBSCRIBE", f)
    <3>1. j \in 1 .. n - 1 /\ j + 1 \in (i + 1) .. n
      BY <1>1, <2>2
    <3>2. QED
      BY <1>1, <2>1, <3>1
  <2>3. CASE i \in {0, 1}
    <3>1. i = 0 => 1 \in (i + 1) .. n
      BY <1>1
    <3>2. f \in now
      BY <1>1, <1>2, <2>1, <2>3, <3>1
    <3>3. 0 \in 0 .. Len(v) /\ 0 \in 0 .. n - 1 /\ 0 >= i - 1
      BY <1>1, <2>3
    <3>4. QED
      BY <2>2, <3>2, <3>3 DEF EndsWith
  <2>4. CASE i \notin {0, 1}
    <3>1. /\ i - 1 \in 0 .. Len(v) /\ i - 1 \in 0 .. n - 1 /\ i - 1 >= i - 1
          /\ i - 1 # 0 /\ i # 0 /\ i - 1 \in 1 .. n - 1 /\ (i - 1) + 1 = i
      BY <1>1, <2>4
    <3>2. v[i - 1] = Packet("SUBSCRIBE", f)
      BY <1>1, <2>1, <3>1
    <3>3. QED
      BY <2>2, <3>1, <3>2 DEF EndsWith
  <2>5. QED
    BY <2>3, <2>4
<1>4. ASSUME EndsWith(now, v, f) PROVE EndsWith(held, w, f)
  <2>1. PICK i \in 0 .. Len(v) :
            /\ IF i = 0 THEN f \in now ELSE v[i] = Packet("SUBSCRIBE", f)
            /\ \A j \in (i + 1) .. Len(v) : v[j] # Packet("UNSUBSCRIBE", f)
    BY <1>4 DEF EndsWith
  <2>2. ASSUME NEW j \in (i + 2) .. n PROVE w[j] # Packet("UNSUBSCRIBE", f)
    <3>1. j - 1 \in (i + 1) .. Len(v) /\ j - 1 \in 1 .. n - 1 /\ (j - 1) + 1 = j
      BY <1>1
    <3>2. QED
      BY <1>1, <2>1, <3>1
  <2>3. CASE i # 0 \/ p = Packet("SUBSCRIBE", f)
    <3>1. i + 1 \in 0 .. n /\ i + 1 # 0 /\ (i + 1) + 1 = i + 2 /\ (i # 0 => i \in 1 .. n - 1)
      BY <1>1
    <3>2. w[i + 1] = Packet("SUBSCRIBE", f)
      BY <1>1, <2>1, <2>3, <3>1
    <3>3. QED
      BY <2>2, <3>1, <3>2 DEF EndsWith, n
  <2>4. CASE i = 0 /\ p # Packet("SUBSCRIBE", f)
    <3>1. f \in held /\ p # Packet("UNSUBSCRIBE", f)
      BY <1>2, <2>1, <2>4
    <3>2. ASSUME NEW j \in 1 .. n PROVE w[j] # Packet("UNSUBSCRIBE", f)
      <4>1. j = 1 \/ j \in (i + 2) .. n
        BY <2>4
      <4>2. QED
        BY <1>1, <2>2, <3>1, <4>1
    <3>3. 0 \in 0 .. n /\ 0 + 1 = 1
      BY <1>1
    <3>4. QED
      BY <3>1, <3>2, <3>3 DEF EndsWith, n
  <2>5. QED
    BY <2>3, <2>4
<1>5. QED
  BY <1>3, <1>4 DEF p, v, now

-----------------------------------------------------------------------------
(* Types. *)

\* A route that is destroyed: those that are left are the others.
LEMMA LeftFacts ==
    ASSUME RouterTypeOK, NEW i \in DOMAIN routes, routes' = RemoveAt(routes, i)
    PROVE  /\ routes' \in Seq(Subscriptions)
           /\ \A j, k \in DOMAIN routes' : routes'[j].id = routes'[k].id => j = k
           /\ LiveFilters \subseteq LiveFilters' \cup {Filter(routes[i].route)}
           /\ LiveFilters' \subseteq LiveFilters
           /\ LiveFilters' = {Filter(s.route) : s \in Range(routes')}
<1>1. routes \in Seq(Subscriptions)
  BY DEF RouterTypeOK, Subscriptions
<1>2. /\ routes' \in Seq(Subscriptions) /\ Len(routes) \in Nat /\ i \in 1 .. Len(routes)
      /\ DOMAIN routes = 1 .. Len(routes) /\ DOMAIN routes' = 1 .. Len(routes) - 1
      /\ \A j \in 1 .. Len(routes) - 1 : routes'[j] = IF j < i THEN routes[j] ELSE routes[j + 1]
  BY <1>1, RemovedFacts, LenProperties
<1>3. ASSUME NEW j \in DOMAIN routes', NEW k \in DOMAIN routes', routes'[j].id = routes'[k].id
      PROVE  j = k
  <2> DEFINE old(m) == IF m < i THEN m ELSE m + 1
  <2>1. old(j) \in DOMAIN routes /\ old(k) \in DOMAIN routes
        /\ routes'[j] = routes[old(j)] /\ routes'[k] = routes[old(k)]
    BY <1>2
  <2>2. old(j) = old(k)
    BY <1>3, <2>1 DEF RouterTypeOK
  <2>3. QED
    BY <1>2, <2>2
<1>4. ASSUME NEW j \in DOMAIN routes, j # i
      PROVE  \E k \in DOMAIN routes' : routes'[k] = routes[j]
  <2>1. CASE j < i
    <3>1. j \in DOMAIN routes' /\ routes'[j] = routes[j]
      BY <1>2, <2>1
    <3>2. QED
      BY <3>1
  <2>2. CASE j > i
    <3>1. j - 1 \in DOMAIN routes' /\ ~(j - 1 < i) /\ (j - 1) + 1 = j
      BY <1>2, <2>2
    <3>2. routes'[j - 1] = routes[j]
      BY <1>2, <3>1
    <3>3. QED
      BY <3>1, <3>2
  <2>3. QED
    BY <1>2, <1>4, <2>1, <2>2
<1>5. ASSUME NEW k \in DOMAIN routes' PROVE \E j \in DOMAIN routes : routes'[k] = routes[j]
  BY <1>2
<1>6. LiveFilters \subseteq LiveFilters' \cup {Filter(routes[i].route)}
  BY <1>4 DEF LiveFilters
<1>7. LiveFilters' \subseteq LiveFilters
  BY <1>5 DEF LiveFilters
<1>8. LiveFilters' = {Filter(s.route) : s \in Range(routes')}
  BY DEF LiveFilters, Range
<1>9. QED
  BY <1>2, <1>3, <1>6, <1>7, <1>8

\* Packets for the broker.
LEMMA SendFacts ==
    ASSUME toBroker \in Seq(Packets), connected \in BOOLEAN,
           NEW type \in {"SUBSCRIBE", "UNSUBSCRIBE"}, NEW f \in Filters,
           Send(<<Packet(type, f)>>)
    PROVE  /\ toBroker' \in Seq(Packets)
           /\ Packet(type, f) \in Packets
           /\ connected => toBroker' = toBroker \o <<Packet(type, f)>>
<1>1. Packet(type, f) \in Packets
  BY DEF Packet, Packets
<1>2. <<Packet(type, f)>> \in Seq(Packets)
  BY <1>1
<1>3. QED
  BY <1>1, <1>2, ConcatProperties DEF Send

LEMMA RouterTypeInit == RouterInit => RouterTypeOK
<1> SUFFICES ASSUME RouterInit PROVE RouterTypeOK
  OBVIOUS
<1>1. connected \in BOOLEAN /\ clean \in BOOLEAN /\ told.matched \in BOOLEAN
  BY DEF RouterInit, Untold
<1>2. routes \in Seq([id : Ids, route : Routes]) /\ \A i \in DOMAIN routes : FALSE
  BY DEF RouterInit
<1>3. emitting \in [topic : Topics \cup {<<>>}, to : Seq(Ids)]
  BY DEF RouterInit, NotEmitting
<1>4. QED
  BY <1>1, <1>2, <1>3 DEF RouterInit, RouterTypeOK, Untold

LEMMA RouterTypeStep == RouterTypeOK /\ [RouterNext]_routerVars => RouterTypeOK'
<1> SUFFICES ASSUME RouterTypeOK, [RouterNext]_routerVars PROVE RouterTypeOK'
  OBVIOUS
<1> USE DEF RouterTypeOK
<1>0. /\ Packets = [type : {"SUBSCRIBE", "UNSUBSCRIBE"}, filter : Filters]
      /\ Subscriptions = [id : Ids, route : Routes]
      /\ \A r \in Routes : Filter(r) \in Filters
      /\ routes \in Seq(Subscriptions) /\ toBroker \in Seq(Packets)
      /\ \A i \in DOMAIN routes : routes[i] \in Subscriptions
      /\ DOMAIN routes = 1 .. Len(routes) /\ Len(routes) \in Nat
  <2>1. routes \in Seq(Subscriptions) /\ toBroker \in Seq(Packets)
    BY DEF Packets, Subscriptions
  <2>2. \A i \in DOMAIN routes : routes[i] \in Subscriptions
    BY <2>1, ElementOfSeq, LenProperties
  <2>3. \A r \in Routes : Filter(r) \in Filters
    BY DEF Filters
  <2>4. DOMAIN routes = 1 .. Len(routes) /\ Len(routes) \in Nat
    BY <2>1, LenProperties
  <2>5. QED
    BY <2>1, <2>2, <2>3, <2>4 DEF Packets, Subscriptions
<1>1. ASSUME NEW id \in Ids, NEW r \in Routes, SubscribeRoute(id, r) PROVE RouterTypeOK'
  <2>1. [id |-> id, route |-> r] \in Subscriptions
    BY DEF Subscriptions
  <2>2. /\ routes' \in Seq(Subscriptions) /\ DOMAIN routes' = 1 .. Len(routes) + 1
        /\ routes'[Len(routes) + 1].id = id
        /\ \A i \in 1 .. Len(routes) : routes'[i] = routes[i] /\ routes[i].id # id
    <3>1. routes' = Append(routes, [id |-> id, route |-> r])
      BY <1>1 DEF SubscribeRoute
    <3>2. \A i \in 1 .. Len(routes) : routes[i].id # id
      BY <1>0, <1>1 DEF SubscribeRoute, RouteIds
    <3>3. /\ routes' \in Seq(Subscriptions) /\ Len(routes') = Len(routes) + 1
          /\ routes'[Len(routes) + 1] = [id |-> id, route |-> r]
          /\ \A i \in 1 .. Len(routes) : routes'[i] = routes[i]
      BY <1>0, <2>1, <3>1, AppendProperties
    <3>4. DOMAIN routes' = 1 .. Len(routes) + 1
      BY <3>3, LenProperties
    <3>5. QED
      BY <3>2, <3>3, <3>4
  <2>3. \A i, j \in DOMAIN routes' : routes'[i].id = routes'[j].id => i = j
    <3> SUFFICES ASSUME NEW i \in DOMAIN routes', NEW j \in DOMAIN routes',
                        routes'[i].id = routes'[j].id
                 PROVE  i = j
      OBVIOUS
    <3>1. i \in 1 .. Len(routes) \/ i = Len(routes) + 1
      BY <1>0, <2>2
    <3>2. j \in 1 .. Len(routes) \/ j = Len(routes) + 1
      BY <1>0, <2>2
    <3>3. CASE i \in 1 .. Len(routes) /\ j \in 1 .. Len(routes)
      BY <1>0, <2>2, <3>3
    <3>4. QED
      BY <2>2, <3>1, <3>2, <3>3
  <2>4. toBroker' \in Seq(Packets)
    BY <1>0, <1>1, SendFacts DEF SubscribeRoute
  <2>5. QED
    BY <1>0, <1>1, <2>2, <2>3, <2>4 DEF SubscribeRoute
<1>2. ASSUME NEW id \in Ids, DestroyRoute(id) PROVE RouterTypeOK'
  <2>1. PICK i \in DOMAIN routes :
            /\ routes' = RemoveAt(routes, i)
            /\ Send(<<Packet("UNSUBSCRIBE", Filter(routes[i].route))>>)
            /\ shed' \subseteq shed \cup {Filter(routes[i].route)}
    BY <1>2 DEF DestroyRoute
  <2>2. Filter(routes[i].route) \in Filters
    BY <1>0 DEF Subscriptions
  <2>3. toBroker' \in Seq(Packets)
    BY <1>0, <2>1, <2>2, SendFacts
  <2>4. /\ routes' \in Seq(Subscriptions)
        /\ \A j, k \in DOMAIN routes' : routes'[j].id = routes'[k].id => j = k
    BY <2>1, LeftFacts
  <2>5. QED
    BY <1>0, <1>2, <2>1, <2>2, <2>3, <2>4 DEF DestroyRoute
<1>3. CASE DeleteClient
  <2>1. connected' \in BOOLEAN
    BY <1>3 DEF DeleteClient
  <2>2. emitting' \in [topic : Topics \cup {<<>>}, to : Seq(Ids)]
    BY <1>3 DEF DeleteClient, NotEmitting
  <2>3. /\ routes' \in Seq([id : Ids, route : Routes]) /\ \A i \in DOMAIN routes' : FALSE
        /\ toBroker' \in Seq([type : {"SUBSCRIBE", "UNSUBSCRIBE"}, filter : Filters])
        /\ toClient' \in Seq(Topics)
    BY <1>3 DEF DeleteClient
  <2>4. QED
    BY <1>3, <2>1, <2>2, <2>3 DEF DeleteClient
<1>4. ASSUME NEW c \in CleanSessions, ClientConnected(c) PROVE RouterTypeOK'
  <2>1. connected' = TRUE
    BY <1>4 DEF ClientConnected
  <2>2. connected' \in BOOLEAN /\ clean' \in BOOLEAN
    BY <1>4, <2>1, RouterAssumption DEF ClientConnected
  <2>3. \A i \in 1 .. Len(routes) : Packet("SUBSCRIBE", Filter(routes[i].route)) \in Packets
    BY <1>0 DEF Packet, Packets, Subscriptions
  <2>4. toBroker' \in Seq(Packets)
    BY <1>0, <1>4, <2>3 DEF ClientConnected
  <2>5. brokerSubs' \subseteq Filters
    BY <1>4 DEF ClientConnected
  <2>6. QED
    BY <1>0, <1>4, <2>2, <2>4, <2>5 DEF ClientConnected
<1>5. CASE Received
  <2>1. Head(toClient) \in Topics /\ Tail(toClient) \in Seq(Topics)
    BY <1>5, HeadTailProperties DEF Received
  <2>2. \A i \in 1 .. Len(routes) : routes[i].id \in Ids
    BY <1>0 DEF Subscriptions
  <2>3. [i \in DOMAIN routes |-> routes[i].id] \in Seq(Ids)
    BY <1>0, <2>2
  <2>4. emitting' \in [topic : Topics \cup {<<>>}, to : Seq(Ids)]
    BY <1>5, <2>1, <2>3 DEF Received
  <2>5. QED
    BY <1>5, <2>1, <2>4 DEF Received
<1>6. CASE RouteMessage
  <2>1. emitting.topic \in Topics \cup {<<>>} /\ emitting.to \in Seq(Ids) /\ emitting.to # <<>>
    BY <1>6 DEF RouteMessage, Idle
  <2>2. Tail(emitting.to) \in Seq(Ids)
    BY <2>1, HeadTailProperties
  <2>3. emitting' \in [topic : Topics \cup {<<>>}, to : Seq(Ids)]
    <3>1. NotEmitting \in [topic : Topics \cup {<<>>}, to : Seq(Ids)]
      BY DEF NotEmitting
    <3>2. [emitting EXCEPT !.to = Tail(@)] \in [topic : Topics \cup {<<>>}, to : Seq(Ids)]
      BY <2>1, <2>2
    <3>3. QED
      BY <1>6, <3>1, <3>2 DEF RouteMessage
  <2>4. /\ told'.route \in Routes \cup {NoRoute} /\ told'.topic \in Topics \cup {<<>>}
        /\ told'.matched \in BOOLEAN
    <3>1. CASE told' = told
      BY <3>1
    <3>2. ASSUME NEW s \in Range(routes), NEW matched \in BOOLEAN, NEW params,
                 told' = [route |-> s.route, topic |-> emitting.topic, matched |-> matched,
                          params |-> params]
          PROVE  /\ told'.route \in Routes \cup {NoRoute} /\ told'.topic \in Topics \cup {<<>>}
                 /\ told'.matched \in BOOLEAN
      <4>1. s.route \in Routes
        BY <1>0 DEF Range, Subscriptions
      <4>2. told'.route = s.route /\ told'.topic = emitting.topic
        BY <3>2
      <4>3. told'.matched \in BOOLEAN
        BY <3>2, Zenon
      <4>4. QED
        BY <2>1, <4>1, <4>2, <4>3
    <3>3. QED
      BY <1>6, <3>1, <3>2 DEF RouteMessage
  <2>5. QED
    BY <1>6, <2>3, <2>4 DEF RouteMessage
<1>7. ASSUME NEW f \in OwnFilters, AppSubscribes(f) PROVE RouterTypeOK'
  <2>1. f \in Filters
    BY DEF Filters
  <2>2. toBroker' \in Seq(Packets)
    BY <1>0, <1>7, <2>1, SendFacts DEF AppSubscribes
  <2>3. QED
    BY <1>0, <1>7, <2>2 DEF AppSubscribes
<1>8. CASE ClientDisconnected
  <2>1. connected' \in BOOLEAN
    BY <1>8 DEF ClientDisconnected
  <2>2. /\ toBroker' \in Seq([type : {"SUBSCRIBE", "UNSUBSCRIBE"}, filter : Filters])
        /\ toClient' \in Seq(Topics)
    BY <1>8 DEF ClientDisconnected
  <2>3. QED
    BY <1>8, <2>1, <2>2 DEF ClientDisconnected
<1>9. CASE BrokerTakes
  <2>1. Head(toBroker) \in Packets /\ Tail(toBroker) \in Seq(Packets)
    BY <1>0, <1>9, HeadTailProperties DEF BrokerTakes
  <2>2. brokerSubs' \subseteq Filters
    BY <1>9, <2>1 DEF BrokerTakes, Packets
  <2>3. QED
    BY <1>0, <1>9, <2>1, <2>2 DEF BrokerTakes
<1>10. ASSUME NEW topic \in Topics, BrokerPublishes(topic) PROVE RouterTypeOK'
  <2>1. toClient' \in Seq(Topics)
    BY <1>10 DEF BrokerPublishes
  <2>2. QED
    BY <1>10, <2>1 DEF BrokerPublishes
<1>11. CASE UNCHANGED routerVars
  BY <1>11 DEF routerVars
<1>12. QED
  BY <1>1, <1>2, <1>3, <1>4, <1>5, <1>6, <1>7, <1>8, <1>9, <1>10, <1>11 DEF RouterNext

-----------------------------------------------------------------------------
(* What the broker ends with. *)

\* Steps that move no packet and no route.
LEMMA OthersKeepEnds ==
    ASSUME BrokerEnds,
           UNCHANGED <<connected, clean, routes, toBroker, brokerSubs, shed>>
    PROVE  BrokerEnds'
BY DEF BrokerEnds, LiveFilters

LEMMA BrokerEndsStep == RouterTypeOK /\ BrokerEnds /\ [RouterNext]_routerVars => BrokerEnds'
<1> SUFFICES ASSUME RouterTypeOK, BrokerEnds, [RouterNext]_routerVars PROVE BrokerEnds'
  OBVIOUS
<1>0. /\ toBroker \in Seq(Packets) /\ routes \in Seq(Subscriptions)
      /\ connected \in BOOLEAN
      /\ DOMAIN routes = 1 .. Len(routes) /\ Len(routes) \in Nat
      /\ \A i \in DOMAIN routes : Filter(routes[i].route) \in Filters
  <2>1. toBroker \in Seq(Packets) /\ routes \in Seq(Subscriptions) /\ connected \in BOOLEAN
    BY DEF RouterTypeOK, Packets, Subscriptions
  <2>2. \A i \in DOMAIN routes : routes[i] \in Subscriptions
    BY <2>1, ElementOfSeq, LenProperties
  <2>3. QED
    BY <2>1, <2>2, LenProperties DEF Subscriptions, Filters
<1>1. ASSUME NEW id \in Ids, NEW r \in Routes, SubscribeRoute(id, r), connected PROVE BrokerEnds'
  <2>1. Filter(r) \in Filters
    BY DEF Filters
  <2>2. /\ toBroker' = toBroker \o <<Packet("SUBSCRIBE", Filter(r))>>
        /\ Packet("SUBSCRIBE", Filter(r)) \in Packets
    BY <1>0, <1>1, <2>1, SendFacts DEF SubscribeRoute
  <2>3. ASSUME NEW f
        PROVE  EndsWith(brokerSubs', toBroker', f)
                 <=> f = Filter(r) \/ EndsWith(brokerSubs, toBroker, f)
    <3>1. EndsWith(brokerSubs', toBroker', f)
            <=> \/ Packet("SUBSCRIBE", Filter(r)) = Packet("SUBSCRIBE", f)
                \/ /\ EndsWith(brokerSubs, toBroker, f)
                   /\ Packet("SUBSCRIBE", Filter(r)) # Packet("UNSUBSCRIBE", f)
      BY <1>0, <1>1, <2>2, SentEnds DEF SubscribeRoute
    <3>2. /\ Packet("SUBSCRIBE", Filter(r)) # Packet("UNSUBSCRIBE", f)
          /\ Packet("SUBSCRIBE", Filter(r)) = Packet("SUBSCRIBE", f) <=> f = Filter(r)
      BY DEF Packet
    <3>3. QED
      BY <3>1, <3>2
  <2>4. LiveFilters' = LiveFilters \cup {Filter(r)}
    <3>1. /\ DOMAIN routes' = 1 .. Len(routes) + 1
          /\ routes'[Len(routes) + 1].route = r
          /\ \A i \in 1 .. Len(routes) : routes'[i] = routes[i]
      BY <1>0, <1>1, AppendProperties DEF SubscribeRoute
    <3>2. ASSUME NEW j \in DOMAIN routes' PROVE Filter(routes'[j].route) \in LiveFilters \cup {Filter(r)}
      <4>1. j \in 1 .. Len(routes) \/ j = Len(routes) + 1
        BY <1>0, <3>1
      <4>2. QED
        BY <1>0, <3>1, <4>1 DEF LiveFilters
    <3>3. ASSUME NEW j \in DOMAIN routes PROVE Filter(routes[j].route) \in LiveFilters'
      BY <1>0, <3>1 DEF LiveFilters
    <3>4. Filter(r) \in LiveFilters'
      BY <1>0, <3>1 DEF LiveFilters
    <3>5. QED
      BY <3>2, <3>3, <3>4 DEF LiveFilters
  <2>5. QED
    BY <1>1, <2>3, <2>4 DEF SubscribeRoute, BrokerEnds
<1>2. ASSUME NEW id \in Ids, DestroyRoute(id), connected PROVE BrokerEnds'
  <2>1. PICK i \in DOMAIN routes :
            /\ routes' = RemoveAt(routes, i)
            /\ Send(<<Packet("UNSUBSCRIBE", Filter(routes[i].route))>>)
            /\ shed' = IF \E s \in Range(routes') : Filter(s.route) = Filter(routes[i].route)
                       THEN shed \cup {Filter(routes[i].route)} ELSE shed
    BY <1>2 DEF DestroyRoute
  <2> DEFINE g == Filter(routes[i].route)
  <2>2. /\ LiveFilters \subseteq LiveFilters' \cup {g}
        /\ LiveFilters' \subseteq LiveFilters
        /\ LiveFilters' = {Filter(s.route) : s \in Range(routes')}
    BY <2>1, LeftFacts
  <2>3. g \in Filters
    BY <1>0
  <2> HIDE DEF g
  <2>4. shed \subseteq shed' /\ (g \in LiveFilters' => g \in shed')
    BY <2>1, <2>2 DEF g
  <2>5. toBroker' = toBroker \o <<Packet("UNSUBSCRIBE", g)>> /\ Packet("UNSUBSCRIBE", g) \in Packets
    BY <1>0, <1>2, <2>1, <2>3, SendFacts DEF g
  <2>6. ASSUME NEW f
        PROVE  EndsWith(brokerSubs', toBroker', f)
                 <=> f # g /\ EndsWith(brokerSubs, toBroker, f)
    <3>1. EndsWith(brokerSubs', toBroker', f)
            <=> \/ Packet("UNSUBSCRIBE", g) = Packet("SUBSCRIBE", f)
                \/ /\ EndsWith(brokerSubs, toBroker, f)
                   /\ Packet("UNSUBSCRIBE", g) # Packet("UNSUBSCRIBE", f)
      BY <1>0, <1>2, <2>5, SentEnds DEF DestroyRoute
    <3>2. /\ Packet("UNSUBSCRIBE", g) # Packet("SUBSCRIBE", f)
          /\ Packet("UNSUBSCRIBE", g) = Packet("UNSUBSCRIBE", f) <=> f = g
      BY DEF Packet
    <3>3. QED
      BY <3>1, <3>2
  <2>7. QED
    BY <1>2, <2>2, <2>4, <2>6 DEF DestroyRoute, BrokerEnds
<1>3. ASSUME NEW c \in CleanSessions, ClientConnected(c) PROVE BrokerEnds'
  <2>1. /\ LiveFilters' = LiveFilters /\ shed' = {} /\ clean' = c
        /\ brokerSubs' = IF c THEN {} ELSE brokerSubs
        /\ toBroker' = [i \in 1 .. Len(routes) |-> Packet("SUBSCRIBE", Filter(routes[i].route))]
    BY <1>0, <1>3 DEF ClientConnected, LiveFilters
  <2>2. /\ Len(toBroker') = Len(routes)
        /\ \A i \in 1 .. Len(routes) : toBroker'[i] = Packet("SUBSCRIBE", Filter(routes[i].route))
    BY <1>0, <2>1
  <2>3. ASSUME NEW i \in 1 .. Len(routes), NEW f PROVE toBroker'[i] # Packet("UNSUBSCRIBE", f)
    <3>1. toBroker'[i] = Packet("SUBSCRIBE", Filter(routes[i].route))
      BY <2>2
    <3>2. \A g : Packet("SUBSCRIBE", g) # Packet("UNSUBSCRIBE", f)
      BY DEF Packet
    <3>3. QED
      BY <3>1, <3>2
  <2>4. ASSUME NEW f \in LiveFilters PROVE EndsWith(brokerSubs', toBroker', f)
    <3>1. PICK i \in 1 .. Len(routes) : f = Filter(routes[i].route)
      BY <1>0 DEF LiveFilters
    <3>2. i \in 0 .. Len(routes) /\ i # 0 /\ \A j \in (i + 1) .. Len(routes) : j \in 1 .. Len(routes)
      BY <1>0
    <3>3. QED
      BY <2>2, <2>3, <3>1, <3>2 DEF EndsWith
  <2>5. ASSUME NEW f, c, EndsWith(brokerSubs', toBroker', f) PROVE f \in LiveFilters
    <3>1. PICK i \in 0 .. Len(routes) :
              IF i = 0 THEN f \in brokerSubs' ELSE toBroker'[i] = Packet("SUBSCRIBE", f)
      BY <2>2, <2>5 DEF EndsWith
    <3>2. i # 0 /\ i \in 1 .. Len(routes)
      BY <1>0, <2>1, <2>5, <3>1
    <3>3. Packet("SUBSCRIBE", Filter(routes[i].route)) = Packet("SUBSCRIBE", f)
      BY <2>2, <3>1, <3>2
    <3>4. QED
      BY <1>0, <3>2, <3>3 DEF Packet, LiveFilters
  <2>6. QED
    BY <2>1, <2>4, <2>5 DEF BrokerEnds
<1>4. ASSUME NEW f \in OwnFilters, AppSubscribes(f) PROVE BrokerEnds'
  <2>1. f \in Filters
    BY DEF Filters
  <2>2. /\ toBroker' = toBroker \o <<Packet("SUBSCRIBE", f)>> /\ connected
        /\ Packet("SUBSCRIBE", f) \in Packets
    BY <1>0, <1>4, <2>1, SendFacts DEF AppSubscribes
  <2>3. ASSUME NEW g
        PROVE  EndsWith(brokerSubs', toBroker', g)
                 <=> g = f \/ EndsWith(brokerSubs, toBroker, g)
    <3>1. EndsWith(brokerSubs', toBroker', g)
            <=> \/ Packet("SUBSCRIBE", f) = Packet("SUBSCRIBE", g)
                \/ /\ EndsWith(brokerSubs, toBroker, g)
                   /\ Packet("SUBSCRIBE", f) # Packet("UNSUBSCRIBE", g)
      BY <1>0, <1>4, <2>2, SentEnds DEF AppSubscribes
    <3>2. /\ Packet("SUBSCRIBE", f) # Packet("UNSUBSCRIBE", g)
          /\ Packet("SUBSCRIBE", f) = Packet("SUBSCRIBE", g) <=> g = f
      BY DEF Packet
    <3>3. QED
      BY <3>1, <3>2
  <2>4. QED
    BY <1>4, <2>2, <2>3 DEF AppSubscribes, BrokerEnds, LiveFilters
<1>5. CASE BrokerTakes
  <2>1. /\ toBroker' = Tail(toBroker) /\ toBroker # <<>>
        /\ brokerSubs' = Applied(Head(toBroker), brokerSubs)
    BY <1>5 DEF BrokerTakes, Applied
  <2>2. ASSUME NEW f
        PROVE  EndsWith(brokerSubs', toBroker', f) <=> EndsWith(brokerSubs, toBroker, f)
    BY <1>0, <2>1, TakenEnds
  <2>3. QED
    BY <1>5, <2>2 DEF BrokerTakes, BrokerEnds, LiveFilters
<1>6. ASSUME ~connected' PROVE BrokerEnds'
  BY <1>6 DEF BrokerEnds
<1>7. CASE \/ Received \/ RouteMessage \/ (\E topic \in Topics : BrokerPublishes(topic))
           \/ UNCHANGED routerVars
  <2>1. UNCHANGED <<connected, clean, routes, toBroker, brokerSubs, shed>>
    BY <1>7 DEF Received, RouteMessage, BrokerPublishes, routerVars
  <2>2. QED
    BY <2>1, OthersKeepEnds
<1>8. ASSUME NEW id \in Ids, ~connected,
             (\E r \in Routes : SubscribeRoute(id, r)) \/ DestroyRoute(id)
      PROVE  BrokerEnds'
  <2>1. connected' = connected
    BY <1>8, Zenon DEF SubscribeRoute, DestroyRoute
  <2>2. QED
    BY <1>6, <1>8, <2>1, Zenon
<1>9. CASE DeleteClient \/ ClientDisconnected
  BY <1>6, <1>9 DEF DeleteClient, ClientDisconnected
<1>10. QED
  BY <1>1, <1>2, <1>3, <1>4, <1>5, <1>7, <1>8, <1>9 DEF RouterNext

LEMMA RouterInvariance == RouterSpec => [](RouterTypeOK /\ BrokerEnds)
<1>1. RouterInit => BrokerEnds
  BY DEF RouterInit, BrokerEnds
<1>2. QED
  BY <1>1, RouterTypeInit, RouterTypeStep, BrokerEndsStep, PTL DEF RouterSpec

\* Every variable of Router stays in its range, and no subscription object is alive
\* twice.
THEOREM RouterTypeCorrect == RouterSpec => []RouterTypeOK
  BY RouterInvariance, PTL

\* With nothing on its way, what the broker ends with is what it has.
LEMMA SettledEnds ==
    ASSUME toBroker = <<>>, NEW f
    PROVE  EndsWith(brokerSubs, toBroker, f) <=> f \in brokerSubs
<1>1. Len(toBroker) = 0
  OBVIOUS
<1>2. QED
  BY <1>1 DEF EndsWith

\* Whatever the order in which routes are made and destroyed, connections come and go
\* and the broker takes the packets: every route alive has its filter at the broker in
\* the end, unless a destroyed one with the same filter took it away.
THEOREM RoutesSafe == RouterSpec => []RoutesAreSubscribed
<1>1. BrokerEnds => RoutesAreSubscribed
  BY SettledEnds DEF BrokerEnds, RoutesAreSubscribed, Settled
<1>2. QED
  BY <1>1, RouterInvariance, PTL

\* And in a clean session nothing stays at the broker that no route alive asked for.
THEOREM NothingLeftSafe == RouterSpec => []NothingLeftSubscribed
<1>1. RouterTypeOK /\ BrokerEnds => NothingLeftSubscribed
  BY SettledEnds DEF RouterTypeOK, BrokerEnds, NothingLeftSubscribed, Settled
<1>2. QED
  BY <1>1, RouterInvariance, PTL

-----------------------------------------------------------------------------
(* Places in a text, and their order. *)

AtMost(K, q) == {j \in K : j <= q}

\* How many of the places K come up to place q.
Rank(K, q) == Cardinality(AtMost(K, q))

LEMMA RankFacts ==
    ASSUME NEW K \in SUBSET Nat, IsFiniteSet(K)
    PROVE  /\ Cardinality(K) \in Nat
           /\ \A q \in Int : Rank(K, q) \in 0 .. Cardinality(K)
           /\ \A q \in Int : Rank(K, q + 1) = Rank(K, q) + (IF q + 1 \in K THEN 1 ELSE 0)
           /\ \A p, q \in Int : p <= q => Rank(K, p) <= Rank(K, q)
           /\ \A p \in Int, q \in K : p < q => Rank(K, p) < Rank(K, q)
<1>0. \A j \in K, p, q \in Int :
         /\ j \in Int
         /\ j <= q + 1 <=> j <= q \/ j = q + 1
         /\ p <= q /\ j <= p => j <= q
         /\ ~ (q + 1 <= q)
  OBVIOUS
<1>1. ASSUME NEW q \in Int
      PROVE  /\ IsFiniteSet(AtMost(K, q)) /\ Rank(K, q) \in 0 .. Cardinality(K)
             /\ AtMost(K, q) \in SUBSET K
  <2>1. AtMost(K, q) \in SUBSET K
    BY DEF AtMost
  <2>2. Cardinality(K) \in Nat
    BY FS_CardinalityType
  <2>3. IsFiniteSet(AtMost(K, q)) /\ Rank(K, q) <= Cardinality(K)
    BY <2>1, FS_Subset DEF Rank
  <2>4. Rank(K, q) \in Nat
    BY <2>3, FS_CardinalityType DEF Rank
  <2>5. QED
    BY <2>1, <2>2, <2>3, <2>4
<1>2. ASSUME NEW q \in Int PROVE Rank(K, q + 1) = Rank(K, q) + (IF q + 1 \in K THEN 1 ELSE 0)
  <2>1. CASE q + 1 \in K
    <3>1. AtMost(K, q + 1) = AtMost(K, q) \cup {q + 1}
      <4>1. \A j \in K : j <= q + 1 <=> j <= q \/ j = q + 1
        BY <1>0
      <4>2. q + 1 \in AtMost(K, q + 1)
        BY <2>1, <1>0, <4>1 DEF AtMost
      <4>3. QED
        BY <4>1, <4>2 DEF AtMost
    <3>2. q + 1 \notin AtMost(K, q)
      BY <1>0 DEF AtMost
    <3>3. QED
      BY <1>1, <2>1, <3>1, <3>2, FS_AddElement DEF Rank
  <2>2. CASE q + 1 \notin K
    <3>1. AtMost(K, q + 1) = AtMost(K, q)
      BY <1>0, <2>2 DEF AtMost
    <3>2. QED
      BY <1>1, <2>2, <3>1 DEF Rank
  <2>3. QED
    BY <2>1, <2>2
<1>3. ASSUME NEW p \in Int, NEW q \in Int, p <= q PROVE Rank(K, p) <= Rank(K, q)
  <2>1. AtMost(K, p) \in SUBSET AtMost(K, q)
    BY <1>0, <1>3 DEF AtMost
  <2>2. QED
    BY <1>1, <2>1, FS_Subset DEF Rank
<1>4. ASSUME NEW p \in Int, NEW q \in K, p < q PROVE Rank(K, p) < Rank(K, q)
  <2>1. q \in Int /\ q - 1 \in Int /\ p <= q - 1 /\ (q - 1) + 1 = q
    BY <1>4
  <2>2. Rank(K, p) <= Rank(K, q - 1)
    BY <1>3, <2>1
  <2>3. Rank(K, (q - 1) + 1) = Rank(K, q - 1) + 1
    BY <1>2, <2>1
  <2>4. Rank(K, p) \in Int /\ Rank(K, q - 1) \in Int
    BY <1>1, <2>1
  <2>5. QED
    BY <2>1, <2>2, <2>3, <2>4
<1>5. Cardinality(K) \in Nat
  BY FS_CardinalityType
<1>6. QED
  BY <1>1, <1>2, <1>3, <1>4, <1>5

\* The places of a text, and what is before and behind them.
LEMMA RankEnds ==
    ASSUME NEW n \in Nat, NEW K, K \subseteq 0 .. n
    PROVE  /\ K \subseteq Nat /\ IsFiniteSet(K)
           /\ Rank(K, n) = Cardinality(K)
           /\ 0 \notin K => Rank(K, 0) = 0
<1>1. K \subseteq Nat /\ IsFiniteSet(K)
  BY FS_BoundedSetOfNaturals
<1>2. AtMost(K, n) = K
  <2>1. \A j \in K : j <= n
    OBVIOUS
  <2>2. QED
    BY <2>1 DEF AtMost
<1>3. ASSUME 0 \notin K PROVE AtMost(K, 0) = {}
  <2>1. \A j \in K : ~ (j <= 0)
    BY <1>3
  <2>2. QED
    BY <2>1 DEF AtMost
<1>4. QED
  BY <1>1, <1>2, <1>3, FS_EmptySet DEF Rank

\* Each of the numbers 1 to the number of places is the rank of one place.
LEMMA NthFacts ==
    ASSUME NEW K \in SUBSET Nat, IsFiniteSet(K)
    PROVE  /\ Cardinality(K) \in Nat
           /\ \A m \in 1 .. Cardinality(K) : Nth(K, m) \in K /\ Rank(K, Nth(K, m)) = m
           /\ \A i \in K : Rank(K, i) \in 1 .. Cardinality(K) /\ Nth(K, Rank(K, i)) = i
           /\ \A l, m \in 1 .. Cardinality(K) : l < m => Nth(K, l) < Nth(K, m)
<1> DEFINE N == 1 .. Cardinality(K)
           f == [i \in K |-> Rank(K, i)]
<1>1. Cardinality(K) \in Nat
  BY RankFacts
<1>2. ASSUME NEW i \in K PROVE Rank(K, i) \in N
  <2>1. i \in Int /\ i - 1 \in Int /\ i - 1 < i
    OBVIOUS
  <2>2. Rank(K, i) \in 0 .. Cardinality(K) /\ Rank(K, i - 1) \in 0 .. Cardinality(K)
    BY <2>1, RankFacts
  <2>3. Rank(K, i - 1) < Rank(K, i)
    BY <2>1, RankFacts
  <2>4. QED
    BY <1>1, <2>2, <2>3
<1>3. ASSUME NEW i \in K, NEW j \in K, i < j PROVE Rank(K, i) < Rank(K, j)
  BY <1>3, RankFacts
<1>4. \A i, j \in K : Rank(K, i) = Rank(K, j) => i = j
  <2> SUFFICES ASSUME NEW i \in K, NEW j \in K, Rank(K, i) = Rank(K, j) PROVE i = j
    OBVIOUS
  <2>1. Rank(K, i) \in Int /\ Rank(K, j) \in Int /\ i \in Int /\ j \in Int
    BY <1>2
  <2>2. ~ (i < j) /\ ~ (j < i)
    BY <1>3, <2>1
  <2>3. QED
    BY <2>1, <2>2
<1>5. \A m \in N : \E i \in K : Rank(K, i) = m
  <2>1. IsFiniteSet(N) /\ Cardinality(N) = Cardinality(K)
    BY <1>1, FS_Interval
  <2>2. f \in [K -> N]
    BY <1>2
  <2>3. f \in Injection(K, N)
    BY <1>4, <2>2 DEF Injection, IsInjective
  <2>4. f \in Surjection(K, N)
    BY <2>1, <2>3, FS_Injection
  <2>5. QED
    BY <2>4 DEF Surjection
<1>6. ASSUME NEW m \in N PROVE Nth(K, m) \in K /\ Rank(K, Nth(K, m)) = m
  <2>1. \E i \in K : Cardinality({j \in K : j <= i}) = m
    BY <1>5 DEF Rank, AtMost
  <2>2. Nth(K, m) \in K /\ Cardinality({j \in K : j <= Nth(K, m)}) = m
    BY <2>1 DEF Nth
  <2>3. QED
    BY <2>2 DEF Rank, AtMost
<1>7. ASSUME NEW i \in K PROVE Nth(K, Rank(K, i)) = i
  BY <1>2, <1>4, <1>6
<1>8. ASSUME NEW l \in N, NEW m \in N, l < m PROVE Nth(K, l) < Nth(K, m)
  <2>1. /\ Nth(K, l) \in K /\ Rank(K, Nth(K, l)) = l
        /\ Nth(K, m) \in K /\ Rank(K, Nth(K, m)) = m
    BY <1>6
  <2>2. Nth(K, l) \in Int /\ Nth(K, m) \in Int /\ l \in Int /\ m \in Int
    <3>1. \A j \in K : j \in Int
      OBVIOUS
    <3>2. \A j \in 1 .. Cardinality(K) : j \in Int
      BY <1>1
    <3>3. l \in Int /\ m \in Int
      BY <3>2
    <3>4. QED
      BY <2>1, <3>1, <3>3
  <2>3. ~ (Nth(K, m) <= Nth(K, l))
    <3>1. SUFFICES ASSUME Nth(K, m) <= Nth(K, l) PROVE FALSE
      OBVIOUS
    <3>2. Rank(K, Nth(K, m)) <= Rank(K, Nth(K, l))
      BY <2>2, <3>1, RankFacts
    <3>3. QED
      BY <1>8, <2>1, <2>2, <3>2
  <2>4. QED
    BY <2>2, <2>3
<1>9. QED
  BY <1>1, <1>2, <1>6, <1>7, <1>8

\* Places that lie next to each other have ranks that do.
LEMMA RankRun ==
    ASSUME NEW K \in SUBSET Nat, IsFiniteSet(K), NEW p \in Nat, NEW q \in Nat, p <= q,
           (p + 1) .. q \subseteq K
    PROVE  Rank(K, q) = Rank(K, p) + (q - p)
<1>1. /\ AtMost(K, q) = AtMost(K, p) \cup ((p + 1) .. q)
      /\ AtMost(K, p) \cap ((p + 1) .. q) = {}
  <2>1. \A j \in K : j <= q <=> j <= p \/ j \in (p + 1) .. q
    OBVIOUS
  <2>2. \A j \in K : ~ (j <= p /\ j \in (p + 1) .. q)
    OBVIOUS
  <2>3. QED
    BY <2>1, <2>2 DEF AtMost
<1>2. IsFiniteSet(AtMost(K, p))
  BY FS_Subset DEF AtMost
<1>3. IsFiniteSet((p + 1) .. q) /\ Cardinality((p + 1) .. q) = q - p
  <2>1. /\ IsFiniteSet((p + 1) .. q)
        /\ Cardinality((p + 1) .. q) = IF p + 1 > q THEN 0 ELSE q - (p + 1) + 1
    BY FS_Interval
  <2>2. QED
    BY <2>1
<1>4. Cardinality(AtMost(K, q)) = Cardinality(AtMost(K, p)) + (q - p) - Cardinality({})
  BY <1>1, <1>2, <1>3, FS_Union
<1>5. Cardinality(AtMost(K, p)) \in Nat /\ Cardinality({}) = 0
  BY <1>2, FS_CardinalityType, FS_EmptySet
<1>6. QED
  BY <1>4, <1>5 DEF Rank

\* Places keep their order under an increasing function.
LEMMA NthImage ==
    ASSUME NEW A \in SUBSET Nat, IsFiniteSet(A), NEW g \in [A -> Nat],
           \A a, b \in A : a < b => g[a] < g[b]
    PROVE  LET B == {g[a] : a \in A}
           IN  /\ B \subseteq Nat /\ IsFiniteSet(B) /\ Cardinality(B) = Cardinality(A)
               /\ \A m \in 1 .. Cardinality(A) : Nth(B, m) = g[Nth(A, m)]
<1> DEFINE B == {g[a] : a \in A}
<1>1. \A a, b \in A : a <= b <=> g[a] <= g[b]
  <2> SUFFICES ASSUME NEW a \in A, NEW b \in A PROVE a <= b <=> g[a] <= g[b]
    OBVIOUS
  <2>1. a \in Nat /\ b \in Nat /\ g[a] \in Nat /\ g[b] \in Nat
    OBVIOUS
  <2>2. a < b => g[a] < g[b]
    OBVIOUS
  <2>3. b < a => g[b] < g[a]
    OBVIOUS
  <2>4. QED
    BY <2>1, <2>2, <2>3
<1>2. \A a, b \in A : g[a] = g[b] => a = b
  BY <1>1
<1>3. ASSUME NEW S \in SUBSET A
      PROVE  LET T == {g[a] : a \in S} IN IsFiniteSet(T) /\ Cardinality(T) = Cardinality(S)
  <2> DEFINE T == {g[a] : a \in S}
             h == [a \in S |-> g[a]]
  <2>1. IsFiniteSet(S)
    BY FS_Subset
  <2>2. h \in [S -> T] /\ \A t \in T : \E a \in S : h[a] = t
    OBVIOUS
  <2>3. h \in Surjection(S, T)
    BY <2>2 DEF Surjection
  <2>4. h \in Injection(S, T)
    BY <1>2, <2>2 DEF Injection, IsInjective
  <2>5. QED
    BY <2>1, <2>3, <2>4, FS_Surjection
<1>4. B \subseteq Nat /\ IsFiniteSet(B) /\ Cardinality(B) = Cardinality(A)
  BY <1>3
<1>5. ASSUME NEW i \in A PROVE Rank(B, g[i]) = Rank(A, i)
  <2>1. AtMost(B, g[i]) = {g[a] : a \in AtMost(A, i)}
    BY <1>1 DEF AtMost
  <2>2. AtMost(A, i) \in SUBSET A
    BY DEF AtMost
  <2>3. Cardinality({g[a] : a \in AtMost(A, i)}) = Cardinality(AtMost(A, i))
    BY <1>3, <2>2
  <2>4. QED
    BY <2>1, <2>3 DEF Rank
<1>6. ASSUME NEW m \in 1 .. Cardinality(A) PROVE Nth(B, m) = g[Nth(A, m)]
  <2>1. Nth(A, m) \in A /\ Rank(A, Nth(A, m)) = m
    BY NthFacts
  <2>2. g[Nth(A, m)] \in B /\ Rank(B, g[Nth(A, m)]) = m
    BY <1>5, <2>1
  <2> HIDE DEF B
  <2>3. \A i \in B : Nth(B, Rank(B, i)) = i
    BY <1>4, NthFacts
  <2>4. QED
    BY <2>2, <2>3
<1>7. QED
  BY <1>4, <1>6

\* A set of numbers that is not empty has a least one: what stands for induction here.
LEMMA LeastOf ==
    ASSUME NEW S \in SUBSET Nat, S # {}
    PROVE  \E n \in S : \A m \in S : n <= m
<1>1. PICK b \in S : TRUE
  OBVIOUS
<1> DEFINE K == AtMost(S, b)
<1>2. b \in Nat /\ \A j \in K : j \in 0 .. b
  BY DEF AtMost
<1>3. K \in SUBSET Nat /\ IsFiniteSet(K) /\ b \in K
  <2>1. b \in K
    BY <1>2 DEF AtMost
  <2>2. K \subseteq 0 .. b
    BY <1>2
  <2> HIDE DEF K
  <2>3. QED
    BY <1>2, <2>1, <2>2, RankEnds
<1> HIDE DEF K
<1>4. Rank(K, b) \in 1 .. Cardinality(K) /\ Cardinality(K) \in Nat
  BY <1>3, NthFacts
<1>5. 1 \in 1 .. Cardinality(K)
  BY <1>4
<1> DEFINE n == Nth(K, 1)
<1>6. n \in K /\ Rank(K, n) = 1
  BY <1>3, <1>5, NthFacts
<1> HIDE DEF n
<1>7. ASSUME NEW m \in K PROVE n <= m
  <2>1. m \in Int /\ n \in Int
    BY <1>3, <1>6
  <2>2. SUFFICES ASSUME m < n PROVE FALSE
    BY <2>1
  <2>3. Rank(K, m) < Rank(K, n)
    BY <1>3, <1>6, <2>1, <2>2, RankFacts
  <2>4. Rank(K, m) \in 1 .. Cardinality(K)
    BY <1>3, NthFacts
  <2>5. QED
    BY <1>4, <1>6, <2>3, <2>4
<1>8. ASSUME NEW m \in S PROVE n <= m
  <2>1. CASE m <= b
    BY <1>7, <2>1 DEF K, AtMost
  <2>2. CASE ~ (m <= b)
    <3>1. n <= b /\ m \in Int /\ b \in Int /\ n \in Int
      BY <1>2, <1>3, <1>6, <1>7
    <3>2. QED
      BY <2>2, <3>1
  <2>3. QED
    BY <2>1, <2>2
<1>9. n \in S
  BY <1>6 DEF K, AtMost
<1>10. QED
  BY <1>8, <1>9

-----------------------------------------------------------------------------
(* remove() *)

KeptPlaces(text, symbols) == {i \in DOMAIN text : text[i] \notin symbols}

LEMMA WithoutFacts ==
    ASSUME NEW S, NEW text \in Seq(S), NEW symbols
    PROVE  LET K == KeptPlaces(text, symbols)
               W == Without(text, symbols)
           IN  /\ K \in SUBSET Nat /\ IsFiniteSet(K) /\ 0 \notin K
               /\ K \subseteq 1 .. Len(text)
               /\ Cardinality(K) \in Nat
               /\ Rank(K, 0) = 0 /\ Rank(K, Len(text)) = Cardinality(K)
               /\ W \in Seq(S) /\ Len(W) = Cardinality(K) /\ DOMAIN W = 1 .. Cardinality(K)
               /\ \A n \in 1 .. Cardinality(K) : W[n] = text[Nth(K, n)]
               /\ \A i \in K : Rank(K, i) \in DOMAIN W /\ W[Rank(K, i)] = text[i]
<1> DEFINE K == KeptPlaces(text, symbols)
           W == Without(text, symbols)
<1>1. Len(text) \in Nat /\ DOMAIN text = 1 .. Len(text) /\ \A i \in DOMAIN text : text[i] \in S
  OBVIOUS
<1>2. K \subseteq 1 .. Len(text) /\ 0 \notin K /\ K \subseteq 0 .. Len(text)
  BY <1>1 DEF KeptPlaces
<1>3. W = [n \in 1 .. Cardinality(K) |-> text[Nth(K, n)]]
  BY DEF Without, KeptPlaces
<1> HIDE DEF W
<1>4. \A i \in K : text[i] \in S
  BY <1>1 DEF KeptPlaces
<1> HIDE DEF K
<1>5. K \in SUBSET Nat /\ IsFiniteSet(K) /\ Rank(K, Len(text)) = Cardinality(K) /\ Rank(K, 0) = 0
  BY <1>1, <1>2, RankEnds
<1>6. /\ Cardinality(K) \in Nat
      /\ \A m \in 1 .. Cardinality(K) : Nth(K, m) \in K
      /\ \A i \in K : Rank(K, i) \in 1 .. Cardinality(K) /\ Nth(K, Rank(K, i)) = i
  BY <1>5, NthFacts
<1>7. W \in [1 .. Cardinality(K) -> S]
  BY <1>3, <1>4, <1>6
<1>8. W \in Seq(S) /\ Len(W) = Cardinality(K) /\ DOMAIN W = 1 .. Cardinality(K)
  BY <1>6, <1>7
<1>9. \A n \in 1 .. Cardinality(K) : W[n] = text[Nth(K, n)]
  BY <1>3
<1>10. \A i \in K : Rank(K, i) \in DOMAIN W /\ W[Rank(K, i)] = text[i]
  BY <1>6, <1>8, <1>9
<1>11. QED
  BY <1>2, <1>5, <1>6, <1>8, <1>9, <1>10 DEF K, W

-----------------------------------------------------------------------------
(* Levels. *)

Slashes(text) == {i \in DOMAIN text : text[i] = "/"}
Cuts(text) == {0, Len(text) + 1} \cup Slashes(text)
Cut(text, i) == Nth(Cuts(text), i)

\* The level of place q, counted from 1; a slash begins one.
LevelOf(text, q) == Rank(Cuts(text), q)

LEMMA CutFacts ==
    ASSUME NEW S, NEW text \in Seq(S)
    PROVE  LET m == Cardinality(Slashes(text)) + 1
           IN  /\ m \in Nat \ {0}
               /\ Cuts(text) \in SUBSET Nat /\ IsFiniteSet(Cuts(text))
               /\ Cardinality(Cuts(text)) = m + 1
               /\ Cut(text, 1) = 0 /\ Cut(text, m + 1) = Len(text) + 1
               /\ \A i \in 1 .. m :
                     /\ Cut(text, i) \in 0 .. Len(text)
                     /\ Cut(text, i + 1) \in 1 .. (Len(text) + 1)
                     /\ Cut(text, i) < Cut(text, i + 1)
                     /\ i # m => Cut(text, i + 1) \in Slashes(text)
                     /\ i = m => Cut(text, i + 1) = Len(text) + 1
               /\ \A c \in Cuts(text) :
                     LevelOf(text, c) \in 1 .. (m + 1) /\ Cut(text, LevelOf(text, c)) = c
<1> DEFINE C == Cuts(text)
           m == Cardinality(Slashes(text)) + 1
           L == Len(text)
<1>1. L \in Nat /\ DOMAIN text = 1 .. L
  OBVIOUS
<1>2. Slashes(text) \subseteq 1 .. L
  BY <1>1 DEF Slashes
<1>3. IsFiniteSet(Slashes(text)) /\ Cardinality(Slashes(text)) \in Nat
  <2>1. IsFiniteSet(1 .. L)
    BY <1>1, FS_Interval
  <2>2. QED
    BY <1>2, <2>1, FS_Subset, FS_CardinalityType
<1>4. IsFiniteSet(C) /\ Cardinality(C) = m + 1
  <2>1. 0 \notin Slashes(text) /\ L + 1 \notin Slashes(text) \cup {0}
    BY <1>1, <1>2
  <2>2. /\ IsFiniteSet(Slashes(text) \cup {0})
        /\ Cardinality(Slashes(text) \cup {0}) = Cardinality(Slashes(text)) + 1
    BY <1>3, <2>1, FS_AddElement
  <2>3. /\ IsFiniteSet(Slashes(text) \cup {0} \cup {L + 1})
        /\ Cardinality(Slashes(text) \cup {0} \cup {L + 1}) = Cardinality(Slashes(text)) + 1 + 1
    BY <2>1, <2>2, FS_AddElement
  <2>4. Slashes(text) \cup {0} \cup {L + 1} = C
    BY DEF Cuts
  <2>5. QED
    BY <2>3, <2>4
<1>5. \A c \in C : c \in 0 .. (L + 1)
  BY <1>1, <1>2 DEF Cuts
<1>6. C \in SUBSET Nat /\ 0 \in C /\ L + 1 \in C
  <2>1. 0 \in C /\ L + 1 \in C
    BY DEF Cuts
  <2> HIDE DEF C
  <2>2. \A c \in C : c \in Nat
    BY <1>1, <1>5
  <2>3. QED
    BY <2>1, <2>2
<1>7. m \in Nat \ {0}
  BY <1>3
<1>8. \A c \in C : c \in Slashes(text) \/ c = 0 \/ c = L + 1
  BY DEF Cuts
<1> HIDE DEF C, m
<1>9. /\ \A i \in 1 .. (m + 1) : Nth(C, i) \in C
      /\ \A c \in C : Rank(C, c) \in 1 .. (m + 1) /\ Nth(C, Rank(C, c)) = c
      /\ \A i, j \in 1 .. (m + 1) : i < j => Nth(C, i) < Nth(C, j)
  BY <1>4, <1>6, NthFacts
<1>10. \A i \in 1 .. (m + 1) : Nth(C, i) \in 0 .. (L + 1)
  BY <1>5, <1>9
<1>11. Nth(C, 1) = 0
  <2>1. 1 \in 1 .. (m + 1) /\ Rank(C, 0) \in 1 .. (m + 1) /\ Nth(C, Rank(C, 0)) = 0
    BY <1>6, <1>7, <1>9
  <2>2. CASE 1 < Rank(C, 0)
    BY <1>1, <1>9, <1>10, <2>1, <2>2
  <2>3. CASE Rank(C, 0) = 1
    BY <2>1, <2>3
  <2>4. QED
    BY <1>7, <2>1, <2>2, <2>3
<1>12. Nth(C, m + 1) = L + 1
  <2>1. m + 1 \in 1 .. (m + 1) /\ Rank(C, L + 1) \in 1 .. (m + 1) /\ Nth(C, Rank(C, L + 1)) = L + 1
    BY <1>6, <1>7, <1>9
  <2>2. CASE Rank(C, L + 1) < m + 1
    <3>1. Nth(C, Rank(C, L + 1)) < Nth(C, m + 1)
      BY <1>9, <2>1, <2>2
    <3>2. QED
      BY <1>1, <1>10, <2>1, <3>1
  <2>3. CASE Rank(C, L + 1) = m + 1
    BY <2>1, <2>3
  <2>4. QED
    BY <1>7, <2>1, <2>2, <2>3
<1>13. ASSUME NEW i \in 1 .. m
       PROVE  /\ Nth(C, i) \in 0 .. L
              /\ Nth(C, i + 1) \in 1 .. (L + 1)
              /\ Nth(C, i) < Nth(C, i + 1)
              /\ i # m => Nth(C, i + 1) \in Slashes(text)
              /\ i = m => Nth(C, i + 1) = L + 1
  <2>1. i \in 1 .. (m + 1) /\ i + 1 \in 1 .. (m + 1) /\ i < i + 1
    BY <1>7
  <2>2. /\ Nth(C, i) < Nth(C, i + 1) /\ Nth(C, i) \in 0 .. (L + 1) /\ Nth(C, i + 1) \in 0 .. (L + 1)
        /\ Nth(C, i + 1) \in C
    BY <1>9, <1>10, <2>1
  <2>3. /\ Nth(C, i) \in 0 .. L /\ Nth(C, i + 1) \in 1 .. (L + 1)
        /\ Nth(C, i + 1) # 0
    BY <1>1, <2>2
  <2>4. ASSUME i # m PROVE Nth(C, i + 1) \in Slashes(text)
    <3>1. i + 1 < m + 1 /\ m + 1 \in 1 .. (m + 1)
      BY <1>7, <2>4
    <3>2. Nth(C, i + 1) < Nth(C, m + 1)
      BY <1>9, <2>1, <3>1
    <3>3. Nth(C, i + 1) # L + 1
      BY <1>1, <1>12, <3>2
    <3>4. QED
      BY <1>8, <2>2, <2>3, <3>3
  <2>5. QED
    BY <1>12, <2>2, <2>3, <2>4
<1>14. QED
  BY <1>4, <1>6, <1>7, <1>9, <1>11, <1>12, <1>13 DEF C, m, Cut, LevelOf

LEMMA LevelOfFacts ==
    ASSUME NEW S, NEW text \in Seq(S)
    PROVE  LET m == Cardinality(Slashes(text)) + 1
           IN  /\ LevelOf(text, 0) = 1
               /\ \A q \in 0 .. Len(text) :
                     /\ LevelOf(text, q) \in 1 .. m
                     /\ Cut(text, LevelOf(text, q)) <= q
                     /\ q < Cut(text, LevelOf(text, q) + 1)
               /\ \A q \in 1 .. Len(text) :
                     LevelOf(text, q) = LevelOf(text, q - 1) + (IF text[q] = "/" THEN 1 ELSE 0)
               /\ \A i \in 1 .. m, q \in 0 .. Len(text) :
                     Cut(text, i) <= q /\ q < Cut(text, i + 1) => LevelOf(text, q) = i
<1> DEFINE C == Cuts(text)
           m == Cardinality(Slashes(text)) + 1
           L == Len(text)
<1>1. L \in Nat /\ DOMAIN text = 1 .. L
  OBVIOUS
<1>2. /\ C \in SUBSET Nat /\ IsFiniteSet(C) /\ Cardinality(C) = m + 1 /\ m \in Nat \ {0}
      /\ Cut(text, 1) = 0 /\ Cut(text, m + 1) = L + 1
  BY CutFacts
<1>3. 0 \in C /\ L + 1 \in C /\ \A q \in 1 .. L : q \in C <=> text[q] = "/"
  BY <1>1 DEF Cuts, Slashes
<1>4. \A i \in 1 .. m : Cut(text, i) < Cut(text, i + 1)
  BY CutFacts
<1> HIDE DEF C, m
<1>5. ASSUME NEW j \in 1 .. (m + 1)
      PROVE  Cut(text, j) \in C /\ Cut(text, j) \in Int /\ Rank(C, Cut(text, j)) = j
  <2>1. Cut(text, j) \in C /\ Rank(C, Cut(text, j)) = j
    BY <1>2, NthFacts DEF Cut, C
  <2>2. \A c \in C : c \in Int
    BY <1>2
  <2>3. QED
    BY <2>1, <2>2
<1>6. 1 \in 1 .. (m + 1) /\ m + 1 \in 1 .. (m + 1)
  BY <1>2
<1>7. Rank(C, 0) = 1 /\ Rank(C, L + 1) = m + 1
  BY <1>2, <1>5, <1>6
<1>8. ASSUME NEW q \in 0 .. L
      PROVE  Rank(C, q) \in 1 .. m /\ Cut(text, Rank(C, q)) <= q /\ q < Cut(text, Rank(C, q) + 1)
  <2>1. q \in Int /\ 0 \in Int /\ 0 <= q /\ q < L + 1
    BY <1>1
  <2>2. Rank(C, 0) <= Rank(C, q) /\ Rank(C, q) < Rank(C, L + 1) /\ Rank(C, q) \in 0 .. (m + 1)
    BY <1>2, <1>3, <2>1, RankFacts
  <2>3. Rank(C, q) \in 1 .. m
    BY <1>2, <1>7, <2>2
  <2>4. Rank(C, q) \in 1 .. (m + 1) /\ Rank(C, q) + 1 \in 1 .. (m + 1)
    BY <1>2, <2>3
  <2>5. Cut(text, Rank(C, q)) <= q
    <3>1. SUFFICES ASSUME q < Cut(text, Rank(C, q)) PROVE FALSE
      BY <1>5, <2>1, <2>4
    <3>2. Rank(C, q) < Rank(C, Cut(text, Rank(C, q)))
      BY <1>2, <1>5, <2>1, <2>4, <3>1, RankFacts
    <3>3. QED
      BY <1>5, <2>3, <2>4, <3>2
  <2>6. q < Cut(text, Rank(C, q) + 1)
    <3>1. SUFFICES ASSUME Cut(text, Rank(C, q) + 1) <= q PROVE FALSE
      BY <1>5, <2>1, <2>4
    <3>2. Rank(C, Cut(text, Rank(C, q) + 1)) <= Rank(C, q)
      BY <1>2, <1>5, <2>1, <2>4, <3>1, RankFacts
    <3>3. QED
      BY <1>5, <2>3, <2>4, <3>2
  <2>7. QED
    BY <2>3, <2>5, <2>6
<1>9. ASSUME NEW q \in 1 .. L PROVE Rank(C, q) = Rank(C, q - 1) + (IF text[q] = "/" THEN 1 ELSE 0)
  <2>1. q - 1 \in Int /\ (q - 1) + 1 = q
    BY <1>1
  <2>2. Rank(C, (q - 1) + 1) = Rank(C, q - 1) + (IF (q - 1) + 1 \in C THEN 1 ELSE 0)
    BY <1>2, <2>1, RankFacts
  <2>3. QED
    BY <1>3, <2>1, <2>2
<1>10. ASSUME NEW i \in 1 .. m, NEW q \in 0 .. L, Cut(text, i) <= q, q < Cut(text, i + 1)
       PROVE  Rank(C, q) = i
  <2>1. i \in 1 .. (m + 1) /\ i + 1 \in 1 .. (m + 1) /\ q \in Int
    BY <1>1, <1>2
  <2>2. Rank(C, Cut(text, i)) <= Rank(C, q) /\ Rank(C, q) < Rank(C, Cut(text, i + 1))
    BY <1>2, <1>5, <1>10, <2>1, RankFacts
  <2>3. Rank(C, q) \in Int /\ i \in Int
    BY <1>2, <1>8
  <2>4. QED
    BY <1>5, <2>1, <2>2, <2>3
<1>11. QED
  BY <1>7, <1>8, <1>9, <1>10 DEF C, m, LevelOf

\* What a level is, symbol by symbol.
LEMMA LevelsFacts ==
    ASSUME NEW S, NEW text \in Seq(S)
    PROVE  LET m == Cardinality(Slashes(text)) + 1
           IN  /\ Len(Levels(text)) = m /\ DOMAIN Levels(text) = 1 .. m
               /\ \A i \in 1 .. m :
                     /\ Levels(text)[i] = SubSeq(text, Cut(text, i) + 1, Cut(text, i + 1) - 1)
                     /\ Levels(text)[i] \in Seq(S)
                     /\ Len(Levels(text)[i]) = Cut(text, i + 1) - 1 - Cut(text, i)
                     /\ DOMAIN Levels(text)[i] = 1 .. (Cut(text, i + 1) - 1 - Cut(text, i))
                     /\ \A j \in 1 .. (Cut(text, i + 1) - 1 - Cut(text, i)) :
                           Levels(text)[i][j] = text[Cut(text, i) + j]
<1> DEFINE m == Cardinality(Slashes(text)) + 1
<1>1. Levels(text) = [n \in 1 .. m |-> SubSeq(text, Cut(text, n) + 1, Cut(text, n + 1) - 1)]
  BY DEF Levels, Slashes, Cuts, Cut
<1>2. m \in Nat
  BY CutFacts
<1>3. /\ Len(text) \in Nat /\ \A i \in 1 .. m : /\ Cut(text, i) \in 0 .. Len(text)
                         /\ Cut(text, i + 1) \in 1 .. (Len(text) + 1)
                         /\ Cut(text, i) < Cut(text, i + 1)
  BY CutFacts
<1> HIDE DEF m
<1>4. Len(Levels(text)) = m /\ DOMAIN Levels(text) = 1 .. m
  BY <1>1, <1>2
<1>5. ASSUME NEW i \in 1 .. m
      PROVE  LET l == SubSeq(text, Cut(text, i) + 1, Cut(text, i + 1) - 1)
                 k == Cut(text, i + 1) - 1 - Cut(text, i)
             IN  /\ l \in Seq(S) /\ Len(l) = k /\ DOMAIN l = 1 .. k
                 /\ \A j \in 1 .. k : l[j] = text[Cut(text, i) + j]
  <2>1. PICK a \in Int, b \in Int :
           /\ a = Cut(text, i) + 1 /\ b = Cut(text, i + 1) - 1
           /\ 1 <= a /\ a <= b + 1 /\ b <= Len(text)
    BY <1>3
  <2>2. /\ SubSeq(text, a, b) \in Seq(S)
        /\ Len(SubSeq(text, a, b)) = b - a + 1
        /\ \A j \in 1 .. (b - a + 1) : SubSeq(text, a, b)[j] = text[a + j - 1]
    <3>1. \A j \in a .. b : text[j] \in S
      BY <1>3, <2>1
    <3>2. Len(SubSeq(text, a, b)) = IF a <= b THEN b - a + 1 ELSE 0
      BY <3>1, SubSeqProperties
    <3>3. QED
      BY <2>1, <3>1, <3>2, SubSeqProperties
  <2>3. /\ Cut(text, i) \in Int /\ b - a + 1 = b - Cut(text, i)
        /\ DOMAIN SubSeq(text, a, b) = 1 .. Len(SubSeq(text, a, b))
    <3>1. Cut(text, i) \in Int
      BY <1>3
    <3>2. b - a + 1 = b - Cut(text, i)
      BY <2>1, <3>1
    <3>3. DOMAIN SubSeq(text, a, b) = 1 .. Len(SubSeq(text, a, b))
      BY <2>2
    <3>4. QED
      BY <3>1, <3>2, <3>3
  <2>4. \A j \in 1 .. (b - a + 1) : a + j - 1 = Cut(text, i) + j
    BY <2>1, <2>3
  <2>5. QED
    BY <2>1, <2>2, <2>3, <2>4
<1>6. QED
  BY <1>1, <1>4, <1>5 DEF m

-----------------------------------------------------------------------------
(* The filter of a route has the levels of the route. *)

\* The places of a route that its filter keeps, and where a cut of the route
\* comes to lie in the filter.
FilterKept(route) == KeptPlaces(route, Names)
MovedCut(route, c) ==
    IF c = Len(route) + 1 THEN Len(Filter(route)) + 1 ELSE Rank(FilterKept(route), c)

LEMMA FilterCuts ==
    ASSUME NEW S, NEW r \in Seq(S)
    PROVE  LET m == Cardinality(Slashes(r)) + 1
           IN  /\ Filter(r) \in Seq(S)
               /\ Cardinality(Slashes(Filter(r))) + 1 = m
               /\ \A i \in 1 .. (m + 1) : Cut(Filter(r), i) = MovedCut(r, Cut(r, i))
<1> DEFINE m == Cardinality(Slashes(r)) + 1
           K == FilterKept(r)
           W == Filter(r)
           C == Cuts(r)
           L == Len(r)
           g == [c \in C |-> MovedCut(r, c)]
<1>1. L \in Nat /\ DOMAIN r = 1 .. L /\ "/" \notin Names
  BY RouterAssumption
<1>2. /\ K \in SUBSET Nat /\ IsFiniteSet(K) /\ 0 \notin K /\ K \subseteq 1 .. L
      /\ Cardinality(K) \in Nat /\ Rank(K, 0) = 0 /\ Rank(K, L) = Cardinality(K)
      /\ W \in Seq(S) /\ Len(W) = Cardinality(K) /\ DOMAIN W = 1 .. Cardinality(K)
      /\ \A i \in K : Rank(K, i) \in DOMAIN W /\ W[Rank(K, i)] = r[i]
  BY WithoutFacts DEF Filter, FilterKept
<1>3. /\ m \in Nat \ {0} /\ C \in SUBSET Nat /\ IsFiniteSet(C) /\ Cardinality(C) = m + 1
      /\ Cardinality(Slashes(r)) + 1 = m
  BY CutFacts
<1>4. C = {0, L + 1} \cup Slashes(r) /\ Slashes(r) \subseteq K /\ Slashes(r) \subseteq 1 .. L
  BY <1>1 DEF Cuts, Slashes, FilterKept, KeptPlaces
<1>5. Slashes(W) = {Rank(K, c) : c \in Slashes(r)}
  <2>1. ASSUME NEW n \in Slashes(W) PROVE \E c \in Slashes(r) : n = Rank(K, c)
    <3>1. n \in 1 .. Cardinality(K) /\ W[n] = "/"
      BY <1>2, <2>1 DEF Slashes
    <3>2. Nth(K, n) \in K /\ Rank(K, Nth(K, n)) = n
      BY <1>2, <3>1, NthFacts
    <3>3. r[Nth(K, n)] = "/" /\ Nth(K, n) \in DOMAIN r
      BY <1>1, <1>2, <3>1, <3>2
    <3>4. QED
      BY <3>2, <3>3 DEF Slashes
  <2>2. ASSUME NEW c \in Slashes(r) PROVE Rank(K, c) \in Slashes(W)
    <3>1. c \in K /\ r[c] = "/"
      BY <1>4 DEF Slashes
    <3>2. QED
      BY <1>2, <3>1 DEF Slashes
  <2>3. QED
    BY <2>1, <2>2
<1> HIDE DEF W, K, C, m
<1>6. /\ \A c \in C : c \in Int /\ c \in 0 .. (L + 1)
      /\ \A c \in Slashes(r) : c # L + 1 /\ c \in Int
      /\ 0 # L + 1
  BY <1>1, <1>4
<1>7. /\ MovedCut(r, 0) = 0 /\ MovedCut(r, L + 1) = Len(W) + 1
      /\ \A c \in Slashes(r) : MovedCut(r, c) = Rank(K, c)
  BY <1>2, <1>6 DEF MovedCut, K, W
<1>8. Cuts(W) = {g[c] : c \in C}
  <2>1. \A c \in C : g[c] = MovedCut(r, c)
    OBVIOUS
  <2>2. Cuts(W) = {0, Len(W) + 1} \cup Slashes(W)
    BY DEF Cuts
  <2> HIDE DEF g
  <2>3. \A n \in Cuts(W) : \E c \in C : n = g[c]
    BY <1>4, <1>5, <1>7, <2>1, <2>2
  <2>4. \A c \in C : g[c] \in Cuts(W)
    BY <1>4, <1>5, <1>7, <2>1, <2>2
  <2>5. QED
    BY <2>3, <2>4
<1>9. \A c \in C : g[c] \in Nat
  <2>1. ASSUME NEW c \in C PROVE MovedCut(r, c) \in Nat
    <3>1. c = 0 \/ c = L + 1 \/ c \in Slashes(r)
      BY <1>4
    <3>2. \A e \in Slashes(r) : Rank(K, e) \in 0 .. Cardinality(K)
      BY <1>2, <1>6, RankFacts
    <3>3. QED
      BY <1>2, <1>7, <3>1, <3>2
  <2>2. QED
    BY <2>1
<1>10. ASSUME NEW a \in C, NEW b \in C, a < b PROVE g[a] < g[b]
  <2>1. a \in 0 .. (L + 1) /\ b \in 0 .. (L + 1) /\ a # L + 1 /\ b # 0
    BY <1>1, <1>6, <1>10
  <2>2. a = 0 \/ a \in Slashes(r)
    BY <1>4, <2>1
  <2>3. a \in Int /\ MovedCut(r, a) = Rank(K, a) /\ Rank(K, a) \in 0 .. Cardinality(K)
    BY <1>2, <1>7, <2>1, <2>2, RankFacts
  <2>4. CASE b = L + 1
    BY <1>2, <1>7, <2>3, <2>4
  <2>5. CASE b \in Slashes(r)
    <3>1. Rank(K, a) < Rank(K, b)
      BY <1>2, <1>4, <1>10, <2>3, <2>5, RankFacts
    <3>2. QED
      BY <1>7, <2>3, <2>5, <3>1
  <2>6. QED
    BY <1>4, <2>1, <2>4, <2>5
<1>11. g \in [C -> Nat]
  BY <1>9
<1>12. C \in SUBSET Nat /\ IsFiniteSet(C) /\ \A a, b \in C : a < b => g[a] < g[b]
  BY <1>3, <1>10
<1>13. \A c \in C : g[c] = MovedCut(r, c)
  OBVIOUS
<1> HIDE DEF g
<1>14. Cardinality({g[c] : c \in C}) = Cardinality(C)
  BY <1>11, <1>12, NthImage
<1>15. \A i \in 1 .. Cardinality(C) : Nth({g[c] : c \in C}, i) = g[Nth(C, i)]
  BY <1>11, <1>12, NthImage
<1>16. Cardinality(Slashes(W)) + 1 = m
  <2>1. /\ Cardinality(Cuts(W)) = Cardinality(Slashes(W)) + 1 + 1
        /\ Cardinality(Slashes(W)) + 1 \in Nat
    BY <1>2, CutFacts
  <2>2. QED
    BY <1>3, <1>8, <1>14, <2>1
<1>17. ASSUME NEW i \in 1 .. (m + 1) PROVE Cut(W, i) = MovedCut(r, Cut(r, i))
  <2>1. Nth(C, i) \in C
    BY <1>3, NthFacts
  <2>2. QED
    BY <1>3, <1>8, <1>13, <1>15, <2>1 DEF Cut, C
<1>18. QED
  BY <1>2, <1>16, <1>17 DEF W, m

\* A level without a wildcard is the same in the filter.
LEMMA FilterLevels ==
    ASSUME NEW S, NEW r \in Seq(S)
    PROVE  /\ Len(Levels(Filter(r))) = Len(Levels(r))
           /\ \A i \in 1 .. Len(Levels(r)) :
                 Plain(Levels(r)[i]) => Levels(Filter(r))[i] = Levels(r)[i]
<1> DEFINE m == Cardinality(Slashes(r)) + 1
           K == FilterKept(r)
           W == Filter(r)
           L == Len(r)
<1>1. L \in Nat /\ DOMAIN r = 1 .. L /\ ValueSymbols \cap Names = {}
  BY RouterAssumption
<1>2. /\ K \in SUBSET Nat /\ IsFiniteSet(K) /\ Cardinality(K) \in Nat /\ Rank(K, L) = Cardinality(K)
      /\ W \in Seq(S) /\ Len(W) = Cardinality(K)
      /\ \A i \in K : W[Rank(K, i)] = r[i]
  BY WithoutFacts DEF Filter, FilterKept
<1>3. Cardinality(Slashes(W)) + 1 = m
  BY FilterCuts
<1>4. Len(Levels(r)) = m /\ Len(Levels(W)) = m
  BY <1>2, <1>3, LevelsFacts
<1>5. \A i \in 1 .. m :
         /\ Len(Levels(W)[i]) = Cut(W, i + 1) - 1 - Cut(W, i)
         /\ Levels(W)[i] \in Seq(S)
         /\ \A j \in 1 .. (Cut(W, i + 1) - 1 - Cut(W, i)) : Levels(W)[i][j] = W[Cut(W, i) + j]
  <2> DEFINE k == Cardinality(Slashes(W)) + 1
  <2>1. W \in Seq(S) /\ k = m
    BY <1>2, <1>3
  <2> HIDE DEF W, m
  <2>2. \A i \in 1 .. k :
           /\ Len(Levels(W)[i]) = Cut(W, i + 1) - 1 - Cut(W, i)
           /\ Levels(W)[i] \in Seq(S)
           /\ \A j \in 1 .. (Cut(W, i + 1) - 1 - Cut(W, i)) : Levels(W)[i][j] = W[Cut(W, i) + j]
    BY <2>1, LevelsFacts
  <2> HIDE DEF k
  <2>3. QED
    BY <2>1, <2>2
<1>6. ASSUME NEW i \in 1 .. m, Plain(Levels(r)[i]) PROVE Levels(W)[i] = Levels(r)[i]
  <2> DEFINE a == Cut(r, i)
             b == Cut(r, i + 1)
  <2>1. /\ a \in 0 .. L /\ b \in 1 .. (L + 1) /\ a < b /\ m \in Nat
        /\ i # m => b \in Slashes(r)
        /\ i = m => b = L + 1
    BY CutFacts
  <2>2. i \in 1 .. (m + 1) /\ i + 1 \in 1 .. (m + 1)
    BY <2>1
  <2>3. Cut(W, i) = MovedCut(r, a) /\ Cut(W, i + 1) = MovedCut(r, b)
    BY <2>2, FilterCuts
  <2>4. /\ Len(Levels(r)[i]) = b - 1 - a /\ DOMAIN Levels(r)[i] = 1 .. (b - 1 - a)
        /\ Levels(r)[i] \in Seq(S)
        /\ \A j \in 1 .. (b - 1 - a) : Levels(r)[i][j] = r[a + j]
    BY LevelsFacts
  <2>5. /\ Len(Levels(W)[i]) = Cut(W, i + 1) - 1 - Cut(W, i)
        /\ Levels(W)[i] \in Seq(S)
        /\ \A j \in 1 .. (Cut(W, i + 1) - 1 - Cut(W, i)) : Levels(W)[i][j] = W[Cut(W, i) + j]
    BY <1>5
  <2> HIDE DEF W, m
  <2>6. (a + 1) .. (b - 1) \subseteq K
    <3>1. ASSUME NEW q \in (a + 1) .. (b - 1) PROVE q \in K
      <4>1. q \in Int /\ q - a \in 1 .. (b - 1 - a) /\ a + (q - a) = q /\ q \in 1 .. L
        BY <1>1, <2>1
      <4>2. Levels(r)[i][q - a] = r[a + (q - a)] /\ Levels(r)[i][q - a] \in ValueSymbols
        BY <1>6, <2>4, <4>1 DEF Plain
      <4>3. r[q] \notin Names
        BY <1>1, <4>1, <4>2
      <4>4. QED
        BY <1>1, <4>1, <4>3 DEF FilterKept, KeptPlaces
    <3> HIDE DEF K, a, b
    <3>2. QED
      BY <3>1
  <2>7. MovedCut(r, a) = Rank(K, a)
    BY <1>1, <2>1 DEF MovedCut
  <2> HIDE DEF K, a, b
  <2>8. ASSUME NEW q \in a .. (b - 1) PROVE Rank(K, q) = Rank(K, a) + (q - a)
    <3>1. q \in Nat /\ a \in Nat /\ a <= q /\ (a + 1) .. q \subseteq (a + 1) .. (b - 1)
      BY <1>1, <2>1
    <3>2. (a + 1) .. q \subseteq K
      BY <2>6, <3>1
    <3>3. QED
      BY <1>2, <3>1, <3>2, RankRun
  <2>9. MovedCut(r, b) - 1 = Rank(K, b - 1)
    <3>1. b - 1 \in Int /\ (b - 1) + 1 = b
      BY <1>1, <2>1
    <3>2. CASE i = m
      BY <1>1, <1>2, <2>1, <3>2 DEF MovedCut, W
    <3>3. CASE i # m
      <4>1. b \in Slashes(r) /\ b # L + 1
        BY <1>1, <2>1, <3>3 DEF Slashes
      <4>2. b \in K
        BY <4>1, RouterAssumption DEF Slashes, K, FilterKept, KeptPlaces
      <4>3. Rank(K, (b - 1) + 1) = Rank(K, b - 1) + (IF (b - 1) + 1 \in K THEN 1 ELSE 0)
        BY <1>2, <3>1, RankFacts
      <4>4. Rank(K, b - 1) \in 0 .. Cardinality(K)
        BY <1>2, <3>1, RankFacts
      <4>5. QED
        BY <1>2, <3>1, <4>1, <4>2, <4>3, <4>4 DEF MovedCut, K
    <3>4. QED
      BY <3>2, <3>3
  <2>10. a \in Int /\ b \in Int /\ Rank(K, a) \in 0 .. Cardinality(K) /\ b - 1 \in a .. (b - 1)
    BY <1>1, <1>2, <2>1, RankFacts
  <2>11. Cut(W, i) = Rank(K, a) /\ Cut(W, i + 1) - 1 - Cut(W, i) = b - 1 - a
    BY <1>2, <2>3, <2>7, <2>8, <2>9, <2>10
  <2>12. ASSUME NEW j \in 1 .. (b - 1 - a) PROVE W[Cut(W, i) + j] = r[a + j]
    <3>1. a + j \in (a + 1) .. (b - 1) /\ a + j \in a .. (b - 1) /\ (a + j) - a = j
      BY <2>10
    <3>2. a + j \in K /\ Rank(K, a + j) = Rank(K, a) + j
      BY <2>6, <2>8, <3>1
    <3>3. QED
      BY <1>2, <2>11, <3>2
  <2>13. /\ Len(Levels(W)[i]) = Len(Levels(r)[i])
         /\ \A j \in 1 .. Len(Levels(r)[i]) : Levels(W)[i][j] = Levels(r)[i][j]
    BY <2>4, <2>5, <2>11, <2>12
  <2>14. QED
    BY <2>4, <2>5, <2>13, SeqEqual
<1>7. QED
  BY <1>4, <1>6

-----------------------------------------------------------------------------
(* What a message that the filter of a route matches looks like. *)

\* A topic that fits a route: level for level, the route's own, or any in the
\* place of a wildcard.
Suits(r, t) ==
    /\ Len(Levels(r)) <= Len(Levels(t))
    /\ \A i \in 1 .. Len(Levels(r)) :
          \/ Named(Levels(r)[i])
          \/ Plain(Levels(r)[i]) /\ Levels(t)[i] = Levels(r)[i]
    /\ \A i \in 1 .. Len(Levels(t)) : Plain(Levels(t)[i])

LEMMA MatchedSuits ==
    ASSUME NEW S, NEW r \in Seq(S), NEW T, NEW t \in Seq(T),
           Regular(r), FilterMatches(Filter(r), t), Len(Levels(t)) >= Len(Levels(r)),
           \A i \in DOMAIN Levels(t) : Plain(Levels(t)[i])
    PROVE  Suits(r, t)
<1> DEFINE f == Levels(Filter(r))
           m == Len(Levels(r))
<1>1. m \in Nat \ {0} /\ DOMAIN Levels(r) = 1 .. m
  BY CutFacts, LevelsFacts
<1>2. Len(Levels(t)) \in Nat /\ DOMAIN Levels(t) = 1 .. Len(Levels(t))
  BY CutFacts, LevelsFacts
<1>3. Len(f) = m /\ \A i \in 1 .. m : Plain(Levels(r)[i]) => f[i] = Levels(r)[i]
  BY FilterLevels
<1>4. \A symbol \in {"+", "#"} : ~ Plain(<<symbol>>)
  <2> SUFFICES ASSUME NEW symbol \in {"+", "#"} PROVE ~ Plain(<<symbol>>)
    OBVIOUS
  <2>1. 1 \in DOMAIN <<symbol>> /\ <<symbol>>[1] = symbol
    OBVIOUS
  <2>2. symbol \notin ValueSymbols
    BY RouterAssumption
  <2>3. QED
    BY <2>1, <2>2 DEF Plain
<1> HIDE DEF f, m
<1>5. ASSUME NEW i \in 1 .. m, Plain(Levels(r)[i]) PROVE Levels(t)[i] = Levels(r)[i]
  <2>1. f[i] # <<"+">> /\ f[i] # <<"#">> /\ f[i] = Levels(r)[i]
    BY <1>3, <1>4, <1>5
  <2>2. ~ (i = m /\ Last(f) = <<"#">>)
    BY <1>3, <2>1 DEF Last
  <2>3. CASE Last(f) = <<"#">>
    <3>1. i \in 1 .. (Len(f) - 1)
      BY <1>1, <1>3, <2>2, <2>3
    <3>2. QED
      BY <2>1, <2>3, <3>1 DEF FilterMatches, f
  <2>4. CASE Last(f) # <<"#">>
    BY <1>3, <2>1, <2>4 DEF FilterMatches, f
  <2>5. QED
    BY <2>3, <2>4
<1>6. QED
  BY <1>1, <1>2, <1>5 DEF Suits, Regular, m

-----------------------------------------------------------------------------
(* How far into a topic that fits a route each place of the route comes. *)

At(r, t, q) ==
    LET i == LevelOf(r, q)
    IN  IF q \in DOMAIN r /\ r[q] \in Names THEN Cut(t, i + 1) - 1
        ELSE IF q \in DOMAIN r /\ r[q] \in {"+", "#"} THEN Cut(t, i)
        ELSE Cut(t, i) + (q - Cut(r, i))

LEMMA AtLevels ==
    ASSUME NEW S, NEW r \in Seq(S), NEW T, NEW t \in Seq(T), Suits(r, t),
           NEW p \in 1 .. Len(Levels(r))
    PROVE  LET c == Cut(r, p)
               c2 == Cut(r, p + 1)
               d == Cut(t, p)
               d2 == Cut(t, p + 1)
           IN  /\ c \in 0 .. Len(r) /\ c2 \in 1 .. (Len(r) + 1) /\ c < c2
               /\ d \in 0 .. Len(t) /\ d2 \in 1 .. (Len(t) + 1) /\ d + 1 < d2
               /\ d2 = Len(t) + 1 \/ t[d2] = "/"
               /\ p # Len(Levels(r)) => t[d2] = "/"
               /\ \A k \in (d + 1) .. (d2 - 1) : t[k] \in ValueSymbols
               /\ At(r, t, c) = d
               /\ At(r, t, c2 - 1) = d2 - 1
               /\ \/ /\ Named(Levels(r)[p]) /\ c2 = c + 3
                     /\ r[c + 1] \in {"+", "#"} /\ At(r, t, c + 1) = d
                     /\ r[c + 2] \in Names /\ r[c + 2] = Levels(r)[p][2]
                  \/ /\ Plain(Levels(r)[p])
                     /\ \A q \in (c + 1) .. (c2 - 1) :
                           /\ r[q] \in ValueSymbols
                           /\ r[q] = t[d + (q - c)]
                           /\ At(r, t, q) = d + (q - c)
<1> DEFINE c == Cut(r, p)
           c2 == Cut(r, p + 1)
           d == Cut(t, p)
           d2 == Cut(t, p + 1)
           mr == Cardinality(Slashes(r)) + 1
           mt == Cardinality(Slashes(t)) + 1
<1>1. Len(r) \in Nat /\ DOMAIN r = 1 .. Len(r) /\ Len(t) \in Nat /\ DOMAIN t = 1 .. Len(t)
  OBVIOUS
<1>2. mr \in Nat \ {0} /\ mt \in Nat \ {0} /\ Len(Levels(r)) = mr /\ Len(Levels(t)) = mt
  BY CutFacts, LevelsFacts
<1>3. p \in 1 .. mr /\ p \in 1 .. mt /\ mr <= mt
  BY <1>2 DEF Suits
<1>4. /\ c \in 0 .. Len(r) /\ c2 \in 1 .. (Len(r) + 1) /\ c < c2
      /\ p # mr => c2 \in Slashes(r)
      /\ p = mr => c2 = Len(r) + 1
  BY <1>3, CutFacts
<1>5. /\ d \in 0 .. Len(t) /\ d2 \in 1 .. (Len(t) + 1) /\ d < d2
      /\ p # mt => d2 \in Slashes(t)
      /\ p = mt => d2 = Len(t) + 1
  BY <1>3, CutFacts
<1>6. /\ Len(Levels(r)[p]) = c2 - 1 - c /\ DOMAIN Levels(r)[p] = 1 .. (c2 - 1 - c)
      /\ Levels(r)[p] \in Seq(S)
      /\ \A j \in 1 .. (c2 - 1 - c) : Levels(r)[p][j] = r[c + j]
  BY <1>3, LevelsFacts
<1>7. /\ Len(Levels(t)[p]) = d2 - 1 - d /\ DOMAIN Levels(t)[p] = 1 .. (d2 - 1 - d)
      /\ Levels(t)[p] \in Seq(T)
      /\ \A j \in 1 .. (d2 - 1 - d) : Levels(t)[p][j] = t[d + j]
  BY <1>3, LevelsFacts
<1>8. Plain(Levels(t)[p])
  BY <1>2, <1>3 DEF Suits
<1>9. Named(Levels(r)[p]) \/ (Plain(Levels(r)[p]) /\ Levels(t)[p] = Levels(r)[p])
  <2>1. \A i \in 1 .. Len(Levels(r)) :
           \/ Named(Levels(r)[i])
           \/ Plain(Levels(r)[i]) /\ Levels(t)[i] = Levels(r)[i]
    BY DEF Suits
  <2> HIDE DEF c, c2, d, d2, mr, mt
  <2>2. QED
    BY <2>1
<1>10. \A i \in 1 .. mr, q \in 0 .. Len(r) :
          Cut(r, i) <= q /\ q < Cut(r, i + 1) => LevelOf(r, q) = i
  BY LevelOfFacts
<1>11. c = 0 \/ c \in Slashes(r)
  <2>1. p \in 1 .. (mr + 1)
    BY <1>2, <1>3
  <2>2. c \in Cuts(r)
    BY <2>1, CutFacts, NthFacts DEF Cut
  <2>3. c # Len(r) + 1
    BY <1>1, <1>4
  <2>4. QED
    BY <2>2, <2>3 DEF Cuts
<1> HIDE DEF c, c2, d, d2, mr, mt
<1>12. \A q \in c .. (c2 - 1) : q \in 0 .. Len(r) /\ LevelOf(r, q) = p
  <2> SUFFICES ASSUME NEW q \in c .. (c2 - 1) PROVE q \in 0 .. Len(r) /\ LevelOf(r, q) = p
    OBVIOUS
  <2>1. q \in 0 .. Len(r) /\ c <= q /\ q < c2
    BY <1>1, <1>4
  <2>2. QED
    BY <1>3, <1>10, <2>1 DEF c, c2
<1>13. At(r, t, c) = d
  <2>1. c \in c .. (c2 - 1) /\ c \in Int /\ d \in Int
    BY <1>4, <1>5
  <2>2. LevelOf(r, c) = p
    BY <1>12, <2>1
  <2>3. c \notin DOMAIN r \/ r[c] = "/"
    BY <1>1, <1>4, <1>11 DEF Slashes
  <2>4. At(r, t, c) = Cut(t, p) + (c - Cut(r, p))
    BY <2>2, <2>3, RouterAssumption DEF At
  <2>5. QED
    BY <2>1, <2>4 DEF c, d
<1>14. Levels(t)[p] # <<>> /\ d + 1 < d2
  <2>1. Levels(t)[p] # <<>>
    BY <1>8 DEF Plain
  <2>2. Len(Levels(t)[p]) # 0
    BY <1>7, <2>1, EmptySeq
  <2>3. QED
    BY <1>5, <1>7, <2>1, <2>2
<1>15. \A k \in (d + 1) .. (d2 - 1) : t[k] \in ValueSymbols
  <2> SUFFICES ASSUME NEW k \in (d + 1) .. (d2 - 1) PROVE t[k] \in ValueSymbols
    OBVIOUS
  <2>1. k - d \in 1 .. (d2 - 1 - d) /\ d + (k - d) = k
    BY <1>5
  <2>2. Levels(t)[p][k - d] = t[d + (k - d)] /\ Levels(t)[p][k - d] \in ValueSymbols
    BY <1>7, <1>8, <2>1 DEF Plain
  <2>3. QED
    BY <2>1, <2>2
<1>16. /\ d2 = Len(t) + 1 \/ t[d2] = "/"
       /\ p # mr => t[d2] = "/"
  <2>1. p # mr => p # mt
    BY <1>2, <1>3
  <2>2. QED
    BY <1>5, <2>1 DEF Slashes
<1>17. CASE Named(Levels(r)[p])
  <2>1. c2 = c + 3 /\ 1 \in 1 .. (c2 - 1 - c) /\ 2 \in 1 .. (c2 - 1 - c)
    <3>1. Len(Levels(r)[p]) = 2
      BY <1>17 DEF Named
    <3>2. c \in Int /\ c2 \in Int
      BY <1>1, <1>4
    <3>3. c2 - 1 - c = 2
      BY <1>6, <3>1
    <3>4. QED
      BY <3>2, <3>3
  <2>2. r[c + 1] = Levels(r)[p][1] /\ r[c + 2] = Levels(r)[p][2]
    BY <1>6, <2>1
  <2>3. r[c + 1] \in {"+", "#"} /\ r[c + 2] \in Names
    BY <1>17, <2>2 DEF Named
  <2>4. /\ c + 1 \in c .. (c2 - 1) /\ c + 2 \in c .. (c2 - 1)
        /\ c + 1 \in DOMAIN r /\ c + 2 \in DOMAIN r /\ c2 - 1 = c + 2
    BY <1>1, <1>4, <2>1
  <2>5. LevelOf(r, c + 1) = p /\ LevelOf(r, c + 2) = p
    BY <1>12, <2>4
  <2>6. At(r, t, c + 1) = d
    BY <2>3, <2>4, <2>5, RouterAssumption DEF At, d
  <2>7. At(r, t, c2 - 1) = d2 - 1
    BY <2>3, <2>4, <2>5 DEF At, d2
  <2>8. QED
    BY <1>2, <1>4, <1>5, <1>13, <1>14, <1>15, <1>16, <1>17, <2>1, <2>2, <2>3, <2>6, <2>7
       DEF c, c2, d, d2
<1>18. CASE Plain(Levels(r)[p]) /\ Levels(t)[p] = Levels(r)[p]
  <2>1. c2 - c = d2 - d
    <3>1. Len(Levels(t)[p]) = Len(Levels(r)[p])
      BY <1>18
    <3>2. c \in Int /\ c2 \in Int /\ d \in Int /\ d2 \in Int /\ c2 - 1 - c = d2 - 1 - d
      BY <1>4, <1>5, <1>6, <1>7, <3>1
    <3>3. QED
      BY <3>2
  <2>2. ASSUME NEW q \in (c + 1) .. (c2 - 1)
        PROVE  r[q] \in ValueSymbols /\ r[q] = t[d + (q - c)] /\ At(r, t, q) = d + (q - c)
    <3>1. /\ q - c \in 1 .. (c2 - 1 - c) /\ q - c \in 1 .. (d2 - 1 - d) /\ c + (q - c) = q
          /\ q \in c .. (c2 - 1) /\ q \in DOMAIN r
      BY <1>1, <1>4, <1>5, <2>1
    <3>2. Levels(r)[p][q - c] = r[c + (q - c)] /\ Levels(r)[p][q - c] \in ValueSymbols
      BY <1>6, <1>18, <3>1 DEF Plain
    <3>3. Levels(t)[p][q - c] = t[d + (q - c)]
      BY <1>7, <3>1
    <3>4. r[q] \in ValueSymbols /\ r[q] = t[d + (q - c)]
      BY <1>18, <3>1, <3>2, <3>3
    <3>5. r[q] \notin Names /\ r[q] \notin {"+", "#"} /\ LevelOf(r, q) = p
      BY <1>12, <3>1, <3>4, RouterAssumption
    <3>6. At(r, t, q) = d + (q - c)
      BY <3>1, <3>5 DEF At, c, d
    <3>7. QED
      BY <3>4, <3>6
  <2>3. At(r, t, c2 - 1) = d2 - 1
    <3>1. c2 - 1 \in (c + 1) .. (c2 - 1) /\ d + ((c2 - 1) - c) = d2 - 1
      BY <1>4, <1>5, <1>14, <2>1
    <3>2. QED
      BY <2>2, <3>1
  <2>4. QED
    BY <1>2, <1>4, <1>5, <1>13, <1>14, <1>15, <1>16, <1>18, <2>2, <2>3
       DEF c, c2, d, d2
<1>19. QED
  BY <1>9, <1>17, <1>18

\* Each symbol of the route takes its part of the topic: a wildcard none, a name a
\* whole level, any other symbol itself.
LEMMA AtSteps ==
    ASSUME NEW S, NEW r \in Seq(S), NEW T, NEW t \in Seq(T), Suits(r, t)
    PROVE  /\ At(r, t, 0) = 0
           /\ \A q \in 0 .. Len(r) : At(r, t, q) \in 0 .. Len(t)
           /\ \A q \in 1 .. Len(r) :
                 \/ r[q] \in {"+", "#"} /\ At(r, t, q) = At(r, t, q - 1)
                 \/ /\ r[q] \notin Names \cup {"+", "#"} /\ At(r, t, q) = At(r, t, q - 1) + 1
                    /\ t[At(r, t, q)] = r[q]
                 \/ /\ r[q] \in Names /\ At(r, t, q - 1) < At(r, t, q)
                    /\ \A k \in (At(r, t, q - 1) + 1) .. At(r, t, q) : t[k] \in ValueSymbols
                    /\ At(r, t, q) = Len(t) \/ t[At(r, t, q) + 1] = "/"
<1>1. Len(r) \in Nat /\ DOMAIN r = 1 .. Len(r) /\ Len(t) \in Nat
  OBVIOUS
<1>2. /\ Len(Levels(r)) \in Nat \ {0} /\ Len(Levels(t)) \in Nat \ {0}
      /\ Cut(r, 1) = 0 /\ Cut(t, 1) = 0
      /\ Cardinality(Slashes(r)) + 1 = Len(Levels(r))
  BY CutFacts, LevelsFacts
<1>3. At(r, t, 0) = 0
  <2>1. 1 \in 1 .. Len(Levels(r))
    BY <1>2
  <2>2. At(r, t, Cut(r, 1)) = Cut(t, 1)
    BY <2>1, AtLevels
  <2>3. QED
    BY <1>2, <2>2
<1>4. ASSUME NEW q \in 1 .. Len(r)
      PROVE  /\ At(r, t, q) \in 0 .. Len(t)
             /\ \/ r[q] \in {"+", "#"} /\ At(r, t, q) = At(r, t, q - 1)
                \/ /\ r[q] \notin Names \cup {"+", "#"} /\ At(r, t, q) = At(r, t, q - 1) + 1
                   /\ t[At(r, t, q)] = r[q]
                \/ /\ r[q] \in Names /\ At(r, t, q - 1) < At(r, t, q)
                   /\ \A k \in (At(r, t, q - 1) + 1) .. At(r, t, q) : t[k] \in ValueSymbols
                   /\ At(r, t, q) = Len(t) \/ t[At(r, t, q) + 1] = "/"
  <2> DEFINE p == LevelOf(r, q)
             c == Cut(r, p)
             c2 == Cut(r, p + 1)
             d == Cut(t, p)
             d2 == Cut(t, p + 1)
  <2>1. p \in 1 .. Len(Levels(r)) /\ c <= q /\ q < c2 /\ p \in Int /\ q \in Int /\ q \in 0 .. Len(r)
    BY <1>1, <1>2, LevelOfFacts
  <2> HIDE DEF p
  <2>2. /\ c \in 0 .. Len(r) /\ c2 \in 1 .. (Len(r) + 1) /\ c < c2
        /\ d \in 0 .. Len(t) /\ d2 \in 1 .. (Len(t) + 1) /\ d + 1 < d2
        /\ d2 = Len(t) + 1 \/ t[d2] = "/"
        /\ \A k \in (d + 1) .. (d2 - 1) : t[k] \in ValueSymbols
        /\ At(r, t, c) = d
        /\ At(r, t, c2 - 1) = d2 - 1
    BY <2>1, AtLevels
  <2>3. \/ /\ c2 = c + 3
           /\ r[c + 1] \in {"+", "#"} /\ At(r, t, c + 1) = d
           /\ r[c + 2] \in Names
        \/ \A j \in (c + 1) .. (c2 - 1) :
                 /\ r[j] \in ValueSymbols
                 /\ r[j] = t[d + (j - c)]
                 /\ At(r, t, j) = d + (j - c)
    <3>1. \/ /\ Named(Levels(r)[p]) /\ c2 = c + 3
             /\ r[c + 1] \in {"+", "#"} /\ At(r, t, c + 1) = d
             /\ r[c + 2] \in Names /\ r[c + 2] = Levels(r)[p][2]
          \/ /\ Plain(Levels(r)[p])
             /\ \A j \in (c + 1) .. (c2 - 1) :
                   /\ r[j] \in ValueSymbols
                   /\ r[j] = t[d + (j - c)]
                   /\ At(r, t, j) = d + (j - c)
      BY <2>1, AtLevels
    <3> HIDE DEF c, c2, d, d2
    <3>2. QED
      BY <3>1
  <2>4. CASE q = c
    <3>1. p - 1 \in 1 .. Len(Levels(r)) /\ p - 1 # Len(Levels(r)) /\ (p - 1) + 1 = p
      <4>1. p # 1
        BY <1>2, <2>1, <2>4
      <4>2. QED
        BY <1>2, <2>1, <4>1
    <3>2. /\ t[Cut(t, (p - 1) + 1)] = "/"
          /\ At(r, t, Cut(r, (p - 1) + 1) - 1) = Cut(t, (p - 1) + 1) - 1
      BY <3>1, AtLevels
    <3>3. r[q] = "/"
      <4>1. p - 1 \in 1 .. (Cardinality(Slashes(r)) + 1) /\ p - 1 # Cardinality(Slashes(r)) + 1
        BY <1>2, <3>1
      <4>2. Cut(r, (p - 1) + 1) \in Slashes(r)
        BY <4>1, CutFacts
      <4>3. QED
        BY <2>4, <3>1, <4>2 DEF Slashes
    <3>4. t[d] = "/" /\ At(r, t, q - 1) = d - 1 /\ At(r, t, q) = d
      BY <2>2, <2>4, <3>1, <3>2
    <3>5. d \in 0 .. Len(t) /\ (d - 1) + 1 = d
      BY <2>2
    <3>6. "/" \notin Names \cup {"+", "#"}
      BY RouterAssumption
    <3> HIDE DEF d, c, c2, d2
    <3>7. QED
      BY <3>3, <3>4, <3>5, <3>6
  <2>5. CASE /\ q # c /\ c2 = c + 3
             /\ r[c + 1] \in {"+", "#"} /\ At(r, t, c + 1) = d
             /\ r[c + 2] \in Names
    <3> HIDE DEF c, c2, d, d2
    <3>1. q = c + 1 \/ q = c + 2
      BY <2>1, <2>2, <2>5
    <3>2. CASE q = c + 1
      <4>1. q - 1 = c
        BY <2>2, <3>2
      <4>2. QED
        BY <2>2, <2>5, <3>2, <4>1
    <3>3. CASE q = c + 2
      <4>1. q - 1 = c + 1 /\ c2 - 1 = q
        BY <2>2, <2>5, <3>3
      <4>2. At(r, t, q) = d2 - 1 /\ At(r, t, q - 1) = d /\ r[q] \in Names
        BY <2>2, <2>5, <3>3, <4>1
      <4>3. /\ d2 - 1 \in 0 .. Len(t) /\ d < d2 - 1 /\ (d2 - 1) + 1 = d2
            /\ d2 = Len(t) + 1 => d2 - 1 = Len(t)
        BY <1>1, <2>2
      <4>4. QED
        BY <2>2, <4>2, <4>3
    <3>4. QED
      BY <3>1, <3>2, <3>3
  <2>6. CASE q # c /\ \A j \in (c + 1) .. (c2 - 1) :
                        /\ r[j] \in ValueSymbols
                        /\ r[j] = t[d + (j - c)]
                        /\ At(r, t, j) = d + (j - c)
    <3> HIDE DEF c, c2, d, d2
    <3>1. q \in (c + 1) .. (c2 - 1) /\ q - 1 \in Int
      BY <2>1, <2>2, <2>6
    <3>2. q - 1 = c \/ q - 1 \in (c + 1) .. (c2 - 1)
      BY <2>2, <3>1
    <3>3. At(r, t, q - 1) = d + ((q - 1) - c)
      <4>1. q - 1 = c => d + ((q - 1) - c) = d
        BY <2>2
      <4>2. QED
        BY <2>2, <2>6, <3>2, <4>1
    <3>4. r[q] \in ValueSymbols /\ r[q] = t[d + (q - c)] /\ At(r, t, q) = d + (q - c)
      BY <2>6, <3>1
    <3>5. d + (q - c) = d + ((q - 1) - c) + 1 /\ d + (q - c) \in Int
      BY <2>1, <2>2
    <3>6. At(r, t, c2 - 1) = d + ((c2 - 1) - c)
      BY <2>2, <2>6
    <3>7. d + (q - c) \in 0 .. Len(t)
      BY <2>1, <2>2, <3>1, <3>6
    <3>8. r[q] \notin Names \cup {"+", "#"}
      BY <3>4, RouterAssumption
    <3>9. QED
      BY <3>3, <3>4, <3>5, <3>7, <3>8
  <2>7. QED
    BY <2>3, <2>4, <2>5, <2>6
<1>5. QED
  BY <1>1, <1>3, <1>4

-----------------------------------------------------------------------------
(* Matches. *)

\* The ways to match the first n elements of an expression.
Chains(pattern, text, n) ==
    {c \in Seq(0 .. Len(text)) :
        Len(c) = n + 1 /\ \A i \in 1 .. n : c[i + 1] \in Ends(pattern[i], c[i], text)}

\* What Matches() makes of those of one element less.
Extended(pattern, text, found, n) ==
    IF n = 0 THEN {<<s>> : s \in 0 .. Len(text)}
    ELSE UNION {{Append(c, e) : e \in Ends(pattern[n], c[n], text)} : c \in found[n - 1]}

LEMMA EndsFacts ==
    ASSUME NEW T, NEW text \in Seq(T), NEW p, NEW s \in 0 .. Len(text)
    PROVE  \A e \in Ends(p, s, text) : e \in 0 .. Len(text) /\ s < e
<1>1. Len(text) \in Nat
  OBVIOUS
<1>2. \A e \in (s + 1) .. Len(text) : e \in 0 .. Len(text) /\ s < e
  BY <1>1
<1>3. \A e \in {s + 1} : e <= Len(text) => e \in 0 .. Len(text) /\ s < e
  BY <1>1
<1>4. QED
  BY <1>2, <1>3 DEF Ends

LEMMA ChainsExtend ==
    ASSUME NEW P, NEW pattern \in Seq(P), NEW T, NEW text \in Seq(T), NEW n \in 0 .. Len(pattern),
           NEW found, n > 0 => found[n - 1] = Chains(pattern, text, n - 1)
    PROVE  Extended(pattern, text, found, n) = Chains(pattern, text, n)
<1> DEFINE R == 0 .. Len(text)
<1>1. Len(pattern) \in Nat /\ Len(text) \in Nat /\ n \in Nat
  OBVIOUS
<1>2. CASE n = 0
  <2>1. ASSUME NEW c \in Chains(pattern, text, 0) PROVE c \in {<<s>> : s \in R}
    <3>1. c \in Seq(R) /\ Len(c) = 1
      BY <2>1 DEF Chains
    <3>2. c[1] \in R
      <4>1. 1 \in 1 .. Len(c)
        BY <3>1
      <4>2. QED
        BY <3>1, <4>1, ElementOfSeq
    <3>3. /\ <<c[1]>> \in Seq(R) /\ Len(<<c[1]>>) = 1
          /\ \A i \in 1 .. 1 : c[i] = <<c[1]>>[i]
      BY <3>2
    <3>4. c = <<c[1]>>
      BY <3>1, <3>3, SeqEqual
    <3>5. QED
      BY <3>2, <3>4
  <2>2. ASSUME NEW s \in R PROVE <<s>> \in Chains(pattern, text, 0)
    BY DEF Chains
  <2>3. QED
    BY <1>2, <2>1, <2>2 DEF Extended
<1>3. CASE n > 0
  <2>1. n - 1 \in Nat /\ (n - 1) + 1 = n /\ n # 0
    BY <1>1, <1>3
  <2>2. ASSUME NEW c \in Chains(pattern, text, n)
        PROVE  \E b \in Chains(pattern, text, n - 1) :
                  \E e \in Ends(pattern[n], b[n], text) : c = Append(b, e)
    <3> DEFINE b == SubSeq(c, 1, n)
    <3>1. /\ c \in Seq(R) /\ Len(c) = n + 1
          /\ \A i \in 1 .. n : c[i + 1] \in Ends(pattern[i], c[i], text)
      BY <2>2 DEF Chains
    <3>2. /\ b \in Seq(R) /\ Len(b) = n /\ \A i \in 1 .. n : b[i] = c[i]
      <4>1. \A i \in 1 .. n : c[i] \in R
        <5>1. \A i \in 1 .. n : i \in 1 .. Len(c)
          BY <1>1, <3>1
        <5>2. QED
          BY <3>1, <5>1, ElementOfSeq
      <4>2. 1 \in Int /\ n \in Int /\ 1 <= n /\ n - 1 + 1 = n /\ \A i \in 1 .. n : 1 + i - 1 = i
        BY <1>1, <1>3
      <4>3. b \in Seq(R) /\ Len(b) = n /\ \A i \in 1 .. n - 1 + 1 : b[i] = c[1 + i - 1]
        BY <4>1, <4>2, SubSeqProperties
      <4>4. QED
        BY <4>2, <4>3
    <3> HIDE DEF b
    <3>3. \A i \in 1 .. (n - 1) : b[i + 1] \in Ends(pattern[i], b[i], text)
      <4>1. \A i \in 1 .. (n - 1) : i \in 1 .. n /\ i + 1 \in 1 .. n
        BY <1>1
      <4>2. QED
        BY <3>1, <3>2, <4>1
    <3>4. b \in Chains(pattern, text, n - 1)
      BY <2>1, <3>2, <3>3 DEF Chains
    <3>5. c[n + 1] \in Ends(pattern[n], b[n], text) /\ c[n + 1] \in R
      BY <1>1, <1>3, <3>1, <3>2
    <3>6. c = Append(b, c[n + 1])
      <4>1. /\ Append(b, c[n + 1]) \in Seq(R) /\ Len(Append(b, c[n + 1])) = n + 1
            /\ \A i \in 1 .. n : Append(b, c[n + 1])[i] = b[i]
            /\ Append(b, c[n + 1])[n + 1] = c[n + 1]
        BY <3>2, <3>5, AppendProperties
      <4>2. \A i \in 1 .. (n + 1) : Append(b, c[n + 1])[i] = c[i]
        <5>1. \A i \in 1 .. (n + 1) : i \in 1 .. n \/ i = n + 1
          BY <1>1
        <5>2. QED
          BY <3>2, <4>1, <5>1
      <4>3. QED
        BY <3>1, <4>1, <4>2, SeqEqual
    <3>7. QED
      BY <3>4, <3>5, <3>6
  <2>3. ASSUME NEW b \in Chains(pattern, text, n - 1), NEW e \in Ends(pattern[n], b[n], text)
        PROVE  Append(b, e) \in Chains(pattern, text, n)
    <3>1. /\ b \in Seq(R) /\ Len(b) = n
          /\ \A i \in 1 .. (n - 1) : b[i + 1] \in Ends(pattern[i], b[i], text)
      BY <2>1, <2>3 DEF Chains
    <3>2. b[n] \in R
      BY <1>1, <1>3, <3>1
    <3>3. e \in R
      BY <3>2, EndsFacts
    <3>4. /\ Append(b, e) \in Seq(R) /\ Len(Append(b, e)) = n + 1
          /\ \A i \in 1 .. n : Append(b, e)[i] = b[i]
          /\ Append(b, e)[n + 1] = e
      BY <3>1, <3>3, AppendProperties
    <3>5. ASSUME NEW i \in 1 .. n
          PROVE  Append(b, e)[i + 1] \in Ends(pattern[i], Append(b, e)[i], text)
      <4>1. i = n \/ (i \in 1 .. (n - 1) /\ i + 1 \in 1 .. n)
        BY <1>1
      <4>2. QED
        BY <3>1, <3>4, <4>1
    <3>6. QED
      BY <3>4, <3>5 DEF Chains
  <2>4. Extended(pattern, text, found, n)
          = UNION {{Append(c, e) : e \in Ends(pattern[n], c[n], text)} :
                      c \in Chains(pattern, text, n - 1)}
    BY <1>3, <2>1 DEF Extended
  <2>5. \A c \in Extended(pattern, text, found, n) :
           \E b \in Chains(pattern, text, n - 1) :
              \E e \in Ends(pattern[n], b[n], text) : c = Append(b, e)
    BY <2>4
  <2>6. \A b \in Chains(pattern, text, n - 1) :
           \A e \in Ends(pattern[n], b[n], text) : Append(b, e) \in Extended(pattern, text, found, n)
    BY <2>4
  <2>7. \A c \in Extended(pattern, text, found, n) : c \in Chains(pattern, text, n)
    BY <2>3, <2>5
  <2>8. \A c \in Chains(pattern, text, n) : c \in Extended(pattern, text, found, n)
    BY <2>2, <2>6
  <2>9. QED
    BY <2>7, <2>8
<1>4. QED
  BY <1>1, <1>2, <1>3

LEMMA MatchesAreChains ==
    ASSUME NEW P, NEW pattern \in Seq(P), NEW T, NEW text \in Seq(T)
    PROVE  Matches(pattern, text) = Chains(pattern, text, Len(pattern))
<1> DEFINE N == Len(pattern)
           Solves(f) == f = [n \in 0 .. N |-> Extended(pattern, text, f, n)]
           found == CHOOSE f : Solves(f)
           F == [n \in 0 .. N |-> Chains(pattern, text, n)]
<1>1. N \in Nat
  OBVIOUS
<1>2. Matches(pattern, text) = found[N]
  BY DEF Matches, Extended
<1>3. Solves(F)
  <2>1. ASSUME NEW n \in 0 .. N PROVE Extended(pattern, text, F, n) = Chains(pattern, text, n)
    <3>1. n > 0 => n - 1 \in 0 .. N
      BY <1>1
    <3>2. n > 0 => F[n - 1] = Chains(pattern, text, n - 1)
      BY <3>1
    <3> HIDE DEF F
    <3>3. QED
      BY <3>2, ChainsExtend
  <2>2. QED
    BY <2>1
<1>4. Solves(found)
  <2> HIDE DEF Solves, F
  <2>1. \E f : Solves(f)
    BY <1>3
  <2>2. QED
    BY <2>1
<1>5. \A n \in 0 .. N : found[n] = Extended(pattern, text, found, n)
  <2>1. found = [n \in 0 .. N |-> Extended(pattern, text, found, n)]
    BY <1>4
  <2> HIDE DEF found
  <2>2. QED
    BY <2>1
<1> HIDE DEF found, N
<1>6. \A n \in 0 .. N : found[n] = Chains(pattern, text, n)
  <2> DEFINE Wrong == {n \in 0 .. N : found[n] # Chains(pattern, text, n)}
  <2>1. SUFFICES ASSUME Wrong # {} PROVE FALSE
    OBVIOUS
  <2>2. Wrong \in SUBSET Nat
    OBVIOUS
  <2> HIDE DEF Wrong
  <2>3. PICK n \in Wrong : \A k \in Wrong : n <= k
    BY <2>1, <2>2, LeastOf
  <2>4. n \in 0 .. N /\ n \in Int /\ found[n] # Chains(pattern, text, n)
    BY DEF Wrong
  <2>5. n > 0 => found[n - 1] = Chains(pattern, text, n - 1)
    <3>1. n > 0 => n - 1 \in 0 .. N /\ ~ (n <= n - 1)
      BY <1>1, <2>4
    <3>2. QED
      BY <2>3, <3>1 DEF Wrong
  <2>6. found[n] = Chains(pattern, text, n)
    BY <1>5, <2>4, <2>5, ChainsExtend DEF N
  <2>7. QED
    BY <2>4, <2>6
<1>7. QED
  BY <1>1, <1>2, <1>6 DEF N

-----------------------------------------------------------------------------
(* The match that the engine takes. *)

\* The places of a route that its expression keeps, and how far into the topic each
\* element of the expression comes.
PatternKept(route) == KeptPlaces(route, {"+", "#"})
Walk(r, t) ==
    [k \in 1 .. (Len(Pattern(r)) + 1) |->
        IF k = 1 THEN 0 ELSE At(r, t, Nth(PatternKept(r), k - 1))]

LEMMA WalkAt ==
    ASSUME NEW S, NEW r \in Seq(S), NEW T, NEW t \in Seq(T), Suits(r, t)
    PROVE  /\ \A q \in 0 .. Len(r) : At(r, t, q) = Walk(r, t)[Rank(PatternKept(r), q) + 1]
           /\ Walk(r, t) \in Seq(0 .. Len(t)) /\ Len(Walk(r, t)) = Len(Pattern(r)) + 1
           /\ Walk(r, t)[1] = 0
<1> DEFINE K == PatternKept(r)
           N == Len(Pattern(r))
           W == Walk(r, t)
           R == 0 .. Len(t)
<1>1. /\ K \in SUBSET Nat /\ IsFiniteSet(K) /\ K \subseteq 1 .. Len(r) /\ 0 \notin K
      /\ Cardinality(K) \in Nat /\ Rank(K, 0) = 0 /\ N = Cardinality(K)
  BY WithoutFacts DEF PatternKept, Pattern
<1>2. Len(r) \in Nat /\ DOMAIN r = 1 .. Len(r) /\ Len(t) \in Nat
  OBVIOUS
<1>3. /\ \A q \in 0 .. Len(r) : At(r, t, q) \in R
      /\ At(r, t, 0) = 0
      /\ \A q \in 1 .. Len(r) : q \notin K => At(r, t, q) = At(r, t, q - 1)
  <2>1. \A q \in 1 .. Len(r) : q \notin K => r[q] \in {"+", "#"} /\ r[q] \notin Names
    BY <1>2, RouterAssumption DEF PatternKept, KeptPlaces
  <2>2. /\ \A q \in 0 .. Len(r) : At(r, t, q) \in R
        /\ At(r, t, 0) = 0
    BY AtSteps
  <2>3. ASSUME NEW q \in 1 .. Len(r), q \notin K PROVE At(r, t, q) = At(r, t, q - 1)
    BY <2>1, <2>3, AtSteps
  <2>4. QED
    BY <2>2, <2>3
<1>4. \A m \in 1 .. N : Nth(K, m) \in K
  BY <1>1, NthFacts
<1>5. \A i \in K : Rank(K, i) \in 1 .. N /\ Nth(K, Rank(K, i)) = i
  BY <1>1, NthFacts
<1>6. W = [k \in 1 .. (N + 1) |-> IF k = 1 THEN 0 ELSE At(r, t, Nth(K, k - 1))]
  BY DEF Walk
<1> HIDE DEF W, K, N
<1>7. W \in Seq(R) /\ Len(W) = N + 1 /\ W[1] = 0
  <2>1. ASSUME NEW k \in 1 .. (N + 1) PROVE (IF k = 1 THEN 0 ELSE At(r, t, Nth(K, k - 1))) \in R
    <3>1. CASE k = 1
      BY <1>2, <3>1
    <3>2. CASE k # 1
      <4>1. k - 1 \in 1 .. N
        BY <1>1, <3>2
      <4>2. Nth(K, k - 1) \in 0 .. Len(r)
        <5>1. \A j \in K : j \in 0 .. Len(r)
          BY <1>1, <1>2
        <5>2. QED
          BY <1>4, <4>1, <5>1
      <4>3. QED
        BY <1>3, <3>2, <4>2
    <3>3. QED
      BY <3>1, <3>2
  <2>2. W \in [1 .. (N + 1) -> R]
    BY <1>6, <2>1
  <2>3. N \in Nat /\ 1 \in 1 .. (N + 1)
    BY <1>1
  <2>4. W[1] = 0
    BY <1>6, <2>3
  <2>5. QED
    BY <2>2, <2>3, <2>4
<1>8. ASSUME NEW q \in K PROVE At(r, t, q) = W[Rank(K, q) + 1]
  <2>1. Rank(K, q) + 1 \in 1 .. (N + 1) /\ Rank(K, q) + 1 # 1 /\ (Rank(K, q) + 1) - 1 = Rank(K, q)
    BY <1>1, <1>5
  <2>2. W[Rank(K, q) + 1] = At(r, t, Nth(K, (Rank(K, q) + 1) - 1))
    BY <1>6, <2>1
  <2>3. QED
    BY <1>5, <2>1, <2>2
<1>9. \A q \in 0 .. Len(r) : At(r, t, q) = W[Rank(K, q) + 1]
  <2> DEFINE Wrong == {q \in 0 .. Len(r) : At(r, t, q) # W[Rank(K, q) + 1]}
  <2>1. SUFFICES ASSUME Wrong # {} PROVE FALSE
    OBVIOUS
  <2>2. Wrong \in SUBSET Nat
    OBVIOUS
  <2> HIDE DEF Wrong
  <2>3. PICK q \in Wrong : \A k \in Wrong : q <= k
    BY <2>1, <2>2, LeastOf
  <2>4. q \in 0 .. Len(r) /\ q \in Int /\ At(r, t, q) # W[Rank(K, q) + 1]
    BY DEF Wrong
  <2>5. q # 0
    BY <1>1, <1>3, <1>7, <2>4
  <2>6. q \notin K
    BY <1>8, <2>4
  <2>7. /\ q \in 1 .. Len(r) /\ ~ (q <= q - 1)
        /\ q - 1 \in 0 .. Len(r) /\ q - 1 \in Int /\ (q - 1) + 1 = q
    BY <1>2, <2>4, <2>5
  <2>8. At(r, t, q - 1) = W[Rank(K, q - 1) + 1]
    BY <2>3, <2>7 DEF Wrong
  <2>9. Rank(K, q) = Rank(K, q - 1)
    <3>1. Rank(K, (q - 1) + 1) = Rank(K, q - 1) + (IF (q - 1) + 1 \in K THEN 1 ELSE 0)
      BY <1>1, <2>7, RankFacts
    <3>2. Rank(K, q - 1) \in 0 .. Cardinality(K)
      BY <1>1, <2>7, RankFacts
    <3>3. QED
      BY <1>1, <2>6, <2>7, <3>1, <3>2
  <2>10. QED
    BY <1>3, <2>4, <2>6, <2>7, <2>8, <2>9
<1>10. QED
  BY <1>7, <1>9 DEF W, K, N

\* Each element of the expression takes what the walk gives it, and a name cannot
\* take more.
LEMMA WalkSteps ==
    ASSUME NEW S, NEW r \in Seq(S), NEW T, NEW t \in Seq(T), Suits(r, t),
           NEW k \in 1 .. Len(Pattern(r))
    PROVE  LET p == Pattern(r)[k]
               s == Walk(r, t)[k]
               e == Walk(r, t)[k + 1]
           IN  /\ Nth(PatternKept(r), k) \in 1 .. Len(r)
               /\ p = r[Nth(PatternKept(r), k)]
               /\ s = At(r, t, Nth(PatternKept(r), k) - 1)
               /\ e = At(r, t, Nth(PatternKept(r), k))
               /\ s \in 0 .. Len(t) /\ e \in 0 .. Len(t)
               /\ e \in Ends(p, s, t)
               /\ p \in Names => e = Len(t) \/ t[e + 1] = "/"
<1> DEFINE K == PatternKept(r)
           N == Len(Pattern(r))
           q == Nth(K, k)
           p == Pattern(r)[k]
           s == Walk(r, t)[k]
           e == Walk(r, t)[k + 1]
<1>1. /\ K \in SUBSET Nat /\ IsFiniteSet(K) /\ K \subseteq 1 .. Len(r)
      /\ Cardinality(K) \in Nat /\ N = Cardinality(K)
      /\ \A n \in 1 .. Cardinality(K) : Pattern(r)[n] = r[Nth(K, n)]
  BY WithoutFacts DEF PatternKept, Pattern
<1>2. Len(r) \in Nat /\ DOMAIN r = 1 .. Len(r) /\ Len(t) \in Nat
  OBVIOUS
<1>3. q \in K /\ Rank(K, q) = k
  BY <1>1, NthFacts
<1>4. q \in 1 .. Len(r) /\ p = r[q] /\ r[q] \notin {"+", "#"}
  BY <1>1, <1>3 DEF PatternKept, KeptPlaces
<1> HIDE DEF K, N, q
<1>5. /\ q \in Int /\ q \in 0 .. Len(r) /\ k \in Int
      /\ q - 1 \in 0 .. Len(r) /\ q - 1 \in Int /\ (q - 1) + 1 = q
  BY <1>1, <1>2, <1>4 DEF N
<1>6. Rank(K, q - 1) + 1 = k
  <2>1. Rank(K, (q - 1) + 1) = Rank(K, q - 1) + (IF (q - 1) + 1 \in K THEN 1 ELSE 0)
    BY <1>1, <1>5, RankFacts
  <2>2. QED
    BY <1>3, <1>5, <2>1
<1>7. s = At(r, t, q - 1) /\ e = At(r, t, q)
  <2>1. /\ At(r, t, q - 1) = Walk(r, t)[Rank(K, q - 1) + 1]
        /\ At(r, t, q) = Walk(r, t)[Rank(K, q) + 1]
    BY <1>5, WalkAt DEF K
  <2>2. QED
    BY <1>3, <1>6, <2>1
<1>8. s \in 0 .. Len(t) /\ e \in 0 .. Len(t)
  BY <1>5, <1>7, AtSteps
<1>9. \/ p \notin Names /\ e = s + 1 /\ t[e] = p
      \/ /\ p \in Names /\ s < e
         /\ \A j \in (s + 1) .. e : t[j] \in ValueSymbols
         /\ e = Len(t) \/ t[e + 1] = "/"
  BY <1>4, <1>7, AtSteps
<1> HIDE DEF p, s, e
<1>10. e \in Ends(p, s, t)
  <2>1. CASE p \notin Names /\ e = s + 1 /\ t[e] = p
    BY <1>8, <2>1 DEF Ends
  <2>2. CASE /\ p \in Names /\ s < e
             /\ \A j \in (s + 1) .. e : t[j] \in ValueSymbols
    <3>1. e \in (s + 1) .. Len(t)
      BY <1>2, <1>8, <2>2
    <3>2. QED
      BY <2>2, <3>1 DEF Ends
  <2>3. QED
    BY <1>9, <2>1, <2>2
<1>11. QED
  BY <1>4, <1>7, <1>8, <1>9, <1>10 DEF q, K, p, s, e

\* The walk is a match, and the engine finds it before any other: none begins
\* further to the left, and none lets a name take more.
LEMMA WalkFirst ==
    ASSUME NEW S, NEW r \in Seq(S), NEW T, NEW t \in Seq(T), Suits(r, t)
    PROVE  /\ Walk(r, t) \in Matches(Pattern(r), t)
           /\ \A c \in Matches(Pattern(r), t) :
                 /\ c \in Seq(0 .. Len(t)) /\ Len(c) = Len(Pattern(r)) + 1
                 /\ c # Walk(r, t) => Before(Walk(r, t), c)
<1> DEFINE N == Len(Pattern(r))
           p == Pattern(r)
           W == Walk(r, t)
           R == 0 .. Len(t)
<1>1. p \in Seq(S) /\ N \in Nat /\ Len(t) \in Nat
  BY WithoutFacts DEF Pattern
<1>2. W \in Seq(R) /\ Len(W) = N + 1 /\ W[1] = 0
  BY WalkAt
<1>3. \A k \in 1 .. N :
         /\ W[k] \in R /\ W[k + 1] \in R
         /\ W[k + 1] \in Ends(p[k], W[k], t)
         /\ p[k] \in Names => W[k + 1] = Len(t) \/ t[W[k + 1] + 1] = "/"
  BY WalkSteps
<1>4. Matches(p, t) = Chains(p, t, N)
  BY <1>1, MatchesAreChains
<1> HIDE DEF N, p, W
<1>5. W \in Chains(p, t, N)
  BY <1>2, <1>3 DEF Chains
<1>6. ASSUME NEW c \in Chains(p, t, N)
      PROVE  c \in Seq(R) /\ Len(c) = N + 1 /\ (c # W => Before(W, c))
  <2>1. c \in Seq(R) /\ Len(c) = N + 1 /\ \A i \in 1 .. N : c[i + 1] \in Ends(p[i], c[i], t)
    BY <1>6 DEF Chains
  <2>2. SUFFICES ASSUME c # W PROVE Before(W, c)
    BY <2>1
  <2> DEFINE Other == {i \in 1 .. (N + 1) : c[i] # W[i]}
  <2>3. Other # {} /\ Other \in SUBSET Nat
    <3>1. SUFFICES ASSUME \A i \in 1 .. (N + 1) : c[i] = W[i] PROVE FALSE
      OBVIOUS
    <3>2. QED
      BY <1>2, <2>1, <2>2, <3>1, SeqEqual
  <2> HIDE DEF Other
  <2>4. PICK i \in Other : \A j \in Other : i <= j
    BY <2>3, LeastOf
  <2>5. i \in 1 .. (N + 1) /\ i \in Int /\ c[i] # W[i]
    BY <1>1 DEF Other
  <2>6. \A j \in 1 .. (i - 1) : W[j] = c[j]
    <3> SUFFICES ASSUME NEW j \in 1 .. (i - 1) PROVE W[j] = c[j]
      OBVIOUS
    <3>1. j \in 1 .. (N + 1) /\ ~ (i <= j)
      BY <1>1, <2>5
    <3>2. QED
      BY <2>4, <3>1 DEF Other
  <2>7. DOMAIN W = 1 .. (N + 1) /\ c[i] \in R /\ W[i] \in R
    BY <1>2, <2>1, <2>5
  <2>8. CASE i = 1
    <3>1. W[i] < c[i]
      BY <1>1, <1>2, <2>5, <2>7, <2>8
    <3>2. QED
      BY <2>5, <2>6, <2>7, <2>8, <3>1 DEF Before
  <2>9. CASE i # 1
    <3>1. PICK k \in 1 .. N : i = k + 1
      <4>1. i - 1 \in 1 .. N /\ i = (i - 1) + 1
        BY <1>1, <2>5, <2>9
      <4>2. QED
        BY <4>1
    <3>2. k \in 1 .. (i - 1) /\ k \in Int
      BY <1>1, <2>5, <3>1
    <3>3. c[k + 1] \in Ends(p[k], W[k], t) /\ c[k + 1] # W[k + 1]
      BY <2>1, <2>5, <2>6, <3>1, <3>2
    <3>4. /\ W[k] \in R /\ W[k + 1] \in R
          /\ W[k + 1] \in Ends(p[k], W[k], t)
          /\ p[k] \in Names => W[k + 1] = Len(t) \/ t[W[k + 1] + 1] = "/"
      BY <1>3
    <3>5. p[k] \in Names
      BY <3>3, <3>4 DEF Ends
    <3>6. /\ c[k + 1] \in (W[k] + 1) .. Len(t) /\ W[k + 1] \in (W[k] + 1) .. Len(t)
          /\ \A j \in (W[k] + 1) .. c[k + 1] : t[j] \in ValueSymbols
      BY <3>3, <3>4, <3>5 DEF Ends
    <3>7. ~ (W[k + 1] < c[k + 1])
      <4>1. SUFFICES ASSUME W[k + 1] < c[k + 1] PROVE FALSE
        OBVIOUS
      <4>2. W[k + 1] # Len(t) /\ W[k + 1] + 1 \in (W[k] + 1) .. c[k + 1]
        BY <1>1, <3>4, <3>6, <4>1
      <4>3. "/" \notin ValueSymbols
        BY RouterAssumption
      <4>4. QED
        BY <3>4, <3>5, <3>6, <4>2, <4>3
    <3>8. W[i] > c[i]
      BY <1>1, <3>1, <3>3, <3>4, <3>6, <3>7
    <3>9. QED
      BY <2>5, <2>6, <2>7, <2>9, <3>8 DEF Before
  <2>10. QED
    BY <2>8, <2>9
<1>7. QED
  BY <1>4, <1>5, <1>6 DEF N, p, W

LEMMA TheMatchIsWalk ==
    ASSUME NEW S, NEW r \in Seq(S), NEW T, NEW t \in Seq(T), Suits(r, t)
    PROVE  TheMatch(Pattern(r), t) = Walk(r, t)
<1> DEFINE N == Len(Pattern(r))
           W == Walk(r, t)
           R == 0 .. Len(t)
           M == Matches(Pattern(r), t)
           Taken(c) == \A d \in M \ {c} : Before(c, d)
           c == CHOOSE b \in M : Taken(b)
<1>1. W \in M /\ \A b \in M : b \in Seq(R) /\ Len(b) = N + 1 /\ (b # W => Before(W, b))
  BY WalkFirst
<1>2. TheMatch(Pattern(r), t) = c
  BY DEF TheMatch
<1>3. Taken(W)
  BY <1>1
<1> HIDE DEF M, Taken, W, N
<1>4. c \in M /\ Taken(c)
  BY <1>1, <1>3
<1> HIDE DEF c
<1>5. ASSUME c # W PROVE FALSE
  <2>1. Before(W, c)
    BY <1>1, <1>4, <1>5
  <2>2. Before(c, W)
    BY <1>1, <1>4, <1>5 DEF Taken
  <2>3. /\ c \in Seq(R) /\ Len(c) = N + 1 /\ DOMAIN c = 1 .. (N + 1)
        /\ W \in Seq(R) /\ Len(W) = N + 1 /\ DOMAIN W = 1 .. (N + 1)
        /\ N + 1 \in Nat
    BY <1>1, <1>4
  <2>4. PICK i \in 1 .. (N + 1) :
           /\ \A j \in 1 .. (i - 1) : W[j] = c[j]
           /\ IF i = 1 THEN W[i] < c[i] ELSE W[i] > c[i]
    BY <2>1, <2>3 DEF Before
  <2>5. PICK k \in 1 .. (N + 1) :
           /\ \A j \in 1 .. (k - 1) : c[j] = W[j]
           /\ IF k = 1 THEN c[k] < W[k] ELSE c[k] > W[k]
    BY <2>2, <2>3 DEF Before
  <2>6. \A j \in 1 .. (N + 1) : W[j] \in Int /\ c[j] \in Int
    <3>1. \A j \in 1 .. (N + 1) : W[j] \in R /\ c[j] \in R
      BY <2>3, ElementOfSeq
    <3>2. QED
      BY <3>1
  <2>7. W[i] # c[i] /\ W[k] # c[k]
    BY <2>4, <2>5, <2>6
  <2>8. ~ (i < k) /\ ~ (k < i)
    <3>1. i \in Int /\ k \in Int
      BY <2>3
    <3>2. (i < k => i \in 1 .. (k - 1)) /\ (k < i => k \in 1 .. (i - 1))
      BY <3>1
    <3>3. QED
      BY <2>4, <2>5, <2>7, <3>2
  <2>9. i = k
    BY <2>3, <2>8
  <2>10. QED
    BY <2>4, <2>5, <2>6, <2>9
<1>6. QED
  BY <1>2, <1>5 DEF W

\* Each name of the route captures the level of the topic at its place.
LEMMA CapturedLevels ==
    ASSUME NEW S, NEW r \in Seq(S), NEW T, NEW t \in Seq(T), Suits(r, t), Regular(r),
           NEW i \in 1 .. Len(Levels(r)), Named(Levels(r)[i])
    PROVE  Captured(r, t)[Levels(r)[i][2]] = Levels(t)[i]
<1> DEFINE n == Levels(r)[i][2]
           P == Pattern(r)
           K == PatternKept(r)
           W == Walk(r, t)
           c == Cut(r, i)
           c2 == Cut(r, i + 1)
           d == Cut(t, i)
           d2 == Cut(t, i + 1)
           Last1(k) == P[k] = n /\ \A j \in DOMAIN P : P[j] = n => j <= k
<1>1. Len(r) \in Nat /\ DOMAIN r = 1 .. Len(r)
  OBVIOUS
<1>2. /\ K \in SUBSET Nat /\ IsFiniteSet(K) /\ K \subseteq 1 .. Len(r)
      /\ Cardinality(K) \in Nat /\ DOMAIN P = 1 .. Cardinality(K) /\ Len(P) = Cardinality(K)
      /\ \A m \in 1 .. Cardinality(K) : P[m] = r[Nth(K, m)]
      /\ \A m \in K : Rank(K, m) \in DOMAIN P /\ P[Rank(K, m)] = r[m]
  BY WithoutFacts DEF PatternKept, Pattern
<1>3. ~ Plain(Levels(r)[i])
  <2>1. Len(Levels(r)[i]) = 2 /\ Levels(r)[i][1] \in {"+", "#"}
    BY DEF Named
  <2>2. Levels(r)[i] \in Seq(S)
    BY LevelsFacts
  <2>3. 1 \in DOMAIN Levels(r)[i]
    BY <2>1, <2>2
  <2>4. Levels(r)[i][1] \notin ValueSymbols
    BY <2>1, RouterAssumption
  <2>5. QED
    BY <2>3, <2>4 DEF Plain
<1>4. /\ c \in 0 .. Len(r) /\ c2 \in 1 .. (Len(r) + 1) /\ c < c2 /\ c2 = c + 3
      /\ At(r, t, c2 - 1) = d2 - 1 /\ At(r, t, c + 1) = d
      /\ r[c + 2] \in Names /\ r[c + 2] = n
  BY <1>3, AtLevels
<1>5. Levels(t)[i] = SubSeq(t, d + 1, d2 - 1)
  <2>1. i \in 1 .. (Cardinality(Slashes(t)) + 1)
    <3>1. /\ Len(Levels(r)) = Cardinality(Slashes(r)) + 1 /\ Cardinality(Slashes(r)) + 1 \in Nat
          /\ Len(Levels(t)) = Cardinality(Slashes(t)) + 1 /\ Cardinality(Slashes(t)) + 1 \in Nat
      BY CutFacts, LevelsFacts
    <3>2. Len(Levels(r)) <= Len(Levels(t))
      BY DEF Suits
    <3>3. QED
      BY <3>1, <3>2
  <2>2. QED
    BY <2>1, LevelsFacts
<1> DEFINE q == c + 2
<1>6. q \in 1 .. Len(r) /\ q - 1 = c + 1 /\ q = c2 - 1 /\ r[q] \in Names /\ r[q] = n
  BY <1>1, <1>4
<1>7. q \in K
  <2>1. r[q] \notin {"+", "#"}
    BY <1>6, RouterAssumption
  <2> HIDE DEF q
  <2>2. QED
    BY <1>1, <1>6, <2>1 DEF PatternKept, KeptPlaces
<1>8. At(r, t, q - 1) = d /\ At(r, t, q) = d2 - 1
  BY <1>4, <1>6
<1> HIDE DEF q, c, c2, d, d2, K, P, W, n
<1> DEFINE k == Rank(K, q)
<1>9. k \in DOMAIN P /\ P[k] = n /\ Nth(K, k) = q /\ k \in 1 .. Len(P)
  BY <1>2, <1>6, <1>7, NthFacts
<1>10. W[k] = d /\ W[k + 1] = d2 - 1
  <2>1. W[k] = At(r, t, Nth(K, k) - 1) /\ W[k + 1] = At(r, t, Nth(K, k))
    BY <1>9, WalkSteps DEF W, K, P
  <2>2. QED
    BY <1>8, <1>9, <2>1
<1> HIDE DEF k
<1>11. \A j \in DOMAIN P : P[j] = n => j = k
  <2> SUFFICES ASSUME NEW j \in DOMAIN P, P[j] = n PROVE j = k
    OBVIOUS
  <2>1. j \in 1 .. Cardinality(K) /\ Nth(K, j) \in K /\ Rank(K, Nth(K, j)) = j
    BY <1>2, NthFacts
  <2>2. Nth(K, j) \in DOMAIN r /\ q \in DOMAIN r /\ r[q] = r[Nth(K, j)] /\ r[q] \in Names
    BY <1>1, <1>2, <1>6, <2>1
  <2>3. q = Nth(K, j)
    BY <2>2 DEF Regular
  <2>4. QED
    BY <2>1, <2>3 DEF k
<1>12. (CHOOSE j \in DOMAIN P : Last1(j)) = k
  <2>1. k \in Int
    BY <1>2, <1>9
  <2>2. Last1(k)
    BY <1>9, <1>11, <2>1
  <2>3. \A j \in DOMAIN P : Last1(j) => j = k
    BY <1>11
  <2> HIDE DEF Last1
  <2>4. QED
    BY <1>9, <2>2, <2>3
<1>13. n \in Range(r) \cap Names
  BY <1>1, <1>6 DEF Range
<1>14. TheMatch(P, t) = W
  BY TheMatchIsWalk DEF P, W
<1>15. Captured(r, t)[n] = SubSeq(t, W[k] + 1, W[k + 1])
  BY <1>12, <1>13, <1>14 DEF Captured, P
<1>16. QED
  BY <1>5, <1>10, <1>15 DEF n

-----------------------------------------------------------------------------
(* Messages reach the routes. *)

\* What the last route made of the last message is what its expression does.
ToldIsOutcome ==
    told.route # NoRoute =>
        /\ told.matched <=> Matches(Pattern(told.route), told.topic) # {}
        /\ told.matched => told.params = Captured(told.route, told.topic)

LEMMA ToldIsOutcomeStep == ToldIsOutcome /\ [RouterNext]_routerVars => ToldIsOutcome'
<1> SUFFICES ASSUME ToldIsOutcome, [RouterNext]_routerVars PROVE ToldIsOutcome'
  OBVIOUS
<1>1. ASSUME UNCHANGED told PROVE ToldIsOutcome'
  BY <1>1 DEF ToldIsOutcome
<1>2. CASE RouteMessage /\ ~ UNCHANGED told
  <2>1. PICK s \in Range(routes) :
           LET matched == Matches(Pattern(s.route), emitting.topic) # {}
           IN  told' = [route |-> s.route, topic |-> emitting.topic, matched |-> matched,
                        params |-> IF matched THEN Captured(s.route, emitting.topic) ELSE <<>>]
    BY <1>2 DEF RouteMessage
  <2>2. /\ told'.route = s.route /\ told'.topic = emitting.topic
        /\ told'.matched = (Matches(Pattern(s.route), emitting.topic) # {})
        /\ told'.matched => told'.params = Captured(s.route, emitting.topic)
    BY <2>1
  <2>3. QED
    BY <2>2 DEF ToldIsOutcome
<1>3. CASE RouterNext /\ ~ RouteMessage
  <2>1. UNCHANGED told
    BY <1>3
       DEF RouterNext, SubscribeRoute, DestroyRoute, DeleteClient, ClientConnected, Received,
           AppSubscribes, ClientDisconnected, BrokerTakes, BrokerPublishes
  <2>2. QED
    BY <1>1, <2>1
<1>4. CASE UNCHANGED routerVars
  BY <1>1, <1>4 DEF routerVars
<1>5. QED
  BY <1>1, <1>2, <1>3, <1>4

LEMMA OutcomeIsRight ==
    ASSUME RouterTypeOK, ToldIsOutcome
    PROVE  MatchingMessagesAreRouted
<1> DEFINE r == told.route
           t == told.topic
<1> SUFFICES ASSUME r # NoRoute, Regular(r), \A i \in DOMAIN Levels(t) : Plain(Levels(t)[i]),
                    FilterMatches(Filter(r), t), Len(Levels(t)) >= Len(Levels(r))
             PROVE  /\ told.matched
                    /\ \A i \in DOMAIN Levels(r) :
                          Named(Levels(r)[i]) => told.params[Levels(r)[i][2]] = Levels(t)[i]
  BY DEF MatchingMessagesAreRouted
<1>1. r \in Seq(Range(r))
  BY RouterAssumption DEF RouterTypeOK
<1>2. t \in Seq(Range(t))
  <2>1. CASE t \in Topics
    BY <2>1, RouterAssumption
  <2>2. CASE t = <<>>
    BY <2>2, EmptySeq
  <2>3. QED
    BY <2>1, <2>2 DEF RouterTypeOK
<1>3. /\ told.matched <=> Matches(Pattern(r), t) # {}
      /\ told.matched => told.params = Captured(r, t)
  BY DEF ToldIsOutcome
<1> HIDE DEF r, t
<1>4. Suits(r, t)
  BY <1>1, <1>2, MatchedSuits
<1>5. Walk(r, t) \in Matches(Pattern(r), t)
  BY <1>1, <1>2, <1>4, WalkFirst
<1>6. told.matched /\ told.params = Captured(r, t)
  BY <1>3, <1>5
<1>7. ASSUME NEW i \in DOMAIN Levels(r), Named(Levels(r)[i])
      PROVE  told.params[Levels(r)[i][2]] = Levels(t)[i]
  <2>1. i \in 1 .. Len(Levels(r))
    BY <1>1, LevelsFacts
  <2>2. Captured(r, t)[Levels(r)[i][2]] = Levels(t)[i]
    BY <1>1, <1>2, <1>4, <1>7, <2>1, CapturedLevels
  <2>3. QED
    BY <1>6, <2>2
<1>8. QED
  BY <1>6, <1>7

\* For any routes and topics: a message that the filter of a regular route matches is
\* matched by the expression made of the route too, which nothing anchors, and of all
\* the ways to match it the engine takes the one that gives each name the level at the
\* place of its wildcard.
THEOREM RoutedSafe == RouterSpec => []MatchingMessagesAreRouted
<1>1. RouterInit => ToldIsOutcome
  BY DEF RouterInit, Untold, ToldIsOutcome
<1>2. ToldIsOutcome /\ [RouterNext]_routerVars => ToldIsOutcome'
  BY ToldIsOutcomeStep
<1>3. RouterTypeOK /\ ToldIsOutcome => MatchingMessagesAreRouted
  BY OutcomeIsRight
<1>4. QED
  BY <1>1, <1>2, <1>3, RouterTypeCorrect, PTL DEF RouterSpec
=============================================================================
