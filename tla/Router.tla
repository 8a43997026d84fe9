------------------------------- MODULE Router -------------------------------
(***************************************************************************)
(* Routes (qmqtt_router.cpp, qmqtt_routesubscription.cpp): a route such as *)
(* a/+:p names the wildcards of a topic filter.  Each route subscribes its *)
(* filter whenever the client is connected, unsubscribes it when it is     *)
(* destroyed, and hands on each message of the client that its regular     *)
(* expression matches, with the values of the named wildcards.             *)
(*                                                                         *)
(* A text is a sequence of symbols: a character, or ":p", a parameter with *)
(* the colon before it.  The module stands on the client's signals         *)
(* connected() and received() and its isConnectedToHost(); module Client   *)
(* shows how those come about.                                             *)
(***************************************************************************)
EXTENDS Integers, SequencesExt

CONSTANTS
    Ids,            \* the subscription objects that may be alive at once
    Routes,         \* the texts subscribe() is called with
    Names,          \* the symbols that are parameters
    ValueSymbols,   \* the characters [a-zA-Z0-9_-] of a parameter's value
    Topics,         \* the topics of messages
    OwnFilters,     \* filters the application subscribes without a route
    CleanSessions,  \* the values setCleanSession() is called with
    MaxUnsent       \* bound: no further call while so many packets are under way

ASSUME RouterAssumption ==
    /\ CleanSessions \subseteq BOOLEAN
    /\ MaxUnsent \in Nat \ {0}
    /\ \A text \in Routes \cup Topics : text \in Seq(Range(text))
    /\ Names \cap (ValueSymbols \cup {"/", "+", "#", "."}) = {}
    /\ ValueSymbols \cap {"/", "+", "#", "."} = {}

VARIABLES
    connected,      \* Client::isConnectedToHost()
    clean,          \* broker: was the session of the connection a clean one?
    routes,         \* the RouteSubscriptions alive, in the order of their creation
    toBroker,       \* SUBSCRIBE and UNSUBSCRIBE packets on their way
    toClient,       \* messages on their way (bound: one)
    brokerSubs,     \* broker: the filters subscribed
    emitting,       \* received(): the message and the slots still to be called
    told,           \* history: the last message a route looked at, and the outcome
    shed            \* history: filters one route took from another

routerVars == <<connected, clean, routes, toBroker, toClient, brokerSubs, emitting, told, shed>>

-----------------------------------------------------------------------------
(* What setRoute() makes of a route. *)

\* The n-th of the places S.
Nth(S, n) == CHOOSE i \in S : Cardinality({j \in S : j <= i}) = n

\* A text after remove().
Without(text, symbols) ==
    LET kept == {i \in DOMAIN text : text[i] \notin symbols}
    IN  [n \in 1 .. Cardinality(kept) |-> text[Nth(kept, n)]]

\* _topic: the route without its parameters.
Filter(route) == Without(route, Names)

\* Mutation: the wildcard before a name stays in the expression, as a symbol.
PatternWithPlus(route) == Without(route, {"#"})

\* _regularExpression: wildcards are removed, each parameter is a group, any
\* other symbol stands for itself; a dot is left as it is.
Pattern(route) == Without(route, {"+", "#"})

\* The places where one element of an expression may end that begins after place s.
Ends(p, s, text) ==
    IF p \in Names
    THEN {e \in (s + 1) .. Len(text) : \A k \in (s + 1) .. e : text[k] \in ValueSymbols}
    ELSE {e \in {s + 1} : e <= Len(text) /\ p \in {".", text[e]}}

\* All the ways to match an expression somewhere in a text, each as the places
\* between its elements: nothing anchors it to the ends of the text.
Matches(pattern, text) ==
    LET found[n \in 0 .. Len(pattern)] ==
            IF n = 0 THEN {<<s>> : s \in 0 .. Len(text)}
            ELSE UNION {{Append(c, e) : e \in Ends(pattern[n], c[n], text)} : c \in found[n - 1]}
    IN  found[Len(pattern)]

\* Of two matches the engine takes the one further to the left, then the greedier.
Before(c, d) ==
    \E i \in DOMAIN c :
        /\ \A j \in 1 .. (i - 1) : c[j] = d[j]
        /\ IF i = 1 THEN c[i] < d[i] ELSE c[i] > d[i]

TheMatch(pattern, text) ==
    LET found == Matches(pattern, text)
    IN  CHOOSE c \in found : \A d \in found \ {c} : Before(c, d)

\* routeMessage(): the value captured for each name, the last one where a name
\* comes twice.
Captured(route, text) ==
    LET pattern == Pattern(route)
        c == TheMatch(pattern, text)
        group(n) == CHOOSE i \in DOMAIN pattern :
                        pattern[i] = n /\ \A j \in DOMAIN pattern : pattern[j] = n => j <= i
    IN  [n \in Range(route) \cap Names |-> SubSeq(text, c[group(n)] + 1, c[group(n) + 1])]

-----------------------------------------------------------------------------
(* The broker's reading of a filter. *)

Levels(text) ==
    LET slashes == {i \in DOMAIN text : text[i] = "/"}
        cuts == {0, Len(text) + 1} \cup slashes
    IN  [n \in 1 .. Cardinality(slashes) + 1 |->
            SubSeq(text, Nth(cuts, n) + 1, Nth(cuts, n + 1) - 1)]

FilterMatches(filter, topic) ==
    LET f == Levels(filter)
        t == Levels(topic)
        tail == Last(f) = <<"#">>
        fixed == IF tail THEN Len(f) - 1 ELSE Len(f)
    IN  /\ IF tail THEN Len(t) >= fixed ELSE Len(t) = fixed
        /\ \A i \in 1 .. fixed : f[i] = <<"+">> \/ f[i] = t[i]

-----------------------------------------------------------------------------
NotEmitting == [topic |-> <<>>, to |-> <<>>]
Idle == emitting.to = <<>>
NoRoute == <<>>
Untold == [route |-> NoRoute, topic |-> <<>>, matched |-> FALSE, params |-> <<>>]

RouteIds == {routes[i].id : i \in DOMAIN routes}
LiveFilters == {Filter(routes[i].route) : i \in DOMAIN routes}

Filters == {Filter(r) : r \in Routes} \cup OwnFilters

\* Every variable stays in its range, and no object is alive twice.
RouterTypeOK ==
    /\ connected \in BOOLEAN
    /\ clean \in BOOLEAN
    /\ routes \in Seq([id : Ids, route : Routes])
    /\ \A i, j \in DOMAIN routes : routes[i].id = routes[j].id => i = j
    /\ toBroker \in Seq([type : {"SUBSCRIBE", "UNSUBSCRIBE"}, filter : Filters])
    /\ toClient \in Seq(Topics)
    /\ brokerSubs \subseteq Filters
    /\ emitting \in [topic : Topics \cup {<<>>}, to : Seq(Ids)]
    /\ told.route \in Routes \cup {NoRoute} /\ told.topic \in Topics \cup {<<>>}
    /\ told.matched \in BOOLEAN
    /\ shed \subseteq Filters

RouterInit ==
    /\ connected = FALSE
    /\ clean = TRUE
    /\ routes = <<>>
    /\ toBroker = <<>>
    /\ toClient = <<>>
    /\ brokerSubs = {}
    /\ emitting = NotEmitting
    /\ told = Untold
    /\ shed = {}

Packet(type, filter) == [type |-> type, filter |-> filter]

\* Client::subscribe() and unsubscribe(): dropped without a connection.
Send(packets) == toBroker' = IF connected THEN toBroker \o packets ELSE toBroker

-----------------------------------------------------------------------------
(* The router and its routes. *)

\* Router::subscribe(): at once if there is a connection.
SubscribeRoute(id, r) ==
    /\ id \notin RouteIds \cup Range(emitting.to)
    /\ Len(toBroker) < MaxUnsent
    /\ routes' = Append(routes, [id |-> id, route |-> r])
    /\ Send(<<Packet("SUBSCRIBE", Filter(r))>>)
    /\ shed' = IF connected THEN shed \ {Filter(r)} ELSE shed
    /\ UNCHANGED <<connected, clean, toClient, brokerSubs, emitting, told>>

\* Mutation: a route does not unsubscribe.
DestroyRouteQuietly(id) ==
    /\ \E i \in DOMAIN routes : routes[i].id = id /\ routes' = RemoveAt(routes, i)
    /\ UNCHANGED <<connected, clean, toBroker, toClient, brokerSubs, emitting, told, shed>>

\* ~RouteSubscription(): the topic is unsubscribed, also when another route has
\* the same one.  (~Router() is this for each of its routes.)
DestroyRoute(id) ==
    /\ Len(toBroker) < MaxUnsent
    /\ \E i \in DOMAIN routes :
          LET f == Filter(routes[i].route)
              left == RemoveAt(routes, i)
          IN  /\ routes[i].id = id
              /\ routes' = left
              /\ Send(<<Packet("UNSUBSCRIBE", f)>>)
              /\ shed' = IF connected /\ (\E s \in Range(left) : Filter(s.route) = f)
                         THEN shed \cup {f} ELSE shed
    /\ UNCHANGED <<connected, clean, toClient, brokerSubs, emitting, told>>

\* The client is deleted and the router and the routes with it: the routes'
\* pointer to it is null by then, so they unsubscribe nothing.
DeleteClient ==
    /\ connected' = FALSE
    /\ routes' = <<>>
    /\ toBroker' = <<>> /\ toClient' = <<>>
    /\ emitting' = NotEmitting
    /\ UNCHANGED <<clean, brokerSubs, told, shed>>

\* Mutation: the routes subscribe only when they are made.
ClientConnectedForgets(c) ==
    /\ ~connected /\ Idle
    /\ connected' = TRUE
    /\ clean' = c
    /\ brokerSubs' = IF c THEN {} ELSE brokerSubs
    /\ shed' = {}
    /\ UNCHANGED <<routes, toBroker, toClient, emitting, told>>

\* connected(): every route subscribes, in the order of their creation.
ClientConnected(c) ==
    /\ ~connected /\ Idle
    /\ connected' = TRUE
    /\ clean' = c
    /\ brokerSubs' = IF c THEN {} ELSE brokerSubs
    /\ toBroker' = [i \in DOMAIN routes |-> Packet("SUBSCRIBE", Filter(routes[i].route))]
    /\ shed' = {}
    /\ UNCHANGED <<routes, toClient, emitting, told>>

\* received(): the routes alive now are the slots of the signal.
Received ==
    /\ connected /\ Idle /\ toClient # <<>>
    /\ emitting' = [topic |-> Head(toClient), to |-> [i \in DOMAIN routes |-> routes[i].id]]
    /\ toClient' = Tail(toClient)
    /\ UNCHANGED <<connected, clean, routes, toBroker, brokerSubs, told, shed>>

\* routeMessage() of the next slot; the slot of a route destroyed meanwhile is
\* passed over.
RouteMessage ==
    /\ ~Idle
    /\ LET id == Head(emitting.to)
           topic == emitting.topic
       IN  \/ id \notin RouteIds /\ UNCHANGED told
           \/ \E s \in Range(routes) :
                /\ s.id = id
                /\ LET matched == Matches(Pattern(s.route), topic) # {}
                   IN  told' = [route |-> s.route, topic |-> topic, matched |-> matched,
                                params |-> IF matched THEN Captured(s.route, topic)
                                                      ELSE <<>>]
    /\ emitting' = IF Len(emitting.to) = 1 THEN NotEmitting
                   ELSE [emitting EXCEPT !.to = Tail(@)]
    /\ UNCHANGED <<connected, clean, routes, toBroker, toClient, brokerSubs, shed>>

-----------------------------------------------------------------------------
(* The application, the connection and the broker. *)

\* Client::subscribe() without a route.
AppSubscribes(f) ==
    /\ connected /\ Len(toBroker) < MaxUnsent
    /\ Send(<<Packet("SUBSCRIBE", f)>>)
    /\ UNCHANGED <<connected, clean, routes, toClient, brokerSubs, emitting, told, shed>>

ClientDisconnected ==
    /\ connected
    /\ connected' = FALSE
    /\ toBroker' = <<>> /\ toClient' = <<>>
    /\ UNCHANGED <<clean, routes, brokerSubs, emitting, told, shed>>

BrokerTakes ==
    /\ toBroker # <<>>
    /\ LET p == Head(toBroker)
       IN  brokerSubs' = IF p.type = "SUBSCRIBE" THEN brokerSubs \cup {p.filter}
                                                 ELSE brokerSubs \ {p.filter}
    /\ toBroker' = Tail(toBroker)
    /\ UNCHANGED <<connected, clean, routes, toClient, emitting, told, shed>>

BrokerPublishes(topic) ==
    /\ connected /\ toClient = <<>>
    /\ \E f \in brokerSubs : FilterMatches(f, topic)
    /\ toClient' = <<topic>>
    /\ UNCHANGED <<connected, clean, routes, toBroker, brokerSubs, emitting, told, shed>>

RouterNext ==
    \/ \E id \in Ids : (\E r \in Routes : SubscribeRoute(id, r)) \/ DestroyRoute(id)
    \/ DeleteClient
    \/ \E c \in CleanSessions : ClientConnected(c)
    \/ Received \/ RouteMessage
    \/ \E f \in OwnFilters : AppSubscribes(f)
    \/ ClientDisconnected
    \/ BrokerTakes
    \/ \E topic \in Topics : BrokerPublishes(topic)

RouterSpec == RouterInit /\ [][RouterNext]_routerVars

-----------------------------------------------------------------------------
(* Properties. *)

Settled == connected /\ toBroker = <<>>

\* Once the broker took what was sent on a connection, the filter of every route
\* alive is subscribed, those excepted that another route with the same filter
\* unsubscribed when it was destroyed.
RoutesAreSubscribed == Settled => (LiveFilters \ shed) \subseteq brokerSubs

\* With a clean session no filter of a destroyed route stays subscribed.
NothingLeftSubscribed ==
    (Settled /\ clean) => brokerSubs \subseteq LiveFilters \cup OwnFilters

\* The topics and routes that setRoute() is made for: every wildcard is a level
\* with a name, each name comes once, no level is empty or holds a character that
\* a value or an expression treats otherwise.
Plain(level) == level # <<>> /\ \A i \in DOMAIN level : level[i] \in ValueSymbols
Named(level) == Len(level) = 2 /\ level[1] \in {"+", "#"} /\ level[2] \in Names
Regular(route) ==
    /\ \A i \in DOMAIN Levels(route) : Plain(Levels(route)[i]) \/ Named(Levels(route)[i])
    /\ \A i, j \in DOMAIN route : route[i] \in Names /\ route[i] = route[j] => i = j

\* A message that the filter of a route matches reaches it, and each parameter is
\* the level of the topic at the place of its wildcard (the first of the levels
\* that # stands for).  Left out is the topic a of a filter a/#, where # stands for no
\* level: the expression asks for one, so that such a message, although the filter
\* matches it, does not reach the route.
MatchingMessagesAreRouted ==
    LET route == Levels(told.route)
        topic == Levels(told.topic)
    IN  (/\ told.route # NoRoute
         /\ Regular(told.route) /\ \A i \in DOMAIN topic : Plain(topic[i])
         /\ FilterMatches(Filter(told.route), told.topic)
         /\ Len(topic) >= Len(route))
        => /\ told.matched
           /\ \A i \in DOMAIN route :
                Named(route[i]) => told.params[route[i][2]] = topic[i]
=============================================================================
