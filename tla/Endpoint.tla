------------------------------ MODULE Endpoint ------------------------------
(***************************************************************************)
(* Whom a client dials, and when.  The address is kept twice: by the       *)
(* client, whose setters change it at any time (ClientPrivate::_host,      *)
(* _hostName, _port), and by Network, which takes it over when             *)
(* connectToHost() is called and dials it again when its auto-reconnect    *)
(* timer fires.  The life of the connection is module Client's; here it is *)
(* no more than what decides when the socket is asked to connect.          *)
(***************************************************************************)
EXTENDS Integers

CONSTANTS
    Hosts,      \* addresses setHost() is called with
    HostNames,  \* names setHostName() is called with
    Ports,      \* ports setPort() is called with
    Intervals,  \* what setAutoReconnectInterval() is called with
    NoHost,     \* QHostAddress(), and the local host it stands for
    NoName      \* the empty name

ASSUME EndpointAssumption ==
    /\ Intervals \subseteq Nat \ {0}
    /\ NoName \notin HostNames
    /\ NoHost \notin Hosts

VARIABLES
    own,            \* ClientPrivate::_host, _hostName and _port
    kept,           \* Network::_host, _hostName and _port
    link,           \* the socket: none, dialling or up
    closing,        \* is it to close as soon as it may?
    dialled,        \* the address the socket was last asked to connect to
    autoReconnect,  \* Network::_autoReconnect
    interval,       \* Network::_autoReconnectInterval
    waiting,        \* milliseconds _autoReconnectTimer waits; 0 when it is stopped
    asked           \* history: the client's address at its last connectToHost()

netVars == <<autoReconnect, interval, waiting>>
linkVars == <<link, closing, dialled>>
endpointVars == <<own, kept, linkVars, netVars, asked>>

Addresses ==
    [host : Hosts \cup {NoHost}, hostName : HostNames \cup {NoName}, port : Ports \cup {1883}]

\* What a socket is asked for: the name where there is one, else the address.
Target(a) == <<IF a.hostName = NoName THEN a.host ELSE a.hostName, a.port>>
Targets == {Target(a) : a \in Addresses}

\* Every variable stays in its range, and the timer, when it runs, waits for the
\* interval in force, even if that was changed meanwhile.
EndpointTypeOK ==
    /\ own \in Addresses /\ kept \in Addresses
    /\ link \in {"none", "dialling", "up"}
    /\ closing \in BOOLEAN
    /\ dialled \in Targets /\ asked \in Targets
    /\ autoReconnect \in BOOLEAN
    /\ interval \in Intervals \cup {5000}
    /\ waiting \in {0, interval}

\* The constructors of Client: with an address, or with a name.
EndpointInit ==
    /\ own \in [host : {NoHost}, hostName : HostNames \cup {NoName}, port : {1883}]
    /\ kept = [host |-> NoHost, hostName |-> NoName, port |-> 1883]
    /\ link = "none" /\ closing = FALSE
    /\ dialled = Target(kept)
    /\ autoReconnect = FALSE /\ interval = 5000 /\ waiting = 0
    /\ asked = Target(kept)

-----------------------------------------------------------------------------
(* Settings. *)

SetHost(h) ==
    /\ own' = [own EXCEPT !.host = h]
    /\ UNCHANGED <<kept, linkVars, netVars, asked>>

SetHostName(n) ==
    /\ own' = [own EXCEPT !.hostName = n]
    /\ UNCHANGED <<kept, linkVars, netVars, asked>>

SetPort(p) ==
    /\ own' = [own EXCEPT !.port = p]
    /\ UNCHANGED <<kept, linkVars, netVars, asked>>

\* The flag alone: a timer that runs keeps running.
SetAutoReconnect(b) ==
    /\ autoReconnect' = b
    /\ UNCHANGED <<own, kept, linkVars, interval, waiting, asked>>

\* The number is the timer's, in milliseconds; a timer that runs starts anew.
SetAutoReconnectInterval(i) ==
    /\ interval' = i
    /\ waiting' = IF waiting = 0 THEN 0 ELSE i
    /\ UNCHANGED <<own, kept, linkVars, autoReconnect, asked>>

-----------------------------------------------------------------------------
(* Connecting. *)

\* Network::connectToHost(): the socket dials, or refuses because it is busy, in
\* which case onSocketError() has it close.
Dial(a) ==
    \/ /\ link = "none"
       /\ link' = "dialling"
       /\ dialled' = Target(a)
       /\ UNCHANGED closing
    \/ /\ link # "none"
       /\ closing' = TRUE
       /\ UNCHANGED <<link, dialled>>

\* Mutation: the name of an earlier call is left when an address is given.
TakenOverKeepsName(a) ==
    IF a.hostName = NoName THEN [kept EXCEPT !.host = a.host, !.port = a.port]
    ELSE [kept EXCEPT !.hostName = a.hostName, !.port = a.port]

\* What Network keeps of the address it is called with.
TakenOver(a) ==
    IF a.hostName = NoName THEN a
    ELSE [host |-> kept.host, hostName |-> a.hostName, port |-> a.port]

\* Client::connectToHost().
ConnectToHost ==
    /\ kept' = TakenOver(own)
    /\ Dial(TakenOver(own))
    /\ asked' = Target(own)
    /\ UNCHANGED <<own, netVars>>

\* The timer calls Network's connectToHost(): the client's address is not read.
AutoReconnectFires ==
    /\ waiting > 0
    /\ waiting' = 0
    /\ Dial(kept)
    /\ UNCHANGED <<own, kept, autoReconnect, interval, asked>>

\* Client::disconnectFromHost(), or a ping that was not answered.
DisconnectFromHost ==
    /\ link # "none"
    /\ closing' = TRUE
    /\ UNCHANGED <<own, kept, link, dialled, netVars, asked>>

\* onConnected(): the timer is stopped.
Connected ==
    /\ link = "dialling"
    /\ link' = "up"
    /\ waiting' = 0
    /\ UNCHANGED <<own, kept, closing, dialled, autoReconnect, interval, asked>>

\* An attempt that fails: error(), and no disconnected().
AttemptFails ==
    /\ link = "dialling"
    /\ link' = "none" /\ closing' = FALSE
    /\ UNCHANGED <<own, kept, dialled, netVars, asked>>

\* onDisconnected(), whether the connection was lost or closed.
Disconnected ==
    /\ link = "up"
    /\ link' = "none" /\ closing' = FALSE
    /\ waiting' = IF autoReconnect THEN interval ELSE waiting
    /\ UNCHANGED <<own, kept, dialled, autoReconnect, interval, asked>>

EndpointNext ==
    \/ \E h \in Hosts : SetHost(h)
    \/ \E n \in HostNames \cup {NoName} : SetHostName(n)
    \/ \E p \in Ports : SetPort(p)
    \/ \E b \in BOOLEAN : SetAutoReconnect(b)
    \/ \E i \in Intervals : SetAutoReconnectInterval(i)
    \/ ConnectToHost \/ AutoReconnectFires \/ DisconnectFromHost
    \/ Connected \/ AttemptFails \/ Disconnected

EndpointSpec == EndpointInit /\ [][EndpointNext]_endpointVars

-----------------------------------------------------------------------------
(* Properties. *)

\* Whoever starts an attempt, the socket is asked for the address the client had
\* when connectToHost() was last called, not for parts of two of them, nor for
\* what was set since.
DialsWhatWasAsked ==
    [][link = "none" /\ link' = "dialling" => dialled' = asked']_endpointVars
=============================================================================
