-------------------------------- MODULE Tls --------------------------------
(***************************************************************************)
(* Which certificates a client accepts (SslSocket, WebSocket, Network and  *)
(* ClientPrivate::onSslErrors()).  A client of one of three kinds dials    *)
(* again and again, each time to a server whose certificate may have other *)
(* errors; the application may have errors ignored before, between and     *)
(* during the handshakes.                                                  *)
(*                                                                         *)
(*   "ssl"     Client(hostName, port, config, ignoreSelfSigned)            *)
(*   "legacy"  Client(hostName, port, true, ignoreSelfSigned)              *)
(*   "wss"     Client(url, origin, version, ignoreSelfSigned), url wss:    *)
(*                                                                         *)
(* QSslSocket and QWebSocket are external: they emit sslErrors() once in a *)
(* handshake with errors and go on if all were ignored when its slots are  *)
(* done, or if the peer is not to be verified.                             *)
(***************************************************************************)
EXTENDS Integers

CONSTANTS
    Kinds,          \* the kinds of clients
    SelfSigned,     \* SelfSignedCertificate and SelfSignedCertificateInChain
    OtherErrors     \* the other values of QSslError::SslError

ASSUME TlsAssumption ==
    /\ Kinds \subseteq {"ssl", "legacy", "wss"}
    /\ SelfSigned \cap OtherErrors = {}

VARIABLES
    kind,               \* the constructor the client was made with
    ignoreSelfSigned,   \* ClientPrivate::_ignoreSelfSigned
    verify,             \* is the peer to be verified? (QSslConfiguration::peerVerifyMode())
    verifying,          \* is it, on this connection?
    phase,              \* the socket: closed, dialling, handshake or open
    ignoreAll,          \* the socket's flag of ignoreSslErrors()
    ignoreList,         \* the socket's list of ignoreSslErrors(errors)
    errors,             \* the errors of the last handshake
    outcome,            \* what became of it: none, accepted or refused
    toldConnected,      \* was Client::onNetworkConnected() called on this connection?
    allowedAll,         \* history: the application's ignoreSslErrors() that still counts
    allowedList         \* history: the errors of its last ignoreSslErrors(errors)

socket == <<phase, errors, outcome, toldConnected>>
ignoring == <<ignoreAll, ignoreList, allowedAll, allowedList>>
madeAs == <<kind, ignoreSelfSigned>>
checking == <<verify, verifying>>
tlsVars == <<socket, ignoring, madeAs, checking>>

Errors == SelfSigned \cup OtherErrors

\* Every variable stays in its range; only a handshake has an outcome, and nothing
\* is ignored by a socket that nobody told to.
TlsTypeOK ==
    /\ kind \in Kinds /\ ignoreSelfSigned \in BOOLEAN
    /\ verify \in BOOLEAN /\ verifying \in BOOLEAN
    /\ phase \in {"closed", "dialling", "handshake", "open"}
    /\ ignoreAll \in BOOLEAN /\ allowedAll \in BOOLEAN
    /\ ignoreList \subseteq Errors /\ allowedList \subseteq Errors
    /\ errors \subseteq Errors
    /\ outcome \in {"none", "accepted", "refused"}
    /\ toldConnected \in BOOLEAN
    /\ ignoreAll => allowedAll \/ (ignoreSelfSigned /\ kind # "wss")

\* The constructors: the legacy one verifies nothing.
TlsInit ==
    /\ kind \in Kinds
    /\ ignoreSelfSigned \in BOOLEAN
    /\ verify = (kind # "legacy") /\ verifying = verify
    /\ phase = "closed" /\ errors = {} /\ outcome = "none" /\ toldConnected = FALSE
    /\ ignoreAll = FALSE /\ ignoreList = {}
    /\ allowedAll = FALSE /\ allowedList = {}

-----------------------------------------------------------------------------
(* Parts of a handshake. *)

\* The flag is the connection's with QSslSocket, which clears it when it dials and
\* keeps the list; a QWebSocket has a new QSslSocket for each connection and tells it
\* the flag, and the list only if there is no flag.
Dialled(flag) == flag /\ kind = "wss"

\* Mutation: nobody connects the socket's sslErrors().
ReportedNever == FALSE

\* Is Client::sslErrors() emitted?  WebSocket emits sslErrors(), which neither
\* Network's constructor nor ClientPrivate::init() connects.
Reported == errors # {} /\ kind # "wss"

\* Mutation: one self-signed certificate in the list is enough.
OnSslErrorsAny == ignoreSelfSigned /\ errors \cap SelfSigned # {}

\* onSslErrors(): does it call ignoreSslErrors()?
OnSslErrors == ignoreSelfSigned /\ errors \subseteq SelfSigned

\* QSslSocket's decision: once there is a list, the flag does not count.
Accepted(all, list) ==
    \/ errors = {} \/ ~verifying
    \/ IF list = {} THEN all ELSE errors \subseteq list

-----------------------------------------------------------------------------
(* Calls of the application, at any time.  Its slot of sslErrors() runs before *)
(* onSslErrors(), so that a call there is one just before the handshake ends.   *)

IgnoreAll == ignoreAll' = TRUE /\ allowedAll' = TRUE /\ UNCHANGED <<ignoreList, allowedList>>
IgnoreList(es) ==
    ignoreList' = es /\ allowedList' = es /\ UNCHANGED <<ignoreAll, allowedAll>>

IgnoreSslErrors ==
    /\ IgnoreAll \/ (\E es \in SUBSET Errors : IgnoreList(es))
    /\ UNCHANGED <<socket, madeAs, checking>>

\* setSslConfiguration(), with another peerVerifyMode(): a QWebSocket gives it to its
\* next QSslSocket.
SetSslConfiguration(v) ==
    /\ verify' = v
    /\ verifying' = IF kind = "wss" THEN verifying ELSE v
    /\ UNCHANGED <<socket, ignoring, madeAs>>

TlsConnectToHost ==
    /\ phase = "closed"
    /\ phase' = "dialling"
    /\ ignoreAll' = Dialled(ignoreAll) /\ allowedAll' = Dialled(allowedAll)
    /\ ignoreList' = IF Dialled(ignoreAll) THEN {} ELSE ignoreList
    /\ verifying' = verify
    /\ outcome' = "none" /\ errors' = {}
    /\ UNCHANGED <<toldConnected, allowedList, madeAs, verify>>

TlsDisconnectFromHost ==
    /\ phase # "closed"
    /\ phase' = "closed" /\ toldConnected' = FALSE
    /\ UNCHANGED <<errors, outcome, ignoring, madeAs, checking>>

-----------------------------------------------------------------------------
(* Events of the socket. *)

\* TCP is up and the server shows a certificate with these errors.  The client is
\* not told: SslSocket's connected() is QSslSocket::encrypted().
TransportConnects(es) ==
    /\ phase = "dialling"
    /\ phase' = "handshake" /\ errors' = es
    /\ UNCHANGED <<outcome, toldConnected, ignoring, madeAs, checking>>

\* The end of the handshake: onSslErrors() decides, then the socket.
Handshake ==
    /\ phase = "handshake"
    /\ ignoreAll' = (ignoreAll \/ (Reported /\ OnSslErrors))
    /\ IF Accepted(ignoreAll', ignoreList)
       THEN phase' = "open" /\ outcome' = "accepted" /\ toldConnected' = TRUE
       ELSE phase' = "closed" /\ outcome' = "refused" /\ UNCHANGED toldConnected
    /\ UNCHANGED <<errors, ignoreList, allowedAll, allowedList, madeAs, checking>>

TlsNext ==
    \/ IgnoreSslErrors
    \/ \E v \in BOOLEAN : SetSslConfiguration(v)
    \/ TlsConnectToHost \/ TlsDisconnectFromHost
    \/ \E es \in SUBSET Errors : TransportConnects(es)
    \/ Handshake

TlsSpec == TlsInit /\ [][TlsNext]_tlsVars

-----------------------------------------------------------------------------
(* Properties. *)

\* The client is told it is connected, and sends its CONNECT with the password,
\* only over an encrypted connection whose every certificate error is one that the
\* application had ignored, for this connection or by a list, or self-signed where
\* that is to be accepted; nothing accepted once carries over to the next server.
TrustedWhenTold ==
    [][toldConnected' /\ ~toldConnected =>
          /\ phase' = "open"
          /\ \/ ~verifying
             \/ allowedAll
             \/ errors \subseteq allowedList
             \/ ignoreSelfSigned /\ errors \subseteq SelfSigned]_tlsVars

\* With ignoreSelfSigned no handshake of the kinds over QSslSocket fails for
\* self-signed certificates alone, on whichever connection and whatever is verified,
\* unless the application itself once gave a list of errors that leaves one out:
\* QSslSocket keeps the list, and onSslErrors() is then of no effect.
SelfSignedIsAccepted ==
    [][(phase = "handshake" /\ outcome' = "refused" /\ ignoreSelfSigned /\ kind # "wss") =>
          \/ ~(errors \subseteq SelfSigned)
          \/ allowedList # {} /\ ~(errors \subseteq allowedList)]_tlsVars
=============================================================================
