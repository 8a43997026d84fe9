----------------------------- MODULE KeepAlive -----------------------------
(***************************************************************************)
(* The two timers of ClientPrivate on a clock, while a session is up       *)
(* (module Client lets them fire at any moment; here they fire when they   *)
(* are due).  _timer is restarted by every frame the client sends and      *)
(* sends a PINGREQ when it expires; _pingResponseTimer is started with     *)
(* every PINGREQ, stopped by a PINGRESP, and ends the session when it      *)
(* expires.  The question is what a half-open connection, on which writes  *)
(* succeed and nothing arrives, does to a client that has nothing to send. *)
(*                                                                         *)
(* Time is in seconds.  Timers that are due together fire in the order     *)
(* they were started, as QTimer's do; onTimerPingReq() starts _timer (in   *)
(* sendFrame) before _pingResponseTimer.                                   *)
(***************************************************************************)
EXTENDS Integers

CONSTANTS
    KeepAlives,    \* the values setKeepAlive() is called with
    MaxRtt         \* bound: a broker that can be reached answers within this

\* The interval is a quint16; its width plays no part here.
ASSUME KeepAliveAssumption ==
    /\ KeepAlives \subseteq Nat \ {0}
    /\ MaxRtt \in Nat

VARIABLES
    keepAlive,     \* the interval in force
    session,       \* does isConnectedToHost() hold?
    reachable,     \* does the broker receive what is sent, and answer?
    keepLeft,      \* seconds until _timer expires
    respLeft,      \* seconds until _pingResponseTimer expires, or Off
    pong,          \* seconds until a PINGRESP arrives, or Off
    quiet          \* seconds since the client had a sign of life or sent
                   \* something of its own

vars == <<keepAlive, session, reachable, keepLeft, respLeft, pong, quiet>>

Off == -1

\* qBound(min, val, max)
QBound(lo, v, hi) == IF v > hi THEN hi ELSE IF v < lo THEN lo ELSE v

\* setKeepAlive(): a tenth of the interval, but not under ten seconds, and not
\* over the interval.  (The code counts milliseconds.)
RespInterval(k) == QBound(k * 100, 10000, k * 1000) \div 1000

\* The longest a silent peer should go unnoticed: one interval, one answer.
Patience(k) == k + RespInterval(k)

Init ==
    /\ keepAlive \in KeepAlives
    /\ session = TRUE
    /\ reachable = TRUE
    /\ keepLeft = keepAlive
    /\ respLeft = Off
    /\ pong = Off
    /\ quiet = 0

TypeOK ==
    /\ keepAlive \in KeepAlives
    /\ session \in BOOLEAN
    /\ reachable \in BOOLEAN
    /\ keepLeft \in 0 .. keepAlive
    /\ respLeft \in Off .. RespInterval(keepAlive)
    /\ pong \in Off .. MaxRtt
    /\ quiet \in 0 .. Patience(keepAlive) + 1

\* A timer's next second.
Elapse(t) == IF t = Off THEN Off ELSE t - 1

\* A second passes; nothing that is due is left waiting.
Tick ==
    /\ session
    /\ keepLeft # 0 /\ respLeft # 0 /\ pong # 0
    /\ keepLeft' = keepLeft - 1
    /\ respLeft' = Elapse(respLeft)
    /\ pong' = Elapse(pong)
    /\ quiet' = IF quiet <= Patience(keepAlive) THEN quiet + 1 ELSE quiet
    /\ UNCHANGED <<keepAlive, session, reachable>>

\* Mutation: onTimerPingReq() does not start the ping-response timer.
KeepTimerExpiresUnwatched ==
    /\ session
    /\ keepLeft = 0
    /\ keepLeft' = keepAlive
    /\ UNCHANGED <<keepAlive, session, reachable, respLeft, pong, quiet>>

\* Mutation: both timers get the keep-alive interval.
KeepTimerExpiresSameInterval ==
    /\ session
    /\ keepLeft = 0
    /\ keepLeft' = keepAlive
    /\ respLeft' = keepAlive
    /\ IF reachable /\ pong = Off
       THEN pong' \in 0 .. MaxRtt
       ELSE UNCHANGED pong
    /\ UNCHANGED <<keepAlive, session, reachable, quiet>>

\* onTimerPingReq(): PINGREQ, which restarts _timer, and then the other timer.
KeepTimerExpires ==
    /\ session
    /\ keepLeft = 0
    /\ keepLeft' = keepAlive
    /\ respLeft' = RespInterval(keepAlive)
    /\ IF reachable /\ pong = Off
       THEN pong' \in 0 .. MaxRtt
       ELSE UNCHANGED pong
    /\ UNCHANGED <<keepAlive, session, reachable, quiet>>

\* onPingTimeout(): MqttNoPingResponse and disconnectFromHost().  When both
\* timers are due, _timer was started first.
RespTimerExpires ==
    /\ session
    /\ respLeft = 0
    /\ keepLeft # 0
    /\ session' = FALSE
    /\ respLeft' = Off
    /\ UNCHANGED <<keepAlive, reachable, keepLeft, pong, quiet>>

\* Mutation: handlePingresp() leaves the timer running.
PongArrivesUnheard ==
    /\ session
    /\ pong = 0
    /\ pong' = Off
    /\ quiet' = 0
    /\ UNCHANGED <<keepAlive, session, reachable, keepLeft, respLeft>>

\* handlePingresp()
PongArrives ==
    /\ session
    /\ pong = 0
    /\ pong' = Off
    /\ respLeft' = Off
    /\ quiet' = 0
    /\ UNCHANGED <<keepAlive, session, reachable, keepLeft>>

\* publish(), subscribe(), PUBACK...: sendFrame() restarts _timer.
AppSends ==
    /\ session
    /\ keepLeft' = keepAlive
    /\ quiet' = 0
    /\ UNCHANGED <<keepAlive, session, reachable, respLeft, pong>>

\* The path dies without a word; an answer on its way may be lost with it.
PathDies ==
    /\ reachable
    /\ reachable' = FALSE
    /\ pong' \in {pong, Off}
    /\ quiet' = 0
    /\ UNCHANGED <<keepAlive, session, keepLeft, respLeft>>

Next ==
    \/ Tick
    \/ KeepTimerExpires
    \/ RespTimerExpires
    \/ PongArrives
    \/ AppSends
    \/ PathDies

Spec == Init /\ [][Next]_vars

\* A dead path is noticed: an idle client does not believe in its session for
\* longer than the interval and the time it allows for the answer.
SilenceIsNoticed ==
    session /\ ~reachable => quiet <= Patience(keepAlive)

\* A broker that answers in time is never given up, whatever the application
\* sends between a ping and its answer.
NoFalseAlarm == reachable => session
=============================================================================
