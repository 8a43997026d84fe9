-------------------------- MODULE KeepAlive_proofs --------------------------
(***************************************************************************)
(* Proofs about module KeepAlive, for every interval of more than ten      *)
(* seconds.  The run of MCKeepAliveShort.cfg shows what happens below.     *)
(***************************************************************************)
EXTENDS KeepAlive, TLAPS

\* The ping-response timer is the shorter one, and an answer in time beats it.
TimersDiffer ==
    \A k \in KeepAlives : RespInterval(k) < k /\ MaxRtt < RespInterval(k)

\* setKeepAlive() gives the ping-response timer a period of its own, at least ten
\* seconds, exactly when the interval exceeds ten seconds.
LEMMA RespIntervalBounds ==
    \A k \in Nat \ {0} :
        /\ RespInterval(k) \in Nat
        /\ k > 10 => RespInterval(k) >= 10 /\ RespInterval(k) < k
        /\ k <= 10 => RespInterval(k) = k
<1> SUFFICES ASSUME NEW k \in Nat \ {0}
             PROVE  /\ RespInterval(k) \in Nat
                    /\ k > 10 => RespInterval(k) >= 10 /\ RespInterval(k) < k
                    /\ k <= 10 => RespInterval(k) = k
  OBVIOUS
<1>1. CASE k <= 10
  BY <1>1 DEF RespInterval, QBound
<1>2. CASE k > 10 /\ k <= 100
  BY <1>2 DEF RespInterval, QBound
<1>3. CASE k > 100
  BY <1>3 DEF RespInterval, QBound
<1>4. QED
  BY <1>1, <1>2, <1>3

-----------------------------------------------------------------------------
\* What is assumed of the constants, for one interval.
LEMMA IntervalFacts ==
    ASSUME NEW k \in KeepAlives
    PROVE  /\ k \in Nat \ {0} /\ k \in Int
           /\ MaxRtt \in Nat
           /\ RespInterval(k) \in Nat
           /\ k > 10 => RespInterval(k) >= 10 /\ RespInterval(k) < k
<1>1. k \in Nat \ {0} /\ MaxRtt \in Nat
  BY KeepAliveAssumption
<1>2. QED
  BY <1>1, RespIntervalBounds

LEMMA TypeStep == TypeOK /\ [Next]_vars => TypeOK'
<1> SUFFICES ASSUME TypeOK, [Next]_vars PROVE TypeOK'
  OBVIOUS
<1> DEFINE R == RespInterval(keepAlive)
<1>1. /\ keepAlive \in Nat \ {0} /\ R \in Nat /\ MaxRtt \in Nat
      /\ Patience(keepAlive) = keepAlive + R
  <2>1. keepAlive \in KeepAlives
    BY DEF TypeOK
  <2>2. QED
    BY <2>1, IntervalFacts DEF Patience
<1>2. TypeOK = (/\ keepAlive \in KeepAlives
                /\ session \in BOOLEAN
                /\ reachable \in BOOLEAN
                /\ keepLeft \in 0 .. keepAlive
                /\ respLeft \in Off .. R
                /\ pong \in Off .. MaxRtt
                /\ quiet \in 0 .. (keepAlive + R) + 1)
  BY <1>1 DEF TypeOK
<1>3. keepAlive' = keepAlive
  BY DEF Next, Tick, KeepTimerExpires, RespTimerExpires, PongArrives, AppSends, PathDies, vars
<1>4. Patience(keepAlive)' = keepAlive + R /\ RespInterval(keepAlive)' = R
  BY <1>1, <1>3 DEF Patience
<1> HIDE DEF R
<1>5. CASE Tick
  BY <1>1, <1>2, <1>3, <1>4, <1>5 DEF Tick, TypeOK, Elapse, Off
<1>6. CASE KeepTimerExpires
  BY <1>1, <1>2, <1>3, <1>4, <1>6 DEF KeepTimerExpires, TypeOK, Off, R
<1>7. CASE RespTimerExpires
  <2>1. session' \in BOOLEAN /\ reachable' \in BOOLEAN
    BY <1>7 DEF RespTimerExpires, TypeOK
  <2>2. QED
    BY <1>1, <1>2, <1>3, <1>4, <1>7, <2>1 DEF RespTimerExpires, TypeOK, Off
<1>8. CASE PongArrives
  BY <1>1, <1>2, <1>3, <1>4, <1>8 DEF PongArrives, TypeOK, Off
<1>9. CASE AppSends
  BY <1>1, <1>2, <1>3, <1>4, <1>9 DEF AppSends, TypeOK, Off
<1>10. CASE PathDies
  <2>1. session' \in BOOLEAN /\ reachable' \in BOOLEAN
    BY <1>10 DEF PathDies, TypeOK
  <2>2. QED
    BY <1>1, <1>2, <1>3, <1>4, <1>10, <2>1 DEF PathDies, TypeOK, Off
<1>11. CASE UNCHANGED vars
  BY <1>11 DEF vars, TypeOK
<1>12. QED
  BY <1>5, <1>6, <1>7, <1>8, <1>9, <1>10, <1>11 DEF Next

LEMMA InitTypes == Init => TypeOK
<1> SUFFICES ASSUME Init PROVE TypeOK
  OBVIOUS
<1>1. keepAlive \in Nat \ {0} /\ RespInterval(keepAlive) \in Nat /\ MaxRtt \in Nat
  <2>1. keepAlive \in KeepAlives
    BY DEF Init
  <2>2. QED
    BY <2>1, IntervalFacts
<1>2. QED
  BY <1>1 DEF Init, TypeOK, Off, Patience

\* The two timers, the answer on its way and the silence stay within the periods
\* of setKeepAlive() and the bounds of the model.
THEOREM TypeCorrect == Spec => []TypeOK
BY InitTypes, TypeStep, PTL DEF Spec

-----------------------------------------------------------------------------
(* The inductive invariant. *)

\* A ping is out: _timer, which sendFrame() started with it or later, has longer
\* to run than the ping-response timer.
RespTimerIsFirst == session /\ respLeft # Off => respLeft < keepLeft

\* Towards a broker that answers, the answer is on its way and comes first.
AnswerIsFirst ==
    reachable => session /\ (respLeft # Off => pong # Off /\ pong < respLeft)

\* On a dead path the silence so far and what is left on the timer that will end
\* it: one interval before the ping, one interval and the answer's time after it.
SilenceIsBounded ==
    session /\ ~reachable =>
        IF respLeft = Off THEN quiet + keepLeft <= keepAlive
        ELSE quiet + respLeft <= keepAlive + RespInterval(keepAlive)

IInv == TypeOK /\ RespTimerIsFirst /\ AnswerIsFirst /\ SilenceIsBounded

LEMMA InvStep ==
    ASSUME TimersDiffer, IInv, [Next]_vars
    PROVE  IInv'
<1> DEFINE R == RespInterval(keepAlive)
<1>1. /\ keepAlive \in Nat \ {0} /\ R \in Nat /\ MaxRtt \in Nat /\ R < keepAlive /\ MaxRtt < R
      /\ Patience(keepAlive) = keepAlive + R
  <2>1. keepAlive \in KeepAlives
    BY DEF IInv, TypeOK
  <2>2. QED
    BY <2>1, IntervalFacts DEF TimersDiffer, Patience
<1>2. TypeOK'
  BY TypeStep DEF IInv
<1>3. /\ session \in BOOLEAN /\ reachable \in BOOLEAN
      /\ keepLeft \in 0 .. keepAlive
      /\ respLeft \in Off .. R
      /\ pong \in Off .. MaxRtt
      /\ quiet \in 0 .. (keepAlive + R) + 1
  BY <1>1 DEF IInv, TypeOK
<1>4. keepAlive' = keepAlive /\ RespInterval(keepAlive)' = R
  BY DEF Next, Tick, KeepTimerExpires, RespTimerExpires, PongArrives, AppSends, PathDies, vars
<1> HIDE DEF R
<1>5. /\ RespTimerIsFirst /\ AnswerIsFirst
      /\ session /\ ~reachable =>
            IF respLeft = Off THEN quiet + keepLeft <= keepAlive ELSE quiet + respLeft <= keepAlive + R
  BY DEF IInv, SilenceIsBounded, R
<1> USE DEF RespTimerIsFirst, AnswerIsFirst, SilenceIsBounded, Off
<1>6. CASE Tick
  BY <1>1, <1>2, <1>3, <1>4, <1>5, <1>6 DEF Tick, Elapse, IInv
<1>7. CASE KeepTimerExpires
  <2>1. respLeft = Off
    BY <1>3, <1>5, <1>7 DEF KeepTimerExpires
  <2>2. /\ session /\ keepLeft = 0
        /\ respLeft' = R /\ keepLeft' = keepAlive
        /\ UNCHANGED <<session, reachable, quiet>>
    BY <1>7 DEF KeepTimerExpires, R
  <2>3. reachable => pong' \in 0 .. MaxRtt
    BY <1>3, <1>7 DEF KeepTimerExpires
  <2>4. RespTimerIsFirst' /\ AnswerIsFirst'
    BY <1>1, <1>5, <2>2, <2>3
  <2>5. ASSUME session, ~reachable PROVE quiet + R <= keepAlive + R /\ R # Off
    BY <1>1, <1>3, <1>5, <2>1, <2>2, <2>5
  <2>6. SilenceIsBounded'
    BY <1>1, <1>4, <2>2, <2>5
  <2>7. QED
    BY <1>2, <2>4, <2>6 DEF IInv
<1>8. CASE RespTimerExpires
  BY <1>1, <1>2, <1>3, <1>4, <1>5, <1>8 DEF RespTimerExpires, IInv
<1>9. CASE PongArrives
  BY <1>1, <1>2, <1>3, <1>4, <1>5, <1>9 DEF PongArrives, IInv
<1>10. CASE AppSends
  BY <1>1, <1>2, <1>3, <1>4, <1>5, <1>10 DEF AppSends, IInv
<1>11. CASE PathDies
  BY <1>1, <1>2, <1>3, <1>4, <1>5, <1>11 DEF PathDies, IInv
<1>12. CASE UNCHANGED vars
  BY <1>2, <1>4, <1>5, <1>12 DEF vars, IInv, R
<1>13. QED
  BY <1>6, <1>7, <1>8, <1>9, <1>10, <1>11, <1>12 DEF Next

LEMMA Invariance ==
    ASSUME TimersDiffer
    PROVE  Spec => []IInv
<1>1. Init => IInv
  BY InitTypes DEF Init, IInv, RespTimerIsFirst, AnswerIsFirst, SilenceIsBounded
<1>2. IInv /\ [Next]_vars => IInv'
  BY InvStep
<1>3. QED
  BY <1>1, <1>2, PTL DEF Spec

-----------------------------------------------------------------------------
\* With an interval over ten seconds a half-open connection is given up within the
\* interval and the tenth of it, whenever the path dies and whatever was sent
\* before (setKeepAlive(), onTimerPingReq(), onPingTimeout()).
THEOREM SilenceNoticed ==
    ASSUME \A k \in KeepAlives : k > 10, MaxRtt < 10
    PROVE  Spec => []SilenceIsNoticed
<1>1. TimersDiffer
  <2> SUFFICES ASSUME NEW k \in KeepAlives
               PROVE  RespInterval(k) < k /\ MaxRtt < RespInterval(k)
    BY DEF TimersDiffer
  <2>1. /\ RespInterval(k) >= 10 /\ RespInterval(k) < k
        /\ RespInterval(k) \in Nat /\ MaxRtt \in Nat
    BY IntervalFacts
  <2>2. QED
    BY <2>1
<1>2. IInv => SilenceIsNoticed
  <2> SUFFICES ASSUME IInv, session, ~reachable
               PROVE  quiet <= keepAlive + RespInterval(keepAlive)
    BY DEF SilenceIsNoticed, Patience
  <2>1. keepAlive \in Nat \ {0} /\ RespInterval(keepAlive) \in Nat
    <3>1. keepAlive \in KeepAlives
      BY DEF IInv, TypeOK
    <3>2. QED
      BY <3>1, IntervalFacts
  <2>2. /\ keepLeft \in Nat /\ quiet \in Nat
        /\ respLeft \in Int /\ (respLeft # Off => respLeft >= 0)
    BY <2>1 DEF IInv, TypeOK, Patience, Off
  <2>3. IF respLeft = Off THEN quiet + keepLeft <= keepAlive
        ELSE quiet + respLeft <= keepAlive + RespInterval(keepAlive)
    BY DEF IInv, SilenceIsBounded
  <2>4. QED
    BY <2>1, <2>2, <2>3
<1>3. QED
  BY <1>1, <1>2, Invariance, PTL

\* A broker that answers within ten seconds is never given up: no frame sent
\* between a ping and its answer can make the ping-response timer expire.
THEOREM NoFalseAlarms ==
    ASSUME \A k \in KeepAlives : k > 10, MaxRtt < 10
    PROVE  Spec => []NoFalseAlarm
<1>1. TimersDiffer
  <2> SUFFICES ASSUME NEW k \in KeepAlives
               PROVE  RespInterval(k) < k /\ MaxRtt < RespInterval(k)
    BY DEF TimersDiffer
  <2>1. /\ RespInterval(k) >= 10 /\ RespInterval(k) < k
        /\ RespInterval(k) \in Nat /\ MaxRtt \in Nat
    BY IntervalFacts
  <2>2. QED
    BY <2>1
<1>2. IInv => NoFalseAlarm
  BY DEF IInv, AnswerIsFirst, NoFalseAlarm
<1>3. QED
  BY <1>1, <1>2, Invariance, PTL
=============================================================================
