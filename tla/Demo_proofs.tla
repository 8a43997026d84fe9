---------------------------- MODULE Demo_proofs ----------------------------
(***************************************************************************)
(* Proofs about the demo: module MqttClientMgr, for every set of topics,   *)
(* every way an attempt may fail, and queues of every length, and module   *)
(* MqttClientWgt, for every set of accounts and of entries.                *)
(*                                                                         *)
(* Of the manager: when its reconnect timer may run, that no attempt       *)
(* begins against the user's will, the delays between attempts, that the   *)
(* client keeps its own invariants under it, and that what it has          *)
(* subscribed reaches the broker of every connection.  Of the window: it   *)
(* asks of the manager only what the manager's module allows, so that all  *)
(* this holds under it too, and the status it shows is the connection's.   *)
(***************************************************************************)
EXTENDS MqttClientWgt, Client_proofs, FiniteSetTheorems

-----------------------------------------------------------------------------
(* The reconnect timer. *)

\* The reconnect flags say what the user last asked for.
FlagsFollowTheUser == reconnectAllowed => wanted

ReconnectInv == FlagsFollowTheUser /\ ReconnectTimerOnlyWhenWanted

\* The slots of disconnected() arm the timer, if at all, for a client that is
\* wanted, and the connection is gone by then.
LEMMA OnDisconnectedArms ==
    ASSUME ReconnectInv, OnDisconnected, sock # "Unconnected", sock' = "Unconnected",
           cstate' = "DISCONNECTED", UNCHANGED <<userVars, reconnectAllowed, wanted>>
    PROVE  ReconnectInv'
<1>1. ~reconnectTimer
  BY DEF ReconnectInv, ReconnectTimerOnlyWhenWanted
<1>2. \/ hasClient /\ ~manualDisconnect /\ reconnectAllowed
      \/ reconnectTimer' = reconnectTimer
  BY DEF OnDisconnected, ScheduleReconnect, policyVars
<1>3. FlagsFollowTheUser'
  BY DEF ReconnectInv, FlagsFollowTheUser
<1>4. QED
  BY <1>1, <1>2, <1>3
     DEF ReconnectInv, FlagsFollowTheUser, ReconnectTimerOnlyWhenWanted, userVars

LEMMA ReconnectStep == ReconnectInv /\ [MgrNext]_allVars => ReconnectInv'
<1> SUFFICES ASSUME ReconnectInv, [MgrNext]_allVars PROVE ReconnectInv'
  OBVIOUS
<1> USE DEF ReconnectInv, FlagsFollowTheUser, ReconnectTimerOnlyWhenWanted
<1>1. ASSUME NEW auto, NEW clean, MgrConnectToHost(auto, clean) PROVE ReconnectInv'
  BY <1>1 DEF MgrConnectToHost
<1>2. CASE MgrDisconnectFromHost
  BY <1>2 DEF MgrDisconnectFromHost
<1>3. ASSUME NEW t, NEW q, Subscribe(t, q) PROVE ReconnectInv'
  BY <1>3 DEF Subscribe, AppSends, policyVars, userVars
<1>4. ASSUME NEW t, Unsubscribe(t) PROVE ReconnectInv'
  BY <1>4 DEF Unsubscribe, AppSends, policyVars, userVars
<1>5. CASE Publish
  BY <1>5 DEF Publish, AppSends, mgrVars, policyVars, userVars
<1>6. CASE ReconnectFires
  BY <1>6 DEF ReconnectFires, userVars
<1>7. CASE MgrAccepted
  BY <1>7 DEF MgrAccepted, userVars
<1>8. CASE MgrRejected
  BY <1>8 DEF MgrRejected, GiveUp
<1>9. CASE MgrAttemptFails
  BY <1>9 DEF MgrAttemptFails, AttemptFails, GiveUp, policyVars, userVars
<1>10. CASE MgrConnectionLost
  <2>1. /\ OnDisconnected /\ sock # "Unconnected" /\ sock' = "Unconnected"
        /\ cstate' = "DISCONNECTED" /\ UNCHANGED <<userVars, reconnectAllowed, wanted>>
    BY <1>10 DEF MgrConnectionLost, ConnectionLost, Dropped, Disconnected
  <2>2. QED
    BY <2>1, OnDisconnectedArms
<1>11. CASE MgrFrameLeaves
  <2>1. OnDisconnected /\ UNCHANGED <<userVars, reconnectAllowed, wanted>>
    BY <1>11 DEF MgrFrameLeaves
  <2>2. CASE sock = "Closing" /\ Len(wbuf) = 1
    <3>1. sock # "Unconnected" /\ sock' = "Unconnected" /\ cstate' = "DISCONNECTED"
      BY <1>11, <2>2 DEF MgrFrameLeaves, FrameLeaves, Dropped, Disconnected
    <3>2. QED
      BY <2>1, <3>1, OnDisconnectedArms
  <2>3. CASE ~(sock = "Closing" /\ Len(wbuf) = 1)
    <3>1. UNCHANGED <<sock, cstate>>
      BY <1>11, <2>3 DEF MgrFrameLeaves, FrameLeaves, clientVars
    <3>2. UNCHANGED policyVars
      BY <2>1, <3>1 DEF OnDisconnected
    <3>3. QED
      BY <2>1, <3>1, <3>2 DEF policyVars, userVars
  <2>4. QED
    BY <2>2, <2>3
<1>12. CASE ForwardedOnly
  <2>1. UNCHANGED <<hasClient, wanted, reconnectAllowed, manualDisconnect, reconnectTimer>>
    BY <1>12 DEF ForwardedOnly, mgrVars, policyVars, userVars
  <2>2. sock = "Unconnected" /\ cstate = "DISCONNECTED" =>
            sock' = "Unconnected" /\ cstate' = "DISCONNECTED"
    BY <1>12
       DEF ForwardedOnly, KeepAliveFires, PingTimeout, HangUp, HangUpAfter, SocketConnects,
           ConnectionOpens, ReadReady, CopyInbox, HandleRefused, HandleMessage, HandlePingresp,
           Environment, BrokerAnswers, BrokerPublishes, BrokerFallsSilent,
           socketVars, clientVars
  <2>3. QED
    BY <2>1, <2>2
<1>13. CASE UNCHANGED allVars
  BY <1>13 DEF allVars, vars, socketVars, clientVars, mgrVars, policyVars, userVars
<1>14. QED
  BY <1>1, <1>2, <1>3, <1>4, <1>5, <1>6, <1>7, <1>8, <1>9, <1>10, <1>11, <1>12, <1>13
     DEF MgrNext, User

LEMMA ReconnectInvariance == MgrSpec => []ReconnectInv
<1>1. MgrInit => ReconnectInv
  BY DEF MgrInit, ReconnectInv, FlagsFollowTheUser, ReconnectTimerOnlyWhenWanted
<1>2. QED
  BY <1>1, ReconnectStep, PTL DEF MgrSpec

\* When the reconnect timer fires, the user still wants the client, and the socket
\* is idle: connectToHost() of slot_reconnect() is never the refused call that
\* would close a connection (scheduleReconnect(), slot_reconnect()).
THEOREM RetryTimerSafe == MgrSpec => []ReconnectTimerOnlyWhenWanted
<1>1. ReconnectInv => ReconnectTimerOnlyWhenWanted
  BY DEF ReconnectInv
<1>2. QED
  BY <1>1, ReconnectInvariance, PTL

\* An attempt begins only while connecting is the user's last word and no error
\* has told him to repair something (disconnectFromHost(), isPermanentConnectionError()).
THEOREM NoUnwantedAttempts == MgrSpec => NoUnwantedReconnect
<1>1. ASSUME ReconnectInv, [MgrNext]_allVars, sock = "Unconnected", sock' = "Connecting"
      PROVE  wanted'
  <2>1. ASSUME NEW auto, NEW clean, MgrConnectToHost(auto, clean) PROVE wanted'
    BY <2>1 DEF MgrConnectToHost
  <2>2. CASE ReconnectFires
    BY <1>1, <2>2 DEF ReconnectFires, ReconnectInv, ReconnectTimerOnlyWhenWanted
  <2>3. ~MgrDisconnectFromHost
    BY <1>1 DEF MgrDisconnectFromHost, DisconnectFromHost, HangUp, HangUpAfter, vars, socketVars
  <2>4. /\ \A t, q : ~Subscribe(t, q)
        /\ \A t : ~Unsubscribe(t)
        /\ ~Publish
    BY <1>1 DEF Subscribe, Unsubscribe, Publish, AppSends
  <2>5. ~MgrAccepted /\ ~MgrRejected /\ ~MgrAttemptFails /\ ~MgrConnectionLost
    BY <1>1 DEF MgrAccepted, HandleAccepted, MgrRejected, HandleThenHangUp, HangUpAfter,
                MgrAttemptFails, AttemptFails, MgrConnectionLost, ConnectionLost
  <2>6. ~MgrFrameLeaves
    BY <1>1 DEF MgrFrameLeaves, FrameLeaves, Dropped
  <2>7. ~ForwardedOnly
    BY <1>1
       DEF ForwardedOnly, KeepAliveFires, PingTimeout, HangUp, HangUpAfter, SocketConnects,
           ConnectionOpens, ReadReady, CopyInbox, HandleRefused, HandleMessage, HandlePingresp,
           Environment, BrokerAnswers, BrokerPublishes, BrokerFallsSilent, socketVars
  <2>8. ~UNCHANGED allVars
    BY <1>1 DEF allVars, vars, socketVars
  <2>9. QED
    BY <1>1, <2>1, <2>2, <2>3, <2>4, <2>5, <2>6, <2>7, <2>8 DEF MgrNext, User
<1>2. ReconnectInv /\ [MgrNext]_allVars =>
          [sock = "Unconnected" /\ sock' = "Connecting" => wanted']_allVars
  BY <1>1
<1>3. QED
  BY <1>2, ReconnectInvariance, PTL DEF MgrSpec, NoUnwantedReconnect

-----------------------------------------------------------------------------
(* The back-off. *)

\* The policy's part of an event: nothing, a reset, or one advance.
PolicyStep ==
    \/ UNCHANGED <<delay, tries>>
    \/ delay' = InitialReconnectDelay /\ tries' = 0
    \/ delay' = Advance(delay) /\ tries' = IF tries < MaxTries THEN tries + 1 ELSE tries

LEMMA StepsThePolicy == [MgrNext]_allVars => PolicyStep
<1> SUFFICES ASSUME [MgrNext]_allVars PROVE PolicyStep
  OBVIOUS
<1> USE DEF PolicyStep
<1>1. ASSUME UNCHANGED mgrVars PROVE PolicyStep
  BY <1>1 DEF mgrVars, policyVars
<1>2. ASSUME NEW auto, NEW clean, MgrConnectToHost(auto, clean) PROVE PolicyStep
  BY <1>2 DEF MgrConnectToHost
<1>3. CASE MgrDisconnectFromHost \/ ReconnectFires \/ MgrRejected \/ MgrAttemptFails
  BY <1>3 DEF MgrDisconnectFromHost, ReconnectFires, MgrRejected, MgrAttemptFails, GiveUp,
              policyVars
<1>4. ASSUME NEW t, NEW q, Subscribe(t, q) PROVE PolicyStep
  BY <1>4 DEF Subscribe, policyVars
<1>5. ASSUME NEW t, Unsubscribe(t) PROVE PolicyStep
  BY <1>5 DEF Unsubscribe, policyVars
<1>6. CASE MgrAccepted
  BY <1>6 DEF MgrAccepted
<1>7. CASE MgrConnectionLost \/ MgrFrameLeaves
  BY <1>7 DEF MgrConnectionLost, MgrFrameLeaves, OnDisconnected, ScheduleReconnect, policyVars
<1>8. QED
  BY <1>1, <1>2, <1>3, <1>4, <1>5, <1>6, <1>7
     DEF MgrNext, User, Publish, ForwardedOnly, allVars

\* The number of retries decides the delay.
BackoffInv == tries \in 0 .. MaxTries /\ BackoffFollowsTheTable

LEMMA BackoffInit == MgrInit => BackoffInv
BY DEF MgrInit, BackoffInv, BackoffFollowsTheTable, InitialReconnectDelay, MaxTries

LEMMA BackoffStep == BackoffInv /\ [MgrNext]_allVars => BackoffInv'
<1> SUFFICES ASSUME BackoffInv, PolicyStep PROVE BackoffInv'
  BY StepsThePolicy
<1>1. \/ tries = 0 /\ delay = 5
      \/ tries = 1 /\ delay = 10
      \/ tries = 2 /\ delay = 20
      \/ tries = 3 /\ delay = 40
      \/ tries = 4 /\ delay = 60
      \/ tries = 5 /\ delay = 60
  BY DEF BackoffInv, BackoffFollowsTheTable, MaxTries
<1>2. \/ tries' = 0 /\ delay' = 5
      \/ tries' = 1 /\ delay' = 10
      \/ tries' = 2 /\ delay' = 20
      \/ tries' = 3 /\ delay' = 40
      \/ tries' = 4 /\ delay' = 60
      \/ tries' = 5 /\ delay' = 60
  BY <1>1 DEF PolicyStep, Advance, MaximumReconnectDelay, InitialReconnectDelay, MaxTries
<1>3. QED
  BY <1>2 DEF BackoffInv, BackoffFollowsTheTable, MaxTries

\* The delays are those of the table, through any sequence of losses, successes
\* and connects (MqttReconnectPolicy::advance() and reset(), scheduleReconnect()).
THEOREM BackoffSafe == MgrSpec => []BackoffFollowsTheTable
<1>1. BackoffInv => BackoffFollowsTheTable
  BY DEF BackoffInv
<1>2. QED
  BY <1>1, BackoffInit, BackoffStep, PTL DEF MgrSpec

-----------------------------------------------------------------------------
(* The client under the manager. *)

\* The manager asks of its client what an application may ask (Next), with a burst of
\* SUBSCRIBE frames in the connected() slot, and replaces the client on connecting.
LEMMA MgrFrames ==
    /\ \A t \in Topics : UnsubscribeFrame(t) \in AppFrames
    /\ \A t \in Topics, q \in Qos : SubscribeFrame(t, q) \in AppFrames
    /\ PublishFrame \in AppFrames
BY MgrAssumption

LEMMA MgrStepOfClient ==
    ASSUME [MgrNext]_allVars
    PROVE  \/ [Next]_vars
           \/ MgrAccepted
           \/ \E auto \in Subscriptions, clean \in BOOLEAN : MgrConnectToHost(auto, clean)
<1>1. CASE MgrDisconnectFromHost
  BY <1>1 DEF MgrDisconnectFromHost, Next, Application
<1>2. ASSUME NEW t \in Topics, NEW q \in Qos, Subscribe(t, q) PROVE Next
  BY <1>2, MgrFrames DEF Subscribe, Next, Application
<1>3. ASSUME NEW t \in Topics, Unsubscribe(t) PROVE Next
  BY <1>3, MgrFrames DEF Unsubscribe, Next, Application
<1>4. CASE Publish
  BY <1>4, MgrFrames DEF Publish, Next, Application
<1>5. CASE ReconnectFires
  BY <1>5 DEF ReconnectFires, Next, Application
<1>6. CASE MgrRejected
  <2>1. "REJECTED" \in Replies
    BY DEF Replies, Connacks
  <2>2. QED
    BY <1>6, <2>1 DEF MgrRejected, Next, Handle
<1>7. CASE MgrAttemptFails
  BY <1>7 DEF MgrAttemptFails, Next
<1>8. CASE MgrConnectionLost
  BY <1>8 DEF MgrConnectionLost, Next
<1>9. CASE MgrFrameLeaves
  BY <1>9 DEF MgrFrameLeaves, Next
<1>10. CASE ForwardedOnly
  BY <1>10 DEF ForwardedOnly, Next, Handle
<1>11. CASE UNCHANGED allVars
  BY <1>11 DEF allVars
<1>12. QED
  BY <1>1, <1>2, <1>3, <1>4, <1>5, <1>6, <1>7, <1>8, <1>9, <1>10, <1>11 DEF MgrNext, User

-----------------------------------------------------------------------------
(* restoreSubscriptions(). *)

\* How many keys come up to place i.
Rank(i) == Cardinality({j \in StoredKeys : j <= i})

\* Each of the numbers 1 to the number of keys is the rank of one key.
LEMMA Ranks ==
    /\ IsFiniteSet(StoredKeys) /\ StoredKeys \subseteq DOMAIN TopicOrder
    /\ Cardinality(StoredKeys) \in Nat
    /\ \A i \in StoredKeys : Rank(i) \in 1 .. Cardinality(StoredKeys)
    /\ \A i, j \in StoredKeys : Rank(i) = Rank(j) => i = j
    /\ \A n \in 1 .. Cardinality(StoredKeys) : \E i \in StoredKeys : Rank(i) = n
<1>1. TopicOrder \in Seq(Topics) /\ Len(TopicOrder) \in Nat /\ DOMAIN TopicOrder = 1 .. Len(TopicOrder)
  BY MgrAssumption, LenProperties
<1>2. StoredKeys \subseteq 1 .. Len(TopicOrder)
  BY <1>1 DEF StoredKeys
<1>3. IsFiniteSet(StoredKeys)
  <2>1. IsFiniteSet(1 .. Len(TopicOrder))
    BY <1>1, FS_Interval
  <2>2. QED
    BY <1>2, <2>1, FS_Subset
<1>4. Cardinality(StoredKeys) \in Nat
  BY <1>3, FS_CardinalityType
<1>5. ASSUME NEW i \in StoredKeys
      PROVE  /\ Rank(i) \in 1 .. Cardinality(StoredKeys)
             /\ IsFiniteSet({j \in StoredKeys : j <= i})
  <2>1. i \in {j \in StoredKeys : j <= i} /\ {j \in StoredKeys : j <= i} \subseteq StoredKeys
    BY <1>2
  <2>2. IsFiniteSet({j \in StoredKeys : j <= i}) /\ Rank(i) <= Cardinality(StoredKeys)
    BY <1>3, <2>1, FS_Subset DEF Rank
  <2>3. Rank(i) \in Nat /\ Rank(i) # 0
    BY <2>1, <2>2, FS_CardinalityType, FS_EmptySet DEF Rank
  <2>4. QED
    BY <1>4, <2>2, <2>3
<1>6. ASSUME NEW i \in StoredKeys, NEW j \in StoredKeys, i < j PROVE Rank(i) # Rank(j)
  <2>1. {k \in StoredKeys : k <= i} \subseteq {k \in StoredKeys : k <= j} \ {j}
    <3>1. \A k \in StoredKeys : k \in Int
      BY <1>1, <1>2
    <3>2. i \in Int /\ j \in Int /\ i < j
      BY <1>6, <3>1
    <3>3. ASSUME NEW k \in StoredKeys, k <= i PROVE k <= j /\ k # j
      BY <3>1, <3>2, <3>3
    <3>4. QED
      BY <3>3
  <2>2. j \in {k \in StoredKeys : k <= j}
    BY <1>2
  <2>3. /\ IsFiniteSet({k \in StoredKeys : k <= j} \ {j})
        /\ Cardinality({k \in StoredKeys : k <= j} \ {j}) = Rank(j) - 1
    BY <1>5, <2>2, FS_RemoveElement DEF Rank
  <2>4. Rank(i) <= Rank(j) - 1
    BY <2>1, <2>3, FS_Subset DEF Rank
  <2>5. Rank(i) \in 1 .. Cardinality(StoredKeys) /\ Rank(j) \in 1 .. Cardinality(StoredKeys)
    BY <1>5
  <2>6. QED
    BY <1>4, <2>4, <2>5
<1>7. \A i, j \in StoredKeys : Rank(i) = Rank(j) => i = j
  BY <1>2, <1>6
<1>8. \A n \in 1 .. Cardinality(StoredKeys) : \E i \in StoredKeys : Rank(i) = n
  <2> DEFINE f == [i \in StoredKeys |-> Rank(i)]
             N == 1 .. Cardinality(StoredKeys)
  <2>1. IsFiniteSet(N) /\ Cardinality(N) = Cardinality(StoredKeys)
    BY <1>4, FS_Interval
  <2>2. f \in [StoredKeys -> N]
    BY <1>5
  <2>3. f \in Injection(StoredKeys, N)
    BY <1>7, <2>2 DEF Injection, IsInjective
  <2>4. f \in Surjection(StoredKeys, N)
    BY <2>1, <2>3, FS_Injection
  <2>5. QED
    BY <2>4 DEF Surjection
<1>9. QED
  BY <1>1, <1>2, <1>3, <1>4, <1>5, <1>7, <1>8

\* The frames of restoreSubscriptions(): for each topic that is stored one SUBSCRIBE
\* with its QoS, and no other frame.
LEMMA Restored ==
    ASSUME subs \in Subscriptions
    PROVE  /\ RestoreFrames \in Seq(AppFrames)
           /\ \A n \in 1 .. Len(RestoreFrames) :
                 \E t \in Topics : subs[t] # None /\ RestoreFrames[n] = SubscribeFrame(t, subs[t])
           /\ \A t \in Topics : subs[t] # None =>
                 \E n \in 1 .. Len(RestoreFrames) :
                     /\ RestoreFrames[n].topic = t
                     /\ \A m \in 1 .. Len(RestoreFrames) : RestoreFrames[m].topic = t => m = n
<1> DEFINE N == Cardinality(StoredKeys)
           key(n) == CHOOSE i \in StoredKeys : Rank(i) = n
<1>1. ASSUME NEW n \in 1 .. N PROVE key(n) \in StoredKeys /\ Rank(key(n)) = n
  BY Ranks
<1>2. ASSUME NEW i \in StoredKeys PROVE Rank(i) \in 1 .. N /\ key(Rank(i)) = i
  BY <1>1, Ranks
<1>3. ASSUME NEW n \in 1 .. N
      PROVE  /\ StoredKey(n) = TopicOrder[key(n)]
             /\ StoredKey(n) \in Topics /\ subs[StoredKey(n)] \in Qos
             /\ subs[StoredKey(n)] # None
  <2>1. StoredKey(n) = TopicOrder[key(n)]
    BY DEF StoredKey, Rank
  <2>2. key(n) \in DOMAIN TopicOrder /\ subs[TopicOrder[key(n)]] # None
    BY <1>1 DEF StoredKeys
  <2>3. QED
    BY <2>1, <2>2 DEF Topics, Subscriptions
<1>4. /\ DOMAIN RestoreFrames = 1 .. N
      /\ \A n \in 1 .. N : RestoreFrames[n] = SubscribeFrame(StoredKey(n), subs[StoredKey(n)])
  BY DEF RestoreFrames
<1>5. \A n \in 1 .. N : SubscribeFrame(StoredKey(n), subs[StoredKey(n)]) \in AppFrames
  BY <1>3, MgrFrames
<1>6. RestoreFrames \in Seq(AppFrames) /\ Len(RestoreFrames) = N
  <2>1. N \in Nat
    BY Ranks
  <2>2. RestoreFrames \in [1 .. N -> AppFrames]
    BY <1>5 DEF RestoreFrames
  <2>3. QED
    BY <2>1, <2>2, <1>4, LenProperties
<1>7. ASSUME NEW t \in Topics, subs[t] # None
      PROVE  \E n \in 1 .. N : /\ RestoreFrames[n].topic = t
                               /\ \A m \in 1 .. N : RestoreFrames[m].topic = t => m = n
  <2>1. PICK i \in DOMAIN TopicOrder : TopicOrder[i] = t
    BY DEF Topics
  <2>2. i \in StoredKeys
    BY <1>7, <2>1 DEF StoredKeys
  <2>3. Rank(i) \in 1 .. N /\ StoredKey(Rank(i)) = t
    BY <1>2, <1>3, <2>1, <2>2
  <2>4. ASSUME NEW m \in 1 .. N, StoredKey(m) = t PROVE m = Rank(i)
    <3>1. key(m) \in DOMAIN TopicOrder /\ TopicOrder[key(m)] = t
      BY <1>1, <1>3, <2>4 DEF StoredKeys
    <3>2. key(m) = i
      BY <2>1, <3>1, MgrAssumption
    <3>3. QED
      BY <1>1, <3>2
  <2>5. \A m \in 1 .. N : RestoreFrames[m].topic = StoredKey(m)
    BY <1>4 DEF SubscribeFrame
  <2>6. QED
    BY <2>3, <2>4, <2>5
<1>8. ASSUME NEW n \in 1 .. N
      PROVE  \E t \in Topics : subs[t] # None /\ RestoreFrames[n] = SubscribeFrame(t, subs[t])
  BY <1>3, <1>4
<1>9. QED
  BY <1>6, <1>7, <1>8

-----------------------------------------------------------------------------
(* Types, and the client's invariant. *)

LEMMA ReplacedKeepsClient ==
    ASSUME NEW auto, NEW clean, MgrConnectToHost(auto, clean)
    PROVE  IInv'
<1>1. /\ sock' = "Connecting" /\ pendingClose' = FALSE /\ broker' = "idle"
      /\ wbuf' = <<>> /\ inbox' = <<>> /\ batch' = <<>>
      /\ autoReconnect' = FALSE /\ arTimer' = FALSE
      /\ cstate' = "CONNECTING" /\ keepTimer' = FALSE /\ respTimer' = FALSE
  BY DEF MgrConnectToHost, InEventLoop
<1>2. TypeOK'
  BY <1>1, EmptySeq DEF TypeOK, SocketTypeOK, NetworkTypeOK, ClientTypeOK, BrokerStates
<1>3. Len(wbuf') = 0 /\ Len(inbox') = 0 /\ Len(batch') = 0
  BY <1>1
<1>4. ConnectionInv'
  BY <1>1, <1>3
     DEF ConnectionInv, CleanSlate, NothingUnasked, ConnackFirst, SessionHasConnection,
         ReconnectTimerOnlyOffline, WireOrder
<1>5. QED
  BY <1>2, <1>4 DEF IInv

\* The invariant of the client alone is kept by every step of the manager.
LEMMA MgrKeepsClient ==
    ASSUME IInv, subs \in Subscriptions, [MgrNext]_allVars
    PROVE  IInv'
<1>1. CASE [Next]_vars
  BY <1>1, InvStep
<1>2. CASE MgrAccepted
  BY <1>2, Restored, AcceptedKeeps DEF MgrAccepted
<1>3. ASSUME NEW auto, NEW clean, MgrConnectToHost(auto, clean) PROVE IInv'
  BY <1>3, ReplacedKeepsClient
<1>4. QED
  BY <1>1, <1>2, <1>3, MgrStepOfClient

\* The range of the delays.
LEMMA BackoffRange ==
    ASSUME BackoffInv
    PROVE  delay \in InitialReconnectDelay .. MaximumReconnectDelay
BY DEF BackoffInv, MaxTries, BackoffFollowsTheTable, InitialReconnectDelay, MaximumReconnectDelay

\* An application frame that the broker takes leaves it with subscriptions.
LEMMA AppliedTypes ==
    ASSUME NEW f \in Frames, NEW held \in Subscriptions
    PROVE  BrokerApplies(f, held) \in Subscriptions
<1>1. NoSubscriptions \in Subscriptions
  BY DEF NoSubscriptions, Subscriptions
<1>2. ASSUME NEW t \in Topics, NEW q \in Qos \cup {None}
      PROVE  [held EXCEPT ![t] = q] \in Subscriptions
  BY DEF Subscriptions
<1>3. CASE f.type = "SUBSCRIBE"
  <2>1. f.topic \in Topics /\ f.qos \in Qos
    BY <1>3, MgrAssumption
       DEF Frames, OwnFrames, Connect, Pingreq, Puback, Disconnect, SubscribeFrame,
           UnsubscribeFrame, PublishFrame
  <2>2. QED
    BY <1>2, <1>3, <2>1 DEF BrokerApplies
<1>4. CASE f.type = "UNSUBSCRIBE"
  <2>1. f.topic \in Topics
    BY <1>4, MgrAssumption
       DEF Frames, OwnFrames, Connect, Pingreq, Puback, Disconnect, SubscribeFrame,
           UnsubscribeFrame, PublishFrame
  <2>2. QED
    BY <1>2, <1>4, <2>1 DEF BrokerApplies
<1>5. CASE f.type \notin {"SUBSCRIBE", "UNSUBSCRIBE"}
  BY <1>1, <1>5 DEF BrokerApplies
<1>6. QED
  BY <1>3, <1>4, <1>5

\* The manager's own variables, the back-off and the broker's side apart.
FlagTypes ==
    /\ reconnectTimer \in BOOLEAN /\ manualDisconnect \in BOOLEAN
    /\ reconnectAllowed \in BOOLEAN /\ hasClient \in BOOLEAN
    /\ cleanSession \in BOOLEAN /\ wanted \in BOOLEAN

LEMMA FlagStep == FlagTypes /\ [MgrNext]_allVars => FlagTypes'
<1> SUFFICES ASSUME FlagTypes, [MgrNext]_allVars PROVE FlagTypes'
  OBVIOUS
<1> USE DEF FlagTypes
<1>1. ASSUME NEW auto, NEW clean \in BOOLEAN, MgrConnectToHost(auto, clean) PROVE FlagTypes'
  BY <1>1 DEF MgrConnectToHost
<1>2. CASE MgrDisconnectFromHost
  BY <1>2 DEF MgrDisconnectFromHost
<1>3. CASE \/ \E t \in Topics, q \in Qos : Subscribe(t, q)
           \/ \E t \in Topics : Unsubscribe(t)
  BY <1>3 DEF Subscribe, Unsubscribe, policyVars, userVars
<1>4. CASE Publish \/ ForwardedOnly \/ UNCHANGED allVars
  BY <1>4 DEF Publish, ForwardedOnly, allVars, mgrVars, policyVars, userVars
<1>5. CASE ReconnectFires \/ MgrAccepted
  BY <1>5 DEF ReconnectFires, MgrAccepted, userVars
<1>6. CASE MgrRejected \/ MgrAttemptFails
  BY <1>6 DEF MgrRejected, MgrAttemptFails, GiveUp, policyVars, userVars
<1>7. CASE MgrConnectionLost \/ MgrFrameLeaves
  BY <1>7 DEF MgrConnectionLost, MgrFrameLeaves, OnDisconnected, ScheduleReconnect,
              policyVars, userVars
<1>8. QED
  BY <1>1, <1>2, <1>3, <1>4, <1>5, <1>6, <1>7 DEF MgrNext, User

\* What the manager and the broker hold subscribed.
LEMMA SubscriptionTypes ==
    ASSUME subs \in Subscriptions, brokerSubs \in Subscriptions, TypeOK, [MgrNext]_allVars
    PROVE  subs' \in Subscriptions /\ brokerSubs' \in Subscriptions
<1>1. ASSUME NEW auto \in Subscriptions, NEW clean, MgrConnectToHost(auto, clean)
      PROVE  subs' \in Subscriptions /\ brokerSubs' = brokerSubs
  BY <1>1 DEF MgrConnectToHost
<1>2. CASE \/ \E t \in Topics, q \in Qos : Subscribe(t, q)
           \/ \E t \in Topics : Unsubscribe(t)
  BY <1>2 DEF Subscribe, Unsubscribe, Subscriptions
<1>3. CASE MgrFrameLeaves
  <2>1. subs' = subs /\ Head(wbuf) \in Frames
    BY <1>3, HeadTailProperties DEF MgrFrameLeaves, FrameLeaves, TypeOK, SocketTypeOK
  <2>2. QED
    BY <1>3, <2>1, AppliedTypes DEF MgrFrameLeaves
<1>4. CASE \/ MgrDisconnectFromHost \/ Publish \/ ReconnectFires \/ MgrAccepted \/ MgrRejected
           \/ MgrAttemptFails \/ MgrConnectionLost \/ ForwardedOnly \/ UNCHANGED allVars
  BY <1>4 DEF MgrDisconnectFromHost, Publish, ReconnectFires, MgrAccepted, MgrRejected,
              MgrAttemptFails, MgrConnectionLost, ForwardedOnly, allVars, mgrVars
<1>5. QED
  BY <1>1, <1>2, <1>3, <1>4 DEF MgrNext, User

\* The invariant of the client, the types of the manager, and the back-off, which
\* bounds the delay.
MgrIInv ==
    /\ IInv /\ BackoffInv /\ FlagTypes
    /\ subs \in Subscriptions /\ brokerSubs \in Subscriptions

LEMMA MgrInvStep == MgrIInv /\ [MgrNext]_allVars => MgrIInv'
<1> SUFFICES ASSUME MgrIInv, [MgrNext]_allVars PROVE MgrIInv'
  OBVIOUS
<1>1. IInv'
  BY MgrKeepsClient DEF MgrIInv
<1>2. BackoffInv' /\ FlagTypes'
  BY BackoffStep, FlagStep DEF MgrIInv
<1>3. subs' \in Subscriptions /\ brokerSubs' \in Subscriptions
  BY SubscriptionTypes DEF MgrIInv, IInv
<1>4. QED
  BY <1>1, <1>2, <1>3 DEF MgrIInv

LEMMA MgrInvariance == MgrSpec => []MgrIInv
<1>1. MgrInit => MgrIInv
  <2> SUFFICES ASSUME MgrInit PROVE MgrIInv
    OBVIOUS
  <2>1. IInv /\ BackoffInv
    BY InvInit, BackoffInit DEF MgrInit
  <2>2. FlagTypes
    BY DEF MgrInit, FlagTypes
  <2>3. NoSubscriptions \in Subscriptions
    BY DEF NoSubscriptions, Subscriptions
  <2>4. QED
    BY <2>1, <2>2, <2>3 DEF MgrInit, MgrIInv
<1>2. QED
  BY <1>1, MgrInvStep, PTL DEF MgrSpec

\* Every variable of the manager and of its client stays in its range, for every set
\* of topics and however many frames a restoration sends (mqttclientmgr.cpp,
\* mqttreconnectpolicy.cpp).
THEOREM MgrTypeCorrect == MgrSpec => []MgrTypeOK
<1>1. MgrIInv => MgrTypeOK
  BY BackoffRange DEF MgrIInv, IInv, BackoffInv, FlagTypes, MgrTypeOK
<1>2. QED
  BY <1>1, MgrInvariance, PTL

\* What holds of a client holds of the manager's: it is connected only over a live
\* connection, no ping timeout strikes a later one, CONNECT comes first on the wire
\* and DISCONNECT last (createClient(), restoreSubscriptions(), slot_reconnect()).
THEOREM MgrClientSafe ==
    MgrSpec => [](SessionHasConnection /\ PingTimeoutStrikesItsConnection /\ WireOrder)
<1>1. MgrIInv => SessionHasConnection /\ PingTimeoutStrikesItsConnection /\ WireOrder
  BY DEF MgrIInv, IInv, TypeOK, SocketTypeOK, ConnectionInv, CleanSlate, NothingUnasked,
         PingTimeoutStrikesItsConnection
<1>2. QED
  BY <1>1, MgrInvariance, PTL
-----------------------------------------------------------------------------
(* Subscriptions on their way to the broker. *)

Changes(f, t) == f.type \in {"SUBSCRIBE", "UNSUBSCRIBE"} /\ f.topic = t

\* What the broker holds of a topic after such a frame.
Leaves(f) == IF f.type = "SUBSCRIBE" THEN f.qos ELSE None

Places(w, t) == {i \in DOMAIN w : Changes(w[i], t)}

\* With the frames w on their way to a broker that holds held, topic t ends at v.
Settles(w, held, t, v) ==
    \/ Places(w, t) = {} /\ held[t] = v
    \/ \E i \in Places(w, t) : (\A j \in Places(w, t) : j <= i) /\ Leaves(w[i]) = v

LEMMA SettlesIsEventual ==
    ASSUME wbuf \in Seq(Frames), NEW t, NEW v, Settles(wbuf, brokerSubs, t, v)
    PROVE  Eventual(t) = v
<1>1. About(t) = Places(wbuf, t)
  BY DEF About, Places, Changes
<1>2. CASE Places(wbuf, t) = {}
  BY <1>1, <1>2 DEF Eventual, Settles
<1>3. CASE Places(wbuf, t) # {}
  <2>1. PICK i \in Places(wbuf, t) : (\A j \in Places(wbuf, t) : j <= i) /\ Leaves(wbuf[i]) = v
    BY <1>3 DEF Settles
  <2>2. Places(wbuf, t) \subseteq Nat
    BY LenProperties DEF Places
  <2>3. (CHOOSE k \in About(t) : \A j \in About(t) : j <= k) = i
    BY <1>1, <2>1, <2>2
  <2>4. QED
    BY <1>1, <1>3, <2>1, <2>3 DEF Eventual, Leaves
<1>4. QED
  BY <1>2, <1>3

\* Frames about other things change nothing of it.
LEMMA OthersSettle ==
    ASSUME NEW w \in Seq(Frames), NEW fs \in Seq(Frames), NEW t,
           \A i \in 1 .. Len(fs) : ~Changes(fs[i], t)
    PROVE  /\ Places(w \o fs, t) = Places(w, t)
           /\ \A held, v : Settles(w, held, t, v) => Settles(w \o fs, held, t, v)
<1>1. /\ DOMAIN w = 1 .. Len(w) /\ Len(w) \in Nat /\ Len(fs) \in Nat
      /\ DOMAIN (w \o fs) = 1 .. Len(w) + Len(fs)
      /\ \A i \in 1 .. Len(w) : (w \o fs)[i] = w[i]
      /\ \A i \in Len(w) + 1 .. Len(w) + Len(fs) : (w \o fs)[i] = fs[i - Len(w)]
  BY ConcatProperties, LenProperties
<1>2. ASSUME NEW i \in Places(w \o fs, t) PROVE i \in Places(w, t)
  <2>1. i \in 1 .. Len(w) + Len(fs) /\ Changes((w \o fs)[i], t)
    BY <1>1 DEF Places
  <2>2. CASE i \in 1 .. Len(w)
    BY <1>1, <2>1, <2>2 DEF Places
  <2>3. CASE i \in Len(w) + 1 .. Len(w) + Len(fs)
    <3>1. i - Len(w) \in 1 .. Len(fs)
      BY <1>1, <2>3
    <3>2. QED
      BY <1>1, <2>1, <2>3, <3>1
  <2>4. QED
    BY <1>1, <2>1, <2>2, <2>3
<1>3. ASSUME NEW i \in Places(w, t) PROVE i \in Places(w \o fs, t) /\ (w \o fs)[i] = w[i]
  BY <1>1 DEF Places
<1>4. Places(w \o fs, t) = Places(w, t)
  BY <1>2, <1>3
<1>5. QED
  BY <1>3, <1>4 DEF Settles

\* The last frame about a topic decides it.
LEMMA LastSettles ==
    ASSUME NEW w \in Seq(Frames), NEW fs \in Seq(Frames), NEW t, NEW held,
           NEW n \in 1 .. Len(fs), Changes(fs[n], t),
           \A m \in 1 .. Len(fs) : Changes(fs[m], t) => m = n
    PROVE  Settles(w \o fs, held, t, Leaves(fs[n]))
<1>1. /\ DOMAIN w = 1 .. Len(w) /\ Len(w) \in Nat /\ Len(fs) \in Nat
      /\ DOMAIN (w \o fs) = 1 .. Len(w) + Len(fs)
      /\ \A i \in Len(w) + 1 .. Len(w) + Len(fs) : (w \o fs)[i] = fs[i - Len(w)]
  BY ConcatProperties, LenProperties
<1>2. /\ Len(w) + n \in Len(w) + 1 .. Len(w) + Len(fs)
      /\ Len(w) + n \in 1 .. Len(w) + Len(fs)
      /\ (Len(w) + n) - Len(w) = n
  BY <1>1
<1>3. (w \o fs)[Len(w) + n] = fs[n]
  BY <1>1, <1>2
<1>4. Len(w) + n \in Places(w \o fs, t)
  BY <1>1, <1>2, <1>3 DEF Places
<1>5. ASSUME NEW j \in Places(w \o fs, t) PROVE j <= Len(w) + n
  <2>1. j \in 1 .. Len(w) + Len(fs) /\ Changes((w \o fs)[j], t)
    BY <1>1 DEF Places
  <2>2. CASE j > Len(w)
    <3>1. j \in Len(w) + 1 .. Len(w) + Len(fs) /\ j - Len(w) \in 1 .. Len(fs)
      BY <1>1, <2>1, <2>2
    <3>2. j - Len(w) = n
      BY <1>1, <2>1, <3>1
    <3>3. QED
      BY <1>1, <2>1, <3>2
  <2>3. QED
    BY <1>1, <2>1, <2>2
<1>6. QED
  BY <1>3, <1>4, <1>5 DEF Settles

\* A frame that reaches the broker has the effect it promised.
LEMMA TakenSettles ==
    ASSUME NEW w \in Seq(Frames), w # <<>>, Head(w) # Connect,
           NEW held \in Subscriptions, NEW t \in Topics
    PROVE  /\ Places(w, t) = {} => /\ Places(Tail(w), t) = {}
                                   /\ BrokerApplies(Head(w), held)[t] = held[t]
           /\ \A v : Settles(w, held, t, v) =>
                         Settles(Tail(w), BrokerApplies(Head(w), held), t, v)
<1> DEFINE f == Head(w)
           now == BrokerApplies(f, held)
<1>1. /\ Len(w) \in Nat \ {0} /\ DOMAIN w = 1 .. Len(w) /\ f = w[1] /\ f \in Frames
      /\ DOMAIN Tail(w) = 1 .. Len(w) - 1
      /\ \A i \in 1 .. Len(w) - 1 : Tail(w)[i] = w[i + 1]
  BY HeadTailProperties, LenProperties, EmptySeq, ElementOfSeq
<1>2. /\ \A i \in Places(Tail(w), t) : i + 1 \in Places(w, t) /\ Tail(w)[i] = w[i + 1]
      /\ \A i \in Places(w, t) : i # 1 => i - 1 \in Places(Tail(w), t) /\ Tail(w)[i - 1] = w[i]
      /\ Places(w, t) \subseteq Nat \ {0} /\ Places(Tail(w), t) \subseteq Nat \ {0}
      /\ 1 \in Places(w, t) <=> Changes(f, t)
  BY <1>1 DEF Places
<1>3. now[t] = IF Changes(f, t) THEN Leaves(f) ELSE held[t]
  <2>1. f.type # "CONNECT"
    BY <1>1, FrameFacts
  <2>2. CASE f.type = "SUBSCRIBE"
    BY <2>2 DEF BrokerApplies, Subscriptions, Changes, Leaves
  <2>3. CASE f.type = "UNSUBSCRIBE"
    BY <2>3 DEF BrokerApplies, Subscriptions, Changes, Leaves
  <2>4. CASE f.type \notin {"SUBSCRIBE", "UNSUBSCRIBE"}
    BY <2>1, <2>4 DEF BrokerApplies, Changes
  <2>5. QED
    BY <2>2, <2>3, <2>4
<1> HIDE DEF f, now
<1>4. Places(w, t) = {} => Places(Tail(w), t) = {} /\ now[t] = held[t]
  BY <1>2, <1>3
<1>5. ASSUME NEW v, NEW i \in Places(w, t), \A j \in Places(w, t) : j <= i, Leaves(w[i]) = v
      PROVE  Settles(Tail(w), now, t, v)
  <2>1. CASE i = 1
    <3>1. ASSUME NEW j \in Places(Tail(w), t) PROVE FALSE
      <4>1. j + 1 <= 1 /\ j \in Nat \ {0}
        BY <1>2, <1>5, <2>1
      <4>2. QED
        BY <4>1
    <3>2. QED
      BY <1>1, <1>2, <1>3, <1>5, <2>1, <3>1 DEF Settles
  <2>2. CASE i # 1
    <3>1. i - 1 \in Places(Tail(w), t) /\ Tail(w)[i - 1] = w[i]
      BY <1>2, <2>2
    <3>2. \A j \in Places(Tail(w), t) : j <= i - 1
      BY <1>2, <1>5
    <3>3. QED
      BY <1>5, <3>1, <3>2 DEF Settles
  <2>3. QED
    BY <2>1, <2>2
<1>6. ASSUME NEW v, Settles(w, held, t, v) PROVE Settles(Tail(w), now, t, v)
  BY <1>4, <1>5, <1>6 DEF Settles
<1>7. QED
  BY <1>4, <1>6 DEF f, now

\* The inductive invariant of the restoration.  A connection that is open and not yet
\* accepted has no frame about a topic on its way, and a broker that took the CONNECT
\* of a clean session holds nothing; in a session what is stored, or in a clean one
\* every topic, ends as the manager has it.
BrokerInv ==
    /\ sock = "Connected" /\ cstate # "CONNECTED" => \A t \in Topics : Places(wbuf, t) = {}
    /\ sock = "Connected" /\ cstate # "CONNECTED" /\ cleanSession /\ broker \in {"greeted", "serving"} =>
           brokerSubs = NoSubscriptions
    /\ cstate = "CONNECTED" /\ broker = "serving" =>
           \A t \in Topics : subs[t] # None \/ cleanSession => Settles(wbuf, brokerSubs, t, subs[t])

LEMMA BrokerInvSafe == MgrIInv /\ BrokerInv => SubscriptionsReachBroker
<1> SUFFICES ASSUME MgrIInv, BrokerInv, IsConnected, broker = "serving", NEW t \in Topics,
                    subs[t] # None \/ cleanSession
             PROVE  Eventual(t) = subs[t]
  BY DEF SubscriptionsReachBroker
<1>1. Settles(wbuf, brokerSubs, t, subs[t])
  BY DEF BrokerInv, IsConnected
<1>2. QED
  BY <1>1, SettlesIsEventual DEF MgrIInv, IInv, TypeOK, SocketTypeOK

\* The client's own frames are about no topic.
LEMMA OwnFramesChangeNothing ==
    \A f \in OwnFrames \cup {PublishFrame}, t \in Topics : ~Changes(f, t)
BY DEF OwnFrames, Connect, Pingreq, Puback, Disconnect, PublishFrame, Changes

\* Sending such frames.
LEMMA QuietSendKeeps ==
    ASSUME MgrIInv, BrokerInv, NEW fs \in Seq(OwnFrames \cup {PublishFrame}), Send(fs),
           UNCHANGED <<sock, cstate, broker, subs, brokerSubs, cleanSession>>
    PROVE  BrokerInv'
<1>1. OwnFrames \cup {PublishFrame} \subseteq Frames
  BY MgrFrames DEF Frames
<1>2. fs \in Seq(Frames) /\ \A i \in 1 .. Len(fs), t \in Topics : ~Changes(fs[i], t)
  BY <1>1, SeqMonotonic, ElementOfSeq, OwnFramesChangeNothing
<1>3. wbuf \in Seq(Frames)
  BY DEF MgrIInv, IInv, TypeOK, SocketTypeOK
<1>4. ASSUME NEW t \in Topics
      PROVE  /\ Places(wbuf', t) = Places(wbuf, t)
             /\ \A held, v : Settles(wbuf, held, t, v) => Settles(wbuf', held, t, v)
  BY <1>2, <1>3, OthersSettle DEF Send
<1>5. QED
  BY <1>4 DEF BrokerInv

\* Without a connection there is nothing to keep; nor with one that closes.
LEMMA NoSessionKeeps ==
    ASSUME sock' # "Connected", cstate' # "CONNECTED"
    PROVE  BrokerInv'
BY DEF BrokerInv

\* A call of subscribe() or unsubscribe(): its frame decides its topic.
LEMMA TopicCallKeeps ==
    ASSUME MgrIInv, BrokerInv, IsConnected, NEW t \in Topics, NEW q \in Qos \cup {None},
           NEW f \in Frames, Changes(f, t), Leaves(f) = q, Send(<<f>>),
           subs' = [subs EXCEPT ![t] = q],
           UNCHANGED <<sock, cstate, broker, brokerSubs, cleanSession>>
    PROVE  BrokerInv'
<1>1. sock = "Connected" /\ cstate = "CONNECTED"
  BY DEF MgrIInv, IInv, ConnectionInv, SessionHasConnection, IsConnected
<1>2. wbuf \in Seq(Frames) /\ <<f>> \in Seq(Frames) /\ Len(<<f>>) = 1 /\ wbuf' = wbuf \o <<f>>
  BY <1>1 DEF MgrIInv, IInv, TypeOK, SocketTypeOK, Send
<1>3. Settles(wbuf', brokerSubs, t, q) /\ subs'[t] = q
  <2>1. /\ 1 \in 1 .. Len(<<f>>) /\ <<f>>[1] = f
        /\ \A m \in 1 .. Len(<<f>>) : Changes(<<f>>[m], t) => m = 1
    BY <1>2
  <2>2. Settles(wbuf \o <<f>>, brokerSubs, t, Leaves(<<f>>[1]))
    BY <1>2, <2>1, LastSettles
  <2>3. subs'[t] = q
    BY DEF MgrIInv, Subscriptions
  <2>4. QED
    BY <1>2, <2>1, <2>2, <2>3
<1>4. ASSUME NEW u \in Topics, u # t
      PROVE  /\ subs'[u] = subs[u]
             /\ \A held, v : Settles(wbuf, held, u, v) => Settles(wbuf', held, u, v)
  <2>1. ~Changes(f, u)
    BY <1>4 DEF Changes
  <2>2. \A i \in 1 .. Len(<<f>>) : ~Changes(<<f>>[i], u)
    BY <2>1
  <2>3. subs'[u] = subs[u]
    BY <1>4 DEF MgrIInv, Subscriptions
  <2>4. QED
    BY <1>2, <2>2, <2>3, OthersSettle
<1>5. QED
  BY <1>1, <1>3, <1>4 DEF BrokerInv

\* The session begins and restoreSubscriptions() runs: every stored topic ends at its
\* QoS; in a clean session the others are still at none.
LEMMA AcceptedKeepsBroker == MgrIInv /\ BrokerInv /\ MgrAccepted => BrokerInv'
<1> SUFFICES ASSUME MgrIInv, BrokerInv, MgrAccepted PROVE BrokerInv'
  OBVIOUS
<1>1. /\ sock = "Connected" /\ cstate # "CONNECTED" /\ cstate' = "CONNECTED"
      /\ wbuf' = wbuf \o RestoreFrames
      /\ UNCHANGED <<sock, broker, subs, brokerSubs, cleanSession>>
  BY TakesFacts DEF MgrAccepted, HandleAccepted, Send, userVars, MgrIInv, Connacks
<1>2. wbuf \in Seq(Frames) /\ \A t \in Topics : Places(wbuf, t) = {}
  BY <1>1 DEF MgrIInv, IInv, TypeOK, SocketTypeOK, BrokerInv
<1>3. RestoreFrames \in Seq(Frames)
  BY Restored, FrameFacts, SeqMonotonic DEF MgrIInv
<1>4. ASSUME NEW n \in 1 .. Len(RestoreFrames)
      PROVE  /\ RestoreFrames[n].type = "SUBSCRIBE"
             /\ subs[RestoreFrames[n].topic] # None
             /\ RestoreFrames[n].qos = subs[RestoreFrames[n].topic]
  <2>1. PICK t \in Topics : subs[t] # None /\ RestoreFrames[n] = SubscribeFrame(t, subs[t])
    BY Restored DEF MgrIInv
  <2>2. QED
    BY <2>1 DEF SubscribeFrame
<1>5. ASSUME NEW t \in Topics, subs[t] # None
      PROVE  Settles(wbuf', brokerSubs, t, subs[t])
  <2>1. PICK n \in 1 .. Len(RestoreFrames) :
            /\ RestoreFrames[n].topic = t
            /\ \A m \in 1 .. Len(RestoreFrames) : RestoreFrames[m].topic = t => m = n
    BY <1>5, Restored DEF MgrIInv
  <2>2. Changes(RestoreFrames[n], t) /\ Leaves(RestoreFrames[n]) = subs[t]
    BY <1>4, <2>1 DEF Changes, Leaves
  <2>3. \A m \in 1 .. Len(RestoreFrames) : Changes(RestoreFrames[m], t) => m = n
    BY <2>1 DEF Changes
  <2>4. Settles(wbuf \o RestoreFrames, brokerSubs, t, Leaves(RestoreFrames[n]))
    BY <1>2, <1>3, <2>2, <2>3, LastSettles
  <2>5. QED
    BY <1>1, <2>2, <2>4
<1>6. ASSUME NEW t \in Topics, subs[t] = None, cleanSession, broker = "serving"
      PROVE  Settles(wbuf', brokerSubs, t, subs[t])
  <2>1. \A n \in 1 .. Len(RestoreFrames) : ~Changes(RestoreFrames[n], t)
    BY <1>4, <1>6 DEF Changes
  <2>2. Settles(wbuf, brokerSubs, t, subs[t])
    BY <1>1, <1>2, <1>6 DEF BrokerInv, NoSubscriptions, Settles
  <2>3. QED
    BY <1>1, <1>2, <1>3, <2>1, <2>2, OthersSettle
<1>7. QED
  BY <1>1, <1>5, <1>6 DEF BrokerInv

\* A frame reaches the broker, or is lost on a silent path.
LEMMA FrameLeavesKeepsBroker == MgrIInv /\ BrokerInv /\ MgrFrameLeaves => BrokerInv'
<1> SUFFICES ASSUME MgrIInv, BrokerInv, MgrFrameLeaves PROVE BrokerInv'
  OBVIOUS
<1>1. FrameLeaves /\ UNCHANGED <<subs, cleanSession>>
  BY DEF MgrFrameLeaves, userVars
<1>2. CASE sock = "Closing" /\ Len(wbuf) = 1
  BY <1>1, <1>2, NoSessionKeeps DEF FrameLeaves, Dropped, Disconnected
<1>3. CASE ~(sock = "Closing" /\ Len(wbuf) = 1)
  <2>1. /\ wbuf \in Seq(Frames) /\ wbuf # <<>> /\ wbuf' = Tail(wbuf) /\ BrokerTakes(Head(wbuf))
        /\ UNCHANGED <<sock, cstate>> /\ brokerSubs \in Subscriptions /\ Head(wbuf) \in Frames
    BY <1>1, <1>3, HeadTailProperties
       DEF FrameLeaves, clientVars, MgrIInv, IInv, TypeOK, SocketTypeOK
  <2>2. brokerSubs' = IF broker = "silent" THEN brokerSubs ELSE BrokerApplies(Head(wbuf), brokerSubs)
    BY DEF MgrFrameLeaves
  <2>3. \A t : Places(wbuf, t) = {} => Places(wbuf', t) = {}
    BY <2>1, HeadTailProperties, LenProperties, EmptySeq DEF Places
  <2>4. CASE broker = "silent"
    <3>1. broker' = "silent"
      BY <2>1, <2>4 DEF BrokerTakes
    <3>2. QED
      BY <2>1, <2>3, <3>1 DEF BrokerInv
  <2>5. CASE broker # "silent" /\ Head(wbuf) = Connect
    <3>1. cstate # "CONNECTED"
      <4>1. 1 \in DOMAIN wbuf /\ wbuf[1] = Connect
        BY <2>1, <2>5, LenProperties, EmptySeq
      <4>2. broker = "idle"
        BY <2>5, <4>1 DEF MgrIInv, IInv, ConnectionInv, WireOrder
      <4>3. QED
        BY <4>2 DEF MgrIInv, IInv, ConnectionInv, NothingUnasked
    <3>2. cleanSession => brokerSubs' = NoSubscriptions
      BY <2>2, <2>5 DEF BrokerApplies, Connect
    <3>3. QED
      BY <1>1, <2>1, <2>3, <3>1, <3>2 DEF BrokerInv
  <2>6. CASE broker # "silent" /\ Head(wbuf) # Connect
    <3>1. broker' = broker /\ brokerSubs' = BrokerApplies(Head(wbuf), brokerSubs)
      BY <2>1, <2>2, <2>6, FrameFacts DEF BrokerTakes
    <3>2. ASSUME NEW t \in Topics
          PROVE  /\ Places(wbuf, t) = {} => brokerSubs'[t] = brokerSubs[t]
                 /\ \A v : Settles(wbuf, brokerSubs, t, v) => Settles(wbuf', brokerSubs', t, v)
      BY <2>1, <2>6, <3>1, TakenSettles
    <3>3. brokerSubs' \in Subscriptions
      BY <2>1, <3>1, AppliedTypes
    <3>4. (\A t \in Topics : Places(wbuf, t) = {}) /\ brokerSubs = NoSubscriptions =>
              brokerSubs' = NoSubscriptions
      BY <3>2, <3>3 DEF Subscriptions, NoSubscriptions
    <3>5. QED
      BY <1>1, <2>1, <2>3, <3>1, <3>2, <3>4 DEF BrokerInv
  <2>7. QED
    BY <2>4, <2>5, <2>6
<1>4. QED
  BY <1>2, <1>3

LEMMA ForwardedKeepsBroker == MgrIInv /\ BrokerInv /\ ForwardedOnly => BrokerInv'
<1> SUFFICES ASSUME MgrIInv, BrokerInv, ForwardedOnly PROVE BrokerInv'
  OBVIOUS
<1>1. UNCHANGED <<subs, brokerSubs, cleanSession>>
  BY DEF ForwardedOnly, mgrVars, userVars
<1>2. <<Pingreq>> \in Seq(OwnFrames \cup {PublishFrame}) /\ <<Puback>> \in Seq(OwnFrames \cup {PublishFrame})
  BY DEF OwnFrames
<1>3. CASE KeepAliveFires
  <2>1. UNCHANGED <<sock, cstate, broker>>
    BY <1>3 DEF KeepAliveFires
  <2>2. CASE Send(<<Pingreq>>)
    BY <1>1, <1>2, <2>1, <2>2, QuietSendKeeps
  <2>3. CASE UNCHANGED wbuf
    BY <1>1, <2>1, <2>3 DEF BrokerInv
  <2>4. QED
    BY <1>3, <2>2, <2>3 DEF KeepAliveFires
<1>4. CASE PingTimeout
  BY <1>4, NoSessionKeeps DEF PingTimeout, HangUp, HangUpAfter
<1>5. CASE SocketConnects
  <2>1. wbuf' = <<Connect>> /\ broker' = "idle" /\ cstate' # "CONNECTED"
    BY <1>5 DEF SocketConnects, ConnectionOpens, MgrIInv, IInv, ConnectionInv, CleanSlate
  <2>2. \A t \in Topics : Places(wbuf', t) = {}
    BY <2>1, OwnFramesChangeNothing DEF Places, OwnFrames
  <2>3. QED
    BY <2>1, <2>2 DEF BrokerInv
<1>6. CASE ReadReady \/ HandleRefused("UNAVAILABLE") \/ HandlePingresp
  BY <1>1, <1>6 DEF ReadReady, CopyInbox, HandleRefused, HandlePingresp, socketVars, clientVars,
                    BrokerInv
<1>7. CASE HandleMessage
  BY <1>1, <1>2, <1>7, QuietSendKeeps DEF HandleMessage
<1>8. CASE Environment
  <2>1. UNCHANGED <<sock, wbuf, cstate>>
    BY <1>8 DEF Environment, BrokerAnswers, BrokerPublishes, BrokerFallsSilent, clientVars
  <2>2. CASE \E connack \in Connacks : BrokerAnswers(connack)
    <3>1. broker = "greeted" /\ cstate # "CONNECTED"
      BY <2>2 DEF BrokerAnswers, MgrIInv, IInv, ConnectionInv, NothingUnasked
    <3>2. QED
      BY <1>1, <2>1, <3>1 DEF BrokerInv
  <2>3. CASE BrokerPublishes \/ BrokerFallsSilent
    BY <1>1, <2>1, <2>3 DEF BrokerPublishes, BrokerFallsSilent, BrokerInv
  <2>4. QED
    BY <1>8, <2>2, <2>3 DEF Environment
<1>9. QED
  BY <1>3, <1>4, <1>5, <1>6, <1>7, <1>8 DEF ForwardedOnly

LEMMA BrokerStep == MgrIInv /\ BrokerInv /\ [MgrNext]_allVars => BrokerInv'
<1> SUFFICES ASSUME MgrIInv, BrokerInv, [MgrNext]_allVars PROVE BrokerInv'
  OBVIOUS
<1>1. ASSUME NEW auto, NEW clean, MgrConnectToHost(auto, clean) PROVE BrokerInv'
  BY <1>1, NoSessionKeeps DEF MgrConnectToHost
<1>2. ASSUME UNCHANGED <<vars, subs, brokerSubs, cleanSession>> PROVE BrokerInv'
  BY <1>2 DEF vars, socketVars, clientVars, BrokerInv
<1>3. CASE MgrDisconnectFromHost
  BY <1>2, <1>3, NoSessionKeeps DEF MgrDisconnectFromHost, DisconnectFromHost, HangUp, HangUpAfter
<1>4. ASSUME NEW t \in Topics, NEW q \in Qos, Subscribe(t, q) PROVE BrokerInv'
  <2>1. SubscribeFrame(t, q) \in Frames
    BY MgrFrames, FrameFacts
  <2>2. Changes(SubscribeFrame(t, q), t) /\ Leaves(SubscribeFrame(t, q)) = q
    BY DEF Changes, Leaves, SubscribeFrame
  <2>3. QED
    BY <1>4, <2>1, <2>2, TopicCallKeeps DEF Subscribe, AppSends, userVars
<1>5. ASSUME NEW t \in Topics, Unsubscribe(t) PROVE BrokerInv'
  <2>1. UnsubscribeFrame(t) \in Frames
    BY MgrFrames, FrameFacts
  <2>2. Changes(UnsubscribeFrame(t), t) /\ Leaves(UnsubscribeFrame(t)) = None
    BY DEF Changes, Leaves, UnsubscribeFrame
  <2>3. QED
    BY <1>5, <2>1, <2>2, TopicCallKeeps DEF Unsubscribe, AppSends, userVars
<1>6. CASE Publish
  <2>1. <<PublishFrame>> \in Seq(OwnFrames \cup {PublishFrame})
    OBVIOUS
  <2>2. QED
    BY <1>6, <2>1, QuietSendKeeps DEF Publish, AppSends, mgrVars, userVars
<1>7. CASE ReconnectFires
  <2>1. CASE ConnectToHost
    BY <2>1, NoSessionKeeps
       DEF ConnectToHost, AttemptBegins, CloseWaits, CloseAtOnce, Dropped, Disconnected
  <2>2. QED
    BY <1>2, <1>7, <2>1 DEF ReconnectFires, userVars
<1>8. CASE MgrRejected
  BY <1>8, NoSessionKeeps DEF MgrRejected, HandleThenHangUp, HangUpAfter
<1>9. CASE MgrAttemptFails
  <2>1. cstate' # "CONNECTED" /\ sock' # "Connected"
    BY <1>9 DEF MgrAttemptFails, AttemptFails, Dropped, MgrIInv, IInv, ConnectionInv, CleanSlate
  <2>2. QED
    BY <2>1, NoSessionKeeps
<1>10. CASE MgrConnectionLost
  BY <1>10, NoSessionKeeps DEF MgrConnectionLost, ConnectionLost, Dropped, Disconnected
<1>11. CASE UNCHANGED allVars
  BY <1>2, <1>11 DEF allVars, mgrVars, userVars
<1>12. QED
  BY <1>1, <1>3, <1>4, <1>5, <1>6, <1>7, <1>8, <1>9, <1>10, <1>11,
     AcceptedKeepsBroker, FrameLeavesKeepsBroker, ForwardedKeepsBroker
     DEF MgrNext, User

\* In a session the broker holds, or is about to hold, every subscription the manager
\* has, through any sequence of losses, reconnects, calls and lost frames: nothing is
\* forgotten by restoreSubscriptions(), and in a clean session nothing is left over.
THEOREM SubscriptionsSafe == MgrSpec => []SubscriptionsReachBroker
<1>1. MgrInit => BrokerInv
  BY DEF MgrInit, Init, SocketInit, ClientInit, BrokerInv
<1>2. MgrIInv /\ BrokerInv /\ [MgrNext]_allVars => BrokerInv'
  BY BrokerStep
<1>3. QED
  BY <1>1, <1>2, BrokerInvSafe, MgrInvariance, PTL DEF MgrSpec

-----------------------------------------------------------------------------
(* Refinement of Link, which speaks of the client alone. *)

LEMMA MgrStepRefines == MgrIInv /\ [MgrNext]_allVars => [LinkLife!Next]_phase
<1> SUFFICES ASSUME MgrIInv, [MgrNext]_allVars PROVE [LinkLife!Next]_phase
  OBVIOUS
<1>1. IInv /\ sock \in {"Unconnected", "Connecting", "Connected", "Closing"}
  BY DEF MgrIInv, IInv, TypeOK, SocketTypeOK
<1>2. CASE [Next]_vars
  BY <1>1, <1>2, StepRefines
<1>3. CASE MgrAccepted
  <2>1. Takes("ACCEPTED") /\ cstate' = "CONNECTED" /\ sock' = sock
    BY <1>3 DEF MgrAccepted, HandleAccepted
  <2>2. sock = "Connected" /\ cstate # "CONNECTED"
    BY <1>1, <2>1, TakesFacts DEF Connacks
  <2>3. QED
    BY <2>1, <2>2 DEF LinkLife!Next, LinkLife!Accepted, phase
<1>4. ASSUME NEW auto \in Subscriptions, NEW clean \in BOOLEAN, MgrConnectToHost(auto, clean)
      PROVE  [LinkLife!Next]_phase
  BY <1>1, <1>4 DEF MgrConnectToHost, LinkLife!Next, LinkLife!Gone, phase
<1>5. QED
  BY <1>2, <1>3, <1>4, MgrStepOfClient

\* Under the manager too connected() is emitted at most once per connection, after it
\* opened and never after the client hung up: although connectToHost() drops a client
\* in any state, and the connected() slot sends the whole store from inside a handler.
THEOREM MgrImplementsLink == MgrSpec => ImplementsLink
<1>1. MgrInit => LinkLife!Init
  BY InitRefines DEF MgrInit
<1>2. QED
  BY <1>1, MgrStepRefines, MgrInvariance, PTL DEF MgrSpec, ImplementsLink, LinkLife!Spec

-----------------------------------------------------------------------------
(* The window's own variables. *)

WindowOwnTypes ==
    /\ shown \in BOOLEAN
    /\ account \in Accounts
    /\ keepAlive \in KeepAlives
    /\ box \in {0, 1} /\ translator \in {0, 1} /\ texts \in {0, 1}
    /\ languageChange \in BOOLEAN
    /\ translator = box
    /\ texts # translator => languageChange

LEMMA WindowOwnInit == WindowInit => WindowOwnTypes
  BY WindowAssumption DEF WindowInit, WindowOwnTypes

LEMMA WindowOwnStep == WindowOwnTypes /\ [WindowNext]_windowVars => WindowOwnTypes'
<1> SUFFICES ASSUME WindowOwnTypes, [WindowNext]_windowVars PROVE WindowOwnTypes'
  OBVIOUS
<1> USE DEF WindowOwnTypes
<1>1. ASSUME UNCHANGED wgtVars PROVE WindowOwnTypes'
  BY <1>1 DEF wgtVars, entryVars, languageVars
<1>2. CASE \/ ConnectClicked \/ DisconnectClicked \/ SubscribeClicked \/ UnsubscribeClicked
           \/ PublishClicked \/ LoggedOnly \/ UNCHANGED windowVars
  BY <1>1, <1>2 DEF ConnectClicked, DisconnectClicked, SubscribeClicked, UnsubscribeClicked,
                    PublishClicked, LoggedOnly, windowVars
<1>3. CASE Edit
  BY <1>3 DEF Edit, languageVars
<1>4. ASSUME NEW index \in {0, 1}, NEW loads \in BOOLEAN, LanguageChosen(index, loads)
      PROVE  WindowOwnTypes'
  BY <1>4 DEF LanguageChosen, entryVars
<1>5. CASE LanguageChange
  <2>1. IsConnected \in BOOLEAN
    BY DEF IsConnected
  <2>2. QED
    BY <1>5, <2>1, WindowAssumption DEF LanguageChange
<1>6. CASE Connected
  BY <1>6 DEF Connected, entryVars, languageVars
<1>7. CASE ConnectionEnds
  BY <1>7 DEF ConnectionEnds, entryVars, languageVars
<1>8. QED
  BY <1>2, <1>3, <1>4, <1>5, <1>6, <1>7 DEF WindowNext, WindowUser

-----------------------------------------------------------------------------
(* The window over the manager. *)

\* The account that may be subscribed has one of the topics.
LEMMA InboxIsTopic ==
    ASSUME NEW a \in Accounts, IsAccountIdValid(a)
    PROVE  InboxTopic(a) \in Topics
<1>1. InboxTopic(a) = <<"user", a, "inbox">> /\ <<"user", a, "inbox">> # <<>>
  BY DEF InboxTopic
<1>2. QED
  BY <1>1, WindowAssumption

\* A click and a signal are steps of the manager; the rest leave it alone.
LEMMA WindowStepOfMgr ==
    ASSUME account \in Accounts, [WindowNext]_windowVars
    PROVE  [MgrNext]_allVars
<1>1. CASE ConnectClicked
  <2>1. PICK clean \in BOOLEAN, q \in Qos :
            MgrConnectToHost([t \in Topics |-> IF t = InboxTopic(account) THEN q ELSE None], clean)
    BY <1>1 DEF ConnectClicked
  <2> DEFINE auto == [t \in Topics |-> IF t = InboxTopic(account) THEN q ELSE None]
  <2>2. auto \in Subscriptions
    BY DEF Subscriptions
  <2>3. \A t1, t2 \in Topics : auto[t1] # None /\ auto[t2] # None => t1 = t2
    OBVIOUS
  <2>4. User
    BY <2>1, <2>2, <2>3 DEF User
  <2>5. QED
    BY <2>4 DEF MgrNext
<1>2. CASE DisconnectClicked
  BY <1>2 DEF DisconnectClicked, User, MgrNext
<1>3. CASE SubscribeClicked \/ UnsubscribeClicked \/ PublishClicked
  BY <1>3, InboxIsTopic DEF SubscribeClicked, UnsubscribeClicked, PublishClicked, User, MgrNext
<1>4. CASE \/ Edit \/ LanguageChange \/ UNCHANGED windowVars
           \/ \E index \in {0, 1}, loads \in BOOLEAN : LanguageChosen(index, loads)
  BY <1>4 DEF Edit, LanguageChange, LanguageChosen, windowVars
<1>5. CASE Connected \/ ConnectionEnds \/ LoggedOnly
  BY <1>5 DEF Connected, ConnectionEnds, LoggedOnly, MgrNext
<1>6. QED
  BY <1>1, <1>2, <1>3, <1>4, <1>5 DEF WindowNext, WindowUser

-----------------------------------------------------------------------------
(* What is shown. *)

LEMMA ShownStep ==
    ASSUME MgrIInv, ReconnectInv, ShownAsItIs, WindowOwnTypes, [WindowNext]_windowVars
    PROVE  ShownAsItIs'
<1> USE DEF ShownAsItIs
<1>1. /\ IsConnected => shown /\ sock = "Connected"
      /\ shown => sock \in {"Connected", "Closing"}
      /\ shown \in BOOLEAN
  BY DEF MgrIInv, IInv, ConnectionInv, SessionHasConnection, IsConnected, WindowOwnTypes
\* A client that is not more connected than before, over a connection that is not gone.
<1>2. ASSUME UNCHANGED wgtVars, IsConnected' => IsConnected,
             sock \in {"Connected", "Closing"} => sock' \in {"Connected", "Closing"}
      PROVE  ShownAsItIs'
  BY <1>1, <1>2 DEF wgtVars
<1>3. ASSUME NEW fs, HangUpAfter(fs), hasClient' = hasClient, UNCHANGED wgtVars PROVE ShownAsItIs'
  BY <1>2, <1>3 DEF HangUpAfter, IsConnected
<1>4. CASE ConnectClicked
  <2>1. cstate' = "CONNECTING" /\ ~shown /\ shown' = shown
    BY <1>4 DEF ConnectClicked, MgrConnectToHost, wgtVars
  <2>2. QED
    BY <2>1 DEF IsConnected
<1>5. CASE DisconnectClicked
  <2>1. hasClient' = hasClient /\ UNCHANGED wgtVars
    BY <1>5 DEF DisconnectClicked, MgrDisconnectFromHost
  <2>2. CASE DisconnectFromHost
    BY <1>3, <2>1, <2>2 DEF DisconnectFromHost, HangUp
  <2>3. CASE UNCHANGED vars
    BY <1>2, <2>1, <2>3 DEF vars, socketVars, clientVars, IsConnected
  <2>4. QED
    BY <1>5, <2>2, <2>3 DEF DisconnectClicked, MgrDisconnectFromHost
<1>6. CASE SubscribeClicked \/ UnsubscribeClicked \/ PublishClicked
  BY <1>2, <1>6
     DEF SubscribeClicked, UnsubscribeClicked, PublishClicked, Subscribe, Unsubscribe, Publish,
         AppSends, mgrVars, userVars, IsConnected
<1>7. CASE \/ Edit \/ UNCHANGED windowVars
           \/ \E index \in {0, 1}, loads \in BOOLEAN : LanguageChosen(index, loads)
  BY <1>1, <1>7
     DEF Edit, LanguageChosen, windowVars, wgtVars, allVars, vars, socketVars, clientVars, mgrVars,
         userVars, IsConnected
<1>8. CASE LanguageChange
  BY <1>1, <1>8
     DEF LanguageChange, allVars, vars, socketVars, clientVars, mgrVars, userVars, IsConnected
<1>9. CASE Connected
  <2>1. sock = "Connected" /\ sock' = sock /\ shown' = TRUE
    BY <1>9, TakesFacts DEF Connected, MgrAccepted, HandleAccepted, MgrIInv, Connacks
  <2>2. QED
    BY <2>1
<1>10. CASE ConnectionEnds
  <2>1. hasClient' = hasClient /\ shown' = (shown /\ sock' # "Unconnected")
    BY <1>10 DEF ConnectionEnds, MgrConnectionLost, MgrFrameLeaves, userVars
  <2>2. \/ sock' = "Unconnected" /\ cstate' = "DISCONNECTED"
        \/ UNCHANGED <<sock, cstate>>
    BY <1>10
       DEF ConnectionEnds, MgrConnectionLost, ConnectionLost, MgrFrameLeaves, FrameLeaves, Dropped,
           Disconnected, clientVars
  <2>3. QED
    BY <1>1, <2>1, <2>2 DEF IsConnected
<1>11. CASE LoggedOnly
  <2>1. UNCHANGED wgtVars
    BY <1>11 DEF LoggedOnly
  <2>2. CASE ReconnectFires
    <3>1. ~shown /\ ~IsConnected
      BY <1>1, <2>2 DEF ReconnectFires, ReconnectInv, ReconnectTimerOnlyWhenWanted
    <3>2. ~IsConnected'
      <4>1. CASE ConnectToHost
        BY <4>1 DEF ConnectToHost, Disconnected, IsConnected
      <4>2. CASE UNCHANGED vars
        BY <2>2, <3>1, <4>2 DEF ReconnectFires, vars, clientVars, userVars, IsConnected
      <4>3. QED
        BY <2>2, <4>1, <4>2 DEF ReconnectFires
    <3>3. QED
      BY <2>1, <3>1, <3>2 DEF wgtVars
  <2>3. CASE MgrRejected
    BY <1>3, <2>1, <2>3 DEF MgrRejected, HandleThenHangUp, userVars
  <2>4. CASE MgrAttemptFails
    <3>1. /\ sock = "Connecting" /\ hasClient' = hasClient
          /\ cstate' = "DISCONNECTED" \/ cstate' = cstate
      BY <2>4 DEF MgrAttemptFails, AttemptFails, userVars
    <3>2. QED
      BY <1>2, <2>1, <3>1 DEF IsConnected
  <2>5. CASE ForwardedOnly
    <3>1. hasClient' = hasClient
      BY <2>5 DEF ForwardedOnly, mgrVars, userVars
    <3>2. CASE PingTimeout
      BY <1>3, <2>1, <3>1, <3>2 DEF PingTimeout, HangUp
    <3>3. CASE ~PingTimeout
      <4>1. /\ cstate' = cstate
            /\ sock' = sock \/ sock = "Connecting"
        BY <2>5, <3>3
           DEF ForwardedOnly, KeepAliveFires, SocketConnects, ConnectionOpens, ReadReady,
               CopyInbox, HandleRefused, HandleMessage, HandlePingresp, Environment, BrokerAnswers,
               BrokerPublishes, BrokerFallsSilent, socketVars, clientVars
      <4>2. QED
        BY <1>2, <2>1, <3>1, <4>1 DEF IsConnected
    <3>4. QED
      BY <3>2, <3>3
  <2>6. QED
    BY <1>11, <2>2, <2>3, <2>4, <2>5 DEF LoggedOnly
<1>12. QED
  BY <1>4, <1>5, <1>6, <1>7, <1>8, <1>9, <1>10, <1>11 DEF WindowNext, WindowUser

-----------------------------------------------------------------------------
LEMMA WindowOwnInvariance == WindowSpec => []WindowOwnTypes
  BY WindowOwnInit, WindowOwnStep, PTL DEF WindowSpec

\* The window asks nothing of the manager that the manager's module does not
\* allow: its clicks, with the inbox topics it makes of an account, and the slots
\* it runs inside the manager's signals are steps of MqttClientMgr.  What holds
\* of the manager holds of it under the window.
THEOREM WindowImplementsMgr == WindowSpec => MgrSpec
<1>1. WindowInit => MgrInit
  BY DEF WindowInit
<1>2. WindowOwnTypes /\ [WindowNext]_windowVars => [MgrNext]_allVars
  BY WindowStepOfMgr DEF WindowOwnTypes
<1>3. QED
  BY <1>1, <1>2, WindowOwnInvariance, PTL DEF WindowSpec, MgrSpec

\* Every variable of the window stays in its range, the manager's under it, and
\* texts that are not yet those of the chosen language have their event posted.
THEOREM WindowTypeCorrect == WindowSpec => []WindowTypeOK
<1>1. MgrTypeOK /\ WindowOwnTypes => WindowTypeOK
  BY DEF WindowOwnTypes, WindowTypeOK
<1>2. QED
  BY <1>1, WindowOwnInvariance, WindowImplementsMgr, MgrTypeCorrect, PTL

LEMMA ShownInit == WindowInit => ShownAsItIs
  BY DEF WindowInit, MgrInit, Init, ShownAsItIs, IsConnected

\* The status and the buttons, set from the manager's signals and again when a
\* language is loaded, tell whether the manager is connected; while the socket
\* closes they may still say so.
THEOREM ShownSafe == WindowSpec => []ShownAsItIs
<1>1. MgrIInv /\ ReconnectInv /\ WindowOwnTypes /\ ShownAsItIs /\ [WindowNext]_windowVars
        => ShownAsItIs'
  BY ShownStep
<1>2. QED
  BY <1>1, ShownInit, WindowOwnInvariance, WindowImplementsMgr, MgrInvariance,
     ReconnectInvariance, PTL DEF WindowSpec

\* Under the window too, no timer reconnects a user who does not want it, what the
\* manager records as subscribed reaches the broker, and the client's connections go
\* through the phases of Link in order.
THEOREM WindowKeepsMgr ==
    WindowSpec => []ReconnectTimerOnlyWhenWanted /\ []SubscriptionsReachBroker /\ ImplementsLink
  BY WindowImplementsMgr, RetryTimerSafe, SubscriptionsSafe, MgrImplementsLink, PTL
=============================================================================
