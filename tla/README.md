# qmqtt in TLA+

Specifications of the MQTT client library `qmqtt` (`src/src/mqtt`) and of its
demo (`src/qt-demo`: connection manager, window, proxy), model-checked with TLC
and proved with TLAPS. Paths below are relative to the repository's root, which
this project calls `src/`.

## 1. The system

Everything runs on one thread. A class reports to the next one up by signals
connected directly, so a slot runs inside the event that emitted the signal,
and the program is a set of events: a call of the application, a socket
notification, a timer. What is concurrent is the world: the peer, the path to
it, the clock, the user, and the application's own slots, which run in the
middle of the library's handlers and may call it back.

| Component | State | Operations | Talks to |
|---|---|---|---|
| `QMQTT::Client` / `ClientPrivate` (`qmqtt_client_p.cpp`) | `_connectionState`, `_timer` (keep-alive), `_pingResponseTimer`, `_gmid`, `_midToTopic`, `_midToMessage`, settings | connect, disconnect, publish, subscribe, unsubscribe; slots for connected, disconnected, received, error, both timers | calls `Network`; signals the application |
| `QMQTT::Network` (`qmqtt_network.cpp`) | `_autoReconnect`, `_autoReconnectTimer`, the reader (`_readState`, `_header`, `_length`, `_shift`, `_data`) | connect, disconnect, sendFrame; slots for the socket's signals | calls the socket and the timer; signals `Client` |
| `QMQTT::Socket`, `SslSocket`, `WebSocket` | the Qt socket's (a buffer, for WebSocket; errors to ignore, for TLS) | forwarding; which signals are forwarded differs | Qt |
| `QMQTT::Timer` | runs or not | forwarding to `QTimer` | `Network` |
| `QMQTT::Frame` | header byte, payload | read and write fields; encode the length | `Client`, `Network` |
| `QMQTT::Router`, `RouteSubscription` | topic and regular expression of each route | subscribe, route a message, unsubscribe in the destructor | `Client` |
| `QMQTT::Message` | a pointer to data with a reference count | constructors, copies, moves, setters, comparison | the application, `Client`'s hash, `RoutedMessage` |
| `MqttClientMgr` (`qt-demo`) | `m_client`, `m_subscriptions`, `m_reconnectTimer`, `m_manualDisconnect`, `m_reconnectAllowed`, the policy | connect, disconnect, publish, subscribe, unsubscribe; slots of the client's signals; `slot_reconnect` | one `Client`; the window |
| `MqttReconnectPolicy` (`qt-demo`) | `m_currentDelayMs` | `advance`, `reset` | the manager |
| `MqttClientWgt`, topic builder (`qt-demo`) | widgets: status and buttons, entries, language | the buttons' slots, slots of the manager's signals, a posted change of language | the manager |
| `MqttProxyManager` (`qt-demo`) | the application proxy | `applyProxy` | Qt |

What is hard in it, and what makes each part correct:

* **Client and Network.** The state the application sees, `_connectionState`,
  is set at other moments than the socket's. A call on a busy socket is refused
  and the refusal closes the connection. A close waits for an attempt or for
  unsent bytes. Frames of one read go on being handled after a slot has hung up.
  Correct means: connected only over a connection the broker accepted; CONNECT
  first and once, DISCONNECT last; no timer of one connection reaches the next;
  a close completes.
* **Keep-alive.** Two timers with one restart rule each. Correct means: a dead
  path is noticed within an interval and the time of an answer, and a broker
  that answers is never given up.
* **Manager.** Back-off, manual disconnect, permanent errors and restored
  subscriptions are spread over the slots of three signals whose order the
  network decides. Correct means: no attempt the user does not want; the
  delays of the table; in a session the broker holds what the manager holds; a
  wanted client is tried again.
* **Packet identifiers and QoS.** Identifiers wrap, exchanges are forgotten when
  a connection is lost, a new client object starts over, the broker repeats what
  was not acknowledged. Correct means: an acknowledgement is reported for what
  was acknowledged; `published()` means taken; nothing is delivered twice;
  every exchange ends while its connection lasts.
* **Codec.** The length field has classes of one to four bytes; bytes arrive in
  pieces; a connection may end inside a frame. Correct means: what was written is
  read, field for field, and a framing error is reported exactly when there is one.
* **Settings.** Ten of them, set at any time, become one byte of flags and a
  payload whose parts are there or not; the demo's form passes through a check,
  two casts and a client that may be the next or the same. Correct means: the
  broker reads what was set; a refused form changes nothing; an accepted one is
  in force, with nothing left of an earlier one.
* **Address.** It is kept twice, by the client and by `Network`, as a name or a
  number. Correct means: by hand or by timer, the socket is asked for the address
  of the last `connectToHost()`.
* **TLS.** Errors are forgiven by a setting, by a call before the handshake or by
  one in a slot during it. Correct means: nothing forgiven for one server counts
  for the next, and CONNECT waits for the end of the handshake.
* **Messages.** Copies share data until one is changed. Correct means: that is
  not seen, and the data is deleted with its last owner.
* **Router.** A route makes a filter for the broker and an expression for itself
  of one text, and subscribes and unsubscribes on its own. Correct means: the
  broker at rest holds the filters of the routes alive; what comes because of a
  route reaches it, with the right parameters.
* **Window.** Its status follows signals only, a replaced client sends none, and
  a posted event sets every text again. Correct means: it never shows a session
  that is up as gone, nor one that is gone as up for good.

The full list, line by line, is `hazards` in `PROJECT.json`.

## 2. Modules

```
TcpSocket  <-- Network <-- Client <-- MqttClientMgr <-- MqttClientWgt     (EXTENDS)
                             |
                             +-- Link                    (INSTANCE: the abstract life of a connection)
KeepAlive                                                (Client's two timers on a clock)
Session  -- Delivery                                     (identifiers and exchanges; INSTANCE: what they promise)
FrameCodec                                               (packets as bytes)
Connect <-- ConnectionParams                             (settings and CONNECT; the demo's forms, the proxy)
Endpoint                                                 (which address is dialled)
Tls                                                      (which certificates are accepted)
Router                                                   (routes and subscriptions)
Message -- MessageValue                                  (shared data; INSTANCE: plain values)
Client_proofs <-- Demo_proofs                            (over MqttClientMgr and MqttClientWgt)
KeepAlive_proofs, Session_proofs, FrameCodec_proofs
Router_proofs, Message_proofs <-- Parts_proofs           (over MCParts)
MCClient, MCMqttClientMgr, MCMqttClientWgt, MCKeepAlive,
MCSession, MCFrameCodec, MCParts                         (instances for TLC)
```

**TcpSocket** is what is outside the repository: a `QTcpSocket` with what it
holds in either direction, and the broker at the other end, one connection at a
time. `sock` is its `state()`; `pendingClose` remembers a
`disconnectFromHost()` called in `ConnectingState`; `wbuf` and `inbox` are
frames written and not sent, arrived and not read. The broker answers a CONNECT
once, with any outcome, then may publish, answers pings, and may fall silent,
which stands for a half-open connection. Frames are records of a type; payloads
are not kept.

**Network** has the auto-reconnect flag and timer, and `batch`, the frames of
one `readyRead` still to be emitted. `onSocketReadReady()` copies the bytes and
emits frame after frame; the model makes each frame an action so that the slots
of one run before the next, and `InEventLoop` (`batch` empty) is a condition of
every other event.

**Client** joins the parts to actions: one per call, timer, notification and
frame. Its variables are `_connectionState` and whether each timer runs. The
application's slots are parameters: `HandleThenHangUp` is a frame whose slot
calls `disconnectFromHost()`, a *burst* is what the `connected()` slot sends.
Timers may fire at any moment they run; there is no clock here.

**Link** is what an application may rely on: a connection is *down*, *greeting*,
*up*, *leaving*; `up` at most once per connection and never after a hang-up.
`Client` implements it under the mapping `phase`.

**KeepAlive** puts the two timers of a running session on a clock of seconds
and adds a broker that answers within `MaxRtt` until the path dies. `quiet` is
a history variable: how long the client has had no sign of life and nothing of
its own to send.

**Session** is the part of `ClientPrivate` that `Client` leaves out: `_gmid`,
`_midToMessage`, `_midToTopic`, and a packet for every step of a QoS 1 or 2
exchange in either direction. A connection is only up or not: `Client` shows
that CONNECT comes first on each and that nothing of one reaches the next, so
`Session` begins where the broker has taken CONNECT, with two queues of packets
that a loss empties (`Lose` is `onNetworkDisconnected()`). `Replace` is an
application that deletes its client and makes another with the same client id,
as `MqttClientMgr::connectToHost()` does. The broker (external) takes, answers
and, in a kept session, repeats; `held` are the QoS 2 identifiers that await
PUBREL. Messages stand for themselves; the field `about` of a packet that
carries only an identifier is history, which no action reads. `issued`,
`published`, `received` and `taken` record what the application and the broker
were told, and how often.

**Delivery** is what a session promises of messages: taken at most once,
confirmed at most once and only after it was taken, received at most once.
`Session` implements it if sessions are clean; the three violated runs say what
happens to the rest of what the documents promise.

**FrameCodec** is below the other modules, which take whole packets for granted:
what `Frame` writes (`EncodeLength`, `PublishData`, `FrameBytes`; the loop of
`encodeLength()` is written as the quotients it runs through, of which an `int`
has no more than five), the machine of
`onSocketReadReady()` that finds the packets again (`ReadHeader`, `ReadLength`,
`ReadPayload`: one action per byte and state, with the reader's own variables),
and the fields that `onNetworkReceived()` takes from a PUBLISH (`Decode`). Bytes
arrive in pieces of any length, which is a TCP segment or a WebSocket message
(`WebSocketIODevice`), and a loss may come inside a packet or, from a slot,
inside a batch. The peer writes packets as `Frame` does, or a length of more
than four bytes. `Base` is 128 in the code; the statements speak of digits
and not of 128.

**MqttClientMgr** is the manager over `Client` on TCP. Each action is an action
of `Client` conjoined with what the manager's slots do in it. `brokerSubs`, what
the broker holds subscribed, is outside; `wanted` and `tries` are history
variables that only properties read.

**MqttClientWgt** is the window over the manager. The user reaches the manager
through enabled buttons only, so its actions are the manager's joined with the
slots of the clicks and of the signals: `shown` is the status and which of
Connect and Disconnect is enabled. `account` and `keepAlive` are two of the
entries: what is asked of the manager depends on them at the moment of the click.
`languageChange` is the posted event; `LanguageChange` is all of
`applyTranslations()`, which sets the texts of the `.ui` file, shows the status
of that moment, and puts the keep-alive entry back to 30.

**Connect** has the settings, a setter as an action, and `SendConnect`: the
protocol name and level, the byte of flags as a set of bits through the `FLAG_`
macros, which do not mask, and the texts in their order. `Read` and `WellFormed`
are the broker's reading by the standard's table, written independently.
**ConnectionParams** extends it with the demo: `MgrConnectToHost` is every check
of `MqttClientMgr::connectToHost()` in its order, both readings of the CA file,
the new client with its kind, server and trust, and `applyClientConfig()`
with its casts; `ApplyProxy` is the proxy manager. `Subscribe` and `Unsubscribe` are
the user's, between two forms. `formAsked`, `proxyAsked` and `touched`, the topics
the user subscribed or unsubscribed since, are history.

**Endpoint** has the address twice (`own` of `ClientPrivate`, `kept` of
`Network`), the auto-reconnect flag, interval and timer, and of the socket what
decides whether a call dials or is refused. `asked` is history: the client's
address at its last `connectToHost()`.

**Tls** is the chain from the socket's `sslErrors()` to `onSslErrors()` for the
three constructors that use TLS, over one connection after another, with calls
of `ignoreSslErrors()` and `setSslConfiguration()` at any time. The application's slot
of `sslErrors()` runs before `onSslErrors()`, so a call in it is a call just before
`Handshake`. `QSslSocket` and `QWebSocket` are external. A `QSslSocket` has a flag,
which it clears when it dials, and a list, which it keeps and which alone counts once
it is not empty (`Accepted`). A `QWebSocket` has a new `QSslSocket` for each connection
and gives it the configuration of that moment (`verifying`), and the flag or else the
list. `allowedAll` and `allowedList` are history: what the application itself allowed.

**Router** stands on the client's `connected()` and `received()`. A text is a
sequence of characters and of parameter symbols; `Filter` and `Pattern` are the
two readings `setRoute()` makes of it, both by removing symbols (`Without`), and
`Matches` and `TheMatch` are the regular
expression engine (external) for the expressions that arise, unanchored and
greedy. `emitting` is a `received()` in progress, slot by slot, so that routes
come and go in the middle of it. `shed` is history: the filters that one route
unsubscribed while another one had them. `Nth`, `Without` and `Levels` are sets and
counts (the n-th of the places kept, the n-th of the cuts) and no folds, so that they
can be proved about.

**Message** is `QSharedDataPointer` with its counts: `d`, `cell`, `ref`. `Construct`,
`CopyConstruct`, `Assign`, `MoveAssign`, `SetField` (which detaches), `Compare` and
`Destroy` are its operations. **MessageValue** is what it promises: messages are
values. `Message` implements it with the value of a message read through its
pointer.

Definitions whose comment begins with *Mutation* are the same operation with a
plausible slip; no specification uses them. They are kept to show that the
properties notice.

## 3. Runs

| Run | Instance | Shows |
|---|---|---|
| `client` | one kind of application frame, bursts of 0 or 1, 3 unsent and 2 unread frames; 14 338 states | all safety properties of `Client`, `ImplementsLink`, and `CloseCompletes` under `FairSpec` |
| `mgr` | 2 topics, 2 QoS levels, 3 unsent, 1 unread, attempts may fail either way; 323 166 states | the manager's safety properties |
| `mgr_stall` | 1 topic, 1 QoS level, attempts may be refused | **violated**: a refused retry is the last |
| `window` | 1 inbox and an account that is not valid, a keep-alive entry that is and one that is not, attempts fail only for errors the user has to repair; 169 092 states | `ShownAsItIs`; under `WindowFairSpec` the manager's `AnotherAttemptFollows` and `ConnectedAtLast`, with the window as the user, and `ShownInTheEnd` |
| `keepalive` | intervals 11, 30 and 120 s, answers within 3 s; 11 494 states | `SilenceIsNoticed`, `NoFalseAlarm` |
| `keepalive_short` | interval 5 s | **violated**: the timeout never comes |
| `session` | a message of each QoS, one topic, one QoS 2 message of the broker, 2 identifiers, clean sessions; 83 774 states | acknowledgements are never mixed up, `ImplementsDelivery`, and `ExchangesComplete` under `FairSpec` |
| `codec` | lengths in binary digits; data of 0, 3, 7, 8, 15 and 16 bytes, QoS 0 to 2, a topic that is truncated, two packets or an overlong length per connection, any number of connections; 705 048 states | `FramesAsWritten`, `OverlongIsReported`, and `FramesArrive` under `FairSpec` |
| `parts` | `Router`, `Message`, `Connect`, `ConnectionParams`, `Endpoint`, `Tls`, each alone; 127 580 states | see below |
| `session_duplicate` | kept session, one client object | **violated**: a repeated QoS 2 message is received twice |
| `session_untaken` | kept session, two messages of QoS 2, replaced clients | **violated**: `published()` for a message nobody took |
| `session_lost` | clean sessions, one client object | **violated**: a lost QoS 1 message never arrives |

The run `parts` checks six modules that share no variable and of which no
property speaks of two. A behaviour of all of them together would violate a
property only where a behaviour of one does, so each behaviour of `MCParts` is of
one part, chosen at the start, and the other variables stay as they are.

| Part | Instance | Shows |
|---|---|---|
| `routes` | two objects, three routes of which two have the same filter, clean and kept sessions, 2 packets under way | `RoutesAreSubscribed`, `NothingLeftSubscribed` |
| `shapes` | one object, six shapes of routes (named and unnamed wildcards, `#`, a dot), eleven topics of up to three levels, a subscription to everything beside it | `MatchingMessagesAreRouted` |
| `messages` | three messages, setters of two fields, a QoS of 5 and of 6 in two bits | `ImplementsValues`; in `PartsTypeOK`, that reference counts are exact |
| `settings` | every combination of ten settings, each text empty or not, both ends of the keep-alive interval, a will QoS that does not fit | `ConnectSaysSettings` |
| `params` | forms that are wrong, padded or unusual in one field, or in two that are read together; five proxy forms, one of them for none and one padded; a CA file that loads or not, at each reading; a topic subscribed and unsubscribed by hand | `RefusedChangesNothing`, `AcceptedIsInForce` |
| `endpoint` | two names, an address, two ports, two intervals | `DialsWhatWasAsked` |
| `tls` | three kinds of client, all subsets of three errors, both peer verification modes | `TrustedWhenTold`, `SelfSignedIsAccepted` |

*Bounds.* `MaxUnsent` and `MaxInbox` bound the two queues and appear only in the
guards `Room` and `InboxRoom`. Three unsent frames hold CONNECT, a frame of the
application and DISCONNECT, all the kinds whose order matters; one more of any
kind behaves as the last. Two unread frames are the shortest batch in which a
slot hangs up before a later frame is handled. In `mgr` three unsent frames hold
the restored subscriptions of both topics and one frame more. `tries` stops at
5, where the delay no longer changes. `MgrConnectToHost` may bring at most one
automatic subscription, as `MqttConnectionParams` does. The intervals of
`keepalive` are one of each branch of `qBound`: just over ten seconds (the
bound's middle value), the demo's default region, and one whose tenth exceeds
ten seconds. In the `session` runs `MaxId` is 2, so that the counter wraps, past zero, in the
middle of an exchange; each message is published once, which loses nothing
because a second publish of the same text is another message; histories stop
at 2, "more than once". One bound is part of `Session` itself and of its
theorems: `IdFree`. `nextmid()` does not look whether the identifier it hands
out is still in use; the model's application never has so many exchanges open
(65 535 in the code) that it would be. The proofs (section 4) hold without any
of the others. In `codec` the base 2 puts the boundaries of all four length
classes, and the first length that does not fit, within 16 bytes; every byte of
a payload has its high bit set, so that a reader out of step takes it for a
length. Two packets and a broken-off one before them are enough for one packet
to spoil the next.

In `window` one account makes a topic and one does not: what a second topic adds
is `mgr`'s. In `parts` two routes are the fewest that can take a filter from each
other, three messages the fewest of which two share while a third is given to
one of them, and the second address name is there for an attempt that was asked
for before the first was forgotten.

*Fairness.* `FairSpec` assumes of the operating system that an attempt ends one
way or the other and that written frames leave, and of the event loop that a
batch that was read is handled. It assumes nothing of the application, the
broker or the path. `MgrFairSpec` adds that the event loop fires a timer that
is due and reads what arrived, that a broker which took a CONNECT answers, and
that TCP gives up a path that stays silent (or the broker closes after a
refusal). The last two are assumptions about the world: the code has no timeout
for CONNACK, and without them a client waits for ever.
`WindowFairSpec` assumes the same with the window's slots joined to the events,
and nothing of the user nor of when the posted event arrives.
`ConnectedAtLast` is conditional: *if* from some point on the path holds, the
broker accepts and the user lets be, *then* the client is connected or unwanted
for good. `Session`'s `Fairness` is that packets on their way arrive on both
sides and that the broker sends what is due; a loss excuses from it.
`DeliveredAtLeastOnce` is conditional on a connection that holds at last.
`FrameCodec`'s is that bytes on their way arrive, in pieces of any size, and
that bytes once read are looked at.

*Deadlock* is checked everywhere except in `KeepAlive`, where the clock stops
with the session.

## 4. Proofs

Checked by `tlapm` for every value of the constants.

**`Client_proofs`.** The invariants the runs check are not inductive: that
nothing but CONNECT is first on the wire, for example, needs that the write
buffer of an unconnected socket is empty, and that no stale CONNACK reaches the
client needs that there is none in the inbox or in a batch before the broker
took CONNECT. `IInv` is `TypeOK /\ ConnectionInv`, where `ConnectionInv` joins

* `CleanSlate`: an unconnected or connecting socket holds nothing;
* a remembered close belongs to an attempt;
* `NothingUnasked`, `ConnackFirst`: what arrived, read or unread, is what the
  broker may have sent at this point, CONNACK before anything else and once;
* the three safety properties `SessionHasConnection`,
  `ReconnectTimerOnlyOffline`, `WireOrder`.

`PingTimeoutStrikesItsConnection` follows the same way. Lemmas say what
`Send`, `Dropped`, `HangUpAfter` and taking a frame from a batch preserve;
`InvStep` splits `Next` into its actions. Theorems: `TypeCorrect`,
`SessionSafe`, `PingTimeoutSafe`, `ReconnectTimerSafe`, `WireOrderSafe`, and
`ClientImplementsLink` (`Spec => LinkLife!Spec`: `InitRefines`, and `StepRefines`
from the possible changes of `phase`). Assumptions: `BoundsAssumption`,
`BurstsAssumption`.

**`KeepAlive_proofs`.** `SilenceNoticed` and `NoFalseAlarms` hold under two
assumptions that are part of their statements: every interval is over ten
seconds, and a broker answers in under ten. The invariant relates `quiet` to
what is left of each timer: while no ping is open, `quiet` and `keepLeft` add up
to at most the interval; while one is, `respLeft` bounds what may still be added.
That `respLeft` runs out before the next ping restarts it is where an interval
over ten seconds is needed; `keepalive_short` shows what happens otherwise.

**`Demo_proofs`** is about the manager and the window over it; it extends
`Client_proofs`. *The manager.* Every step of the manager is a
step of `Client` or a stutter of it, the replacement of the client, or the
establishment of a session with a whole restoration in its slot
(`MgrStepOfClient`), so `IInv` of `Client` holds under the manager too
(`MgrKeepsClient`); `MgrIInv` adds the manager's types and the back-off, which
bounds the delay. Theorems: `MgrTypeCorrect`, `MgrClientSafe` (what is proved of a
client alone holds of the one that the manager drives and replaces),
`RetryTimerSafe`, `NoUnwantedAttempts` (an action property, from the same
invariant), `BackoffSafe`, and `SubscriptionsSafe`, for every set of topics, QoS
levels and errors.

`SubscriptionsReachBroker` compares what is stored with what the broker will hold
once it took the frames on their way. Two things make it inductive (`BrokerInv`).
Before the session is established no frame about a topic is on its way and the
broker of a clean session holds nothing, so that nothing of an earlier connection
counts. In a session each topic *settles*: the last frame about it leaves what the
manager has, or there is none and the broker has it already (`Settles`,
`SettlesIsEventual`). Three lemmas carry it: frames about other topics change
nothing (`OthersSettle`), the last frame decides (`LastSettles`), and a frame that
reaches the broker does what it promised (`TakenSettles`). That a restoration
sends each stored topic exactly once, and no other, is `Restored`, from the ranks
of the stored topics in `m_subscriptions`' order (`Ranks`), which is why
`StoredKeys` and `StoredKey` are sets and counts in the model and no filter of a
sequence.

The manager also implements `Link`, whose steps it does not all take as the client
does: a replacement is the end of one connection's life (`Gone`), and a step with the
restoration in its slot is the establishment (`MgrStepRefines`). Theorem:
`MgrImplementsLink`.

*The window*, in the second half, calls the manager only as module
`MqttClientMgr` allows (`WindowImplementsMgr`; the inbox topics it makes of an
account are topics, `InboxIsTopic`), and so the manager's theorems hold in the
program, where the window is its only user, `ImplementsLink` among them
(`WindowKeepsMgr`). Theorems:
`WindowTypeCorrect`, with what `texts` and the posted event have to do with each
other, and `ShownSafe`, which needs the client's invariant: that `connected()`
and `disconnected()` are emitted when the session begins and when the socket is
closed, and at no other time.

**`Session_proofs`.** Nothing is assumed of the sessions, clean or kept. The
invariant, `IInv`, is `TypeOK /\ ExchangeInv`: every packet on its way has its
entry in the client's hash (`OutOK`, `InOK`), and no two packets of either
direction share an identifier (`Apart`). The two need each other: that a new
identifier is fresh (`FreshId`) follows from the entries, and that removing an
entry with PUBACK, PUBCOMP or SUBACK strands no other packet (`ExchangeEnds`)
follows from `Apart`. Lemmas say what taking, answering and beginning an
exchange do to `Apart`, for any sequences. Theorems: `TypeCorrect`,
`OnePacket`, `AcksNamed`.

The second half of the module is about clean sessions, an assumption that its
theorems state. `CleanInv` adds to `IInv`: a PUBLISH on its way has not
been taken, nor received; an acknowledgement is of a message that was taken;
the hash has the message of every identifier the broker holds (`HeldInv`, which
is what a kept session breaks when the client forgets its hashes); a message of
the broker still to be sent was not received. Then each step is a step of
`Delivery` or a stutter (`DeliveryStep`). Theorems: `PublishedTaken`,
`Delivers`.

**`Message_proofs`.** The invariant is that every count is the number of messages
that point there (`CountsAreExact`), beside the form of the variables. One lemma
counts (`Repointed`: turning one pointer adds one where it points now and takes
one where it pointed before), the others follow from it for each operation: what
is deleted has no message left (`DeletedIsUnused`), new memory had none
(`FreeIsUnused`), and memory with the count one has no other (`OnePointer`), so
that a setter writes where nobody else looks. `MessageTypeOK` itself says that what
a message points to is allocated; that follows
from the exact counts. Then each step of `Message` is the
step of `MessageValue` with the same name. Theorems: `MessageTypeCorrect`,
`CountsExact`, `SharingIsUnseen` (the refinement), for any finite number of messages and any
fields. It is assumed that no two setters run at once: `QSharedDataPointer` is
not a lock.

**`FrameCodec_proofs`**, for any base, any messages, any number of packets and any
cuts. The first part is about what is written: a length is the sum of its digits
by their weights, whatever the number of turns of `encodeLength()`'s loop
(`TurnsFacts`, `DigitAdded`, `LowsFacts`), and what the peer wrote into a packet
is what `Decode` takes out of it, a topic that is too long truncated
(`SaidIsReadable`, from `IntRead`, `StringRead` and `RestRead`). No induction is
needed: a length has at most five digits. The second is about where the reader is. `Stream`
says that the bytes the peer wrote on the connection are its packets one behind
the other, and `Reading` that the reader has received the first `r` of them, is
`i` bytes into the next, with `length`, `shift` and `data` what those bytes make
them, and that what it read and what is still on its way come after that. The
invariant is that there are such bytes, cuts and places (`InStep`), as long as no
framing error was found, and that one is found in an overlong length only. Each
action moves one of the five. Theorems: `CodecTypeCorrect`, `FramesSafe`,
`OverlongSafe`. Assumption: `CodecAssumption`.

**`Router_proofs`** is about the module `Router`. `BrokerEnds` says of the filters the
broker *ends with*, once it took the packets on their way, what the properties say of
those it has when all was taken. Theorems: `RouterTypeCorrect`, `RoutesSafe`,
`NothingLeftSafe`, for any routes and filters. `RoutedSafe`
(`MatchingMessagesAreRouted`) is about texts of any length, in four parts:

1. *Places.* The n-th of a set of places exists, once, and in order (`NthFacts`,
   `RankRun`, `NthImage`), so that removing symbols keeps the others in order
   (`WithoutFacts`) and the levels of a text are what lies between its slashes
   (`CutFacts`, `LevelOfFacts`, `LevelsFacts`).
2. *The filter.* Removing the parameters of a route moves its slashes and empties
   no level (`FilterLevels`): level by level the filter is the route without its names,
   and a topic that
   the filter matches suits the route (`MatchedSuits`): equal where a level is plain,
   anything where it has a wildcard, which `Pattern` turns into a lone name.
3. *The expression.* `Matches` is the set of chains of places that `Ends` allows
   (`MatchesAreChains`). One of them goes through the topic from its start, each
   plain symbol taking one character and each name a whole level (`Walk`,
   `WalkSteps`), so the expression matches.
4. *The engine.* Any other match starts further to the right, or takes less at the
   first name where it differs, since a name cannot take a slash: the walk comes
   before it (`WalkFirst`). Hence it is `TheMatch` (`TheMatchIsWalk`), and what it
   captures for a name is the level at its wildcard (`CapturedLevels`).

The invariant is that `told` is the outcome of looking at its topic with its route
(`ToldIsOutcome`). Assumption: `RouterAssumption`, which says that texts are
sequences, that a parameter is neither a character of a value nor a separator, and
that `/`, `+`, `#` and the dot are not characters of a value, as
`[a-zA-Z0-9_-]` has it. Which routes and topics are meant is the property's own
condition (`Regular`, `Plain`).

**`Parts_proofs`** is about the other modules that `MCParts` composes, and about
their composition (`PartsTypeCorrect`).

* *Connect.* What the broker reads out of a CONNECT is what the settings mean
  (`ConnectReads`): the flags come back out of the byte (`FlagsRead`, powers of
  two), and the texts out of their sequence, by the flags (`TextsFacts`).
  Theorem: `ConnectSaysSafe`. `Fits`, a will QoS of two bits, is the property's own
  condition.
* *ConnectionParams.* A form that passed the checks is configured into settings
  that say the form (`Configured`, `FormIsSaid`); the keep-alive interval, a number
  of seconds that fits (`SecondsFit`), survives its two casts. `AcceptedIsInForce`
  with the types is inductive: CONNECT (`ConnectSaysForm`), the client's kind, server
  and trust (`ClientSaysForm`), the subscriptions of topics the user has not touched
  (`SubscriptionsSayForm`) and the whole application proxy, or none (`ProxySaysForm`).
  Theorems: `AcceptedSafe`, `RefusedIsHarmless`. Assumptions: `ParamsAssumption`, and
  that no client and no proxy are none of those made of a form (`NoClientAssumption`,
  `NoProxyAssumption`).
* *Endpoint.* `asked = Target(kept)` (`KeptIsAsked`): what Network has kept may
  differ from the client's address of then, in the host beside a name, but never in
  what a socket is asked for. `DialsAsked` follows for the client's attempts and
  the timer's, for any addresses, names, ports and intervals.
* *Tls.* `TrustedWhenTold` needs that nothing is left of an earlier handshake when
  another begins (`NothingLeftOver`): the flag to ignore all errors that
  `onSslErrors()` sets is the socket's, which `QSslSocket` clears when it dials
  again, and a `QWebSocket`, which keeps it, never has it from `onSslErrors()`; the
  list has nothing that the application did not allow last, and over `QSslSocket` all of
  it. A handshake is refused by `Handshake` alone (`RefusingStep`). Theorems:
  `TrustSafe`, and `SelfSignedSafe`, whose exception is a list the application gave
  that leaves an error out; both for any sets of errors and calls in any order.

*Only model-checked.* No safety property and no refinement; every liveness property,
since fairness and `ENABLED` are beyond the prover. Where a definition computes along
a text or a number, nothing is proved by induction over it: it is written with ranks
and counts (`Nth`, `StoredKey`), whose facts the library's theorems about
cardinalities give, or its length is bounded (the digits of a length), or it is a
recursive function (`Matches`), whose one induction is over a number and is replaced
by the least counterexample (`MatchesAreChains`, `LeastOf`).

## 5. What the code does otherwise than it says

1. *A failed attempt ends reconnecting* (`mgr_stall`).
   `onSocketError()` disconnects a socket that is not connected, so
   `disconnected()` never comes, and both retries, the library's and the
   manager's, hang on `disconnected()`. `networktest.cpp:203-212` and the table
   of `migration-validation-review.md:90` expect otherwise.
2. *No ping timeout for intervals up to ten seconds* (`keepalive_short`).
3. *QoS 2 is not exactly once for a subscriber* (`session_duplicate`).
   `handlePublish()` does not remember the identifier, so in a kept session a
   repeated PUBLISH is received twice; the tool tip of
   `mqttclientwgt.cpp:456` says exactly once.
4. *`published()` for a message nobody took* (`session_untaken`). A new client
   starts at identifier 1 while a kept session may still hold it from an
   unfinished exchange; `qmqtt-API.md:87` says that the publish succeeded.
5. *QoS 1 is at most once across connections* (`session_lost`).
   `onNetworkDisconnected()` forgets the open exchanges and nothing is sent
   again; `mqttclientwgt.cpp:458` and `migration-validation-review.md:165` say
   at least once.

The models have the following as the code has it; there is no run for them,
since each follows from the lines alone.

* *Self-signed certificates over wss.* `Network`'s constructor for WebSockets
  (`qmqtt_network.cpp:74`) does not connect `WebSocket::sslErrors`, so
  `onSslErrors()` is never called and a self-signed certificate is refused; the
  tool tip at `mqttclientwgt.cpp:468`, for a setting that is used with wss only,
  says that it is accepted. `SelfSignedIsAccepted` leaves this kind out.
* *A list before the setting.* After `ignoreSslErrors(errors)` with a list that is not
  empty, `QSslSocket` looks at the list alone, on later connections too. The
  `ignoreSslErrors()` at the end of `onSslErrors()` (`qmqtt_client_p.cpp:818`) then
  changes nothing, and a self-signed certificate that is not in the list is refused
  although `ignoreSelfSigned` was given. No document says which call wins;
  `SelfSignedIsAccepted` excepts these lists.
* *A ping that never comes.* Every frame sent restarts the keep-alive timer
  (`qmqtt_client_p.cpp:327`), so a client that publishes steadily sends no ping and
  does not notice a path that takes its frames and brings nothing back.
  `SilenceIsNoticed` is about clients that stop publishing.
* *A keep-alive of zero.* MQTT switches keep-alive off with it, and the demo lets it
  through; the client starts two timers of no interval and pings without a pause.
  `KeepAlive` assumes an interval of at least a second.
* *Two tests of `isConnectedToHost()`.* `clienttest.cpp:212-222` expects it to ask the
  network; it looks at the state of the session (`qmqtt_client_p.cpp:550`), which is
  what the manager relies on; these tests are older than the code. `SessionHasConnection` relates the two.
* *Seconds or milliseconds.* `setAutoReconnectInterval()` takes milliseconds
  (`qmqtt_network.cpp:216`); `qmqtt-API.md:291` says seconds.
* *A timer that goes on.* `setAutoReconnect(false)` does not stop a running
  auto-reconnect timer (`qmqtt_network.cpp:206`); `qmqtt-API.md:275` says of false
  that the client does not reconnect.
* *A name wins.* `setHost()` after `setHostName()` has no effect
  (`qmqtt_client_p.cpp:180`); `qmqtt-API.md:96` has it set the address.
* *A CA file read twice.* One that is gone at the second reading
  (`mqttclientmgr.cpp:231`) is left out in silence; `plan.md:81` says that a
  certificate that does not load prevents the connection.
* *The keep-alive entry.* A change of the language sets it to 30
  (`mqttclientwgt.cpp:440`), being a text of the `.ui` file.
* *Routes.* A wildcard without a name leaves nothing in the expression
  (`qmqtt_routesubscription.cpp:79`), so such a route hardly ever matches what it
  subscribes; `#` with a name takes one level; a dot stays a dot of the
  expression; nothing anchors it. A filter `a/#` has the level `a` itself as a match,
  the expression made of such a route has not. Routes that share a filter unsubscribe each
  other. `MatchingMessagesAreRouted` says for which routes all is well.

## 6. Not modelled

* What Qt does: sockets, TLS, WebSockets and the regular expression engine are
  external, as far as the code relies on them. Loading certificates is a success
  or a failure.
* A WebSocket client whose host name is empty: `WebSocket::connectToHost()` with
  an address calls `qFatal()`, which ends the program.
* Data that ends before its fields do (`Malformed`): `QByteArray::at()` outside
  its range is an assertion or undefined, by the build. The fields of SUBSCRIBE,
  made of the same writers as PUBLISH.
* The window's log, ping counter, file dialog and proxy button, the change of the
  default port with the transport, and `main()`: no state that any other part
  reads.
* The path and origin of a WebSocket URL; of URLs, only whether there is one.
* `publish()` with an identifier that the application chose (`Message::id()` not
  0), and an application that publishes so much without answers that identifiers
  are used up (`IdFree`).
* Time in `Client`, `MqttClientMgr` and `Endpoint`: a running timer may fire at
  any moment, which allows more than the code does.
* Examples, tests, benchmarks and the vendored googletest.

## 7. Plan

1. *(done)* `TcpSocket`, `Network`, `Client`, `Link`; `KeepAlive`;
   `MqttClientMgr`; their runs and proofs.
2. *(done)* `Session` and `Delivery`; their runs and proofs.
3. *(done)* `FrameCodec` and its run.
4. *(done)* `Router`, `Message` and `MessageValue`, `Connect` and
   `ConnectionParams`, `Endpoint`, `Tls`, `MqttClientWgt`; the runs `parts` and
   `window`.
5. *(done)* Proofs about `Message`, `Endpoint` and `Tls`.
6. *(done)* Proofs about the rest: `MqttClientMgr`'s types and restored
   subscriptions, the window over it, the routes' subscriptions and what they make of
   a text, the settings and parameters, `FrameCodec`; the manager and the window over
   `Link`.
7. Left: the five violated properties are of the code as it is; should it change,
   they become properties of the passing runs, with `RetriesContinue` and
   `DeliveredAtLeastOnce` for TLC only. For every safety property that is checked
   there is a theorem; the liveness properties stay with TLC.
