------------------------------ MODULE Connect ------------------------------
(***************************************************************************)
(* The settings of a client and the CONNECT packet made of them            *)
(* (ClientPrivate's setters and sendConnect(), the FLAG_ macros of         *)
(* qmqtt_frame.h), read back the way the MQTT standard tells a broker to.  *)
(* A setter may be called at any time; a packet is made of the settings at *)
(* the moment the connection opens.                                        *)
(*                                                                         *)
(* Bytes and texts are values here: how they are written, and cut at 65535 *)
(* bytes, is module FrameCodec's.                                          *)
(***************************************************************************)
EXTENDS Integers, Sequences

CONSTANTS
    Values,     \* for each setting, the values its setter is called with
    Empty,      \* the empty text
    Generated   \* the client id that QUuid::createUuid() makes

SettingNames ==
    {"version", "clientId", "username", "password", "cleanSession", "keepAlive",
     "willTopic", "willMessage", "willQos", "willRetain"}

\* The keep-alive intervals: a ushort, two bytes of CONNECT.
Seconds == 0 .. 2 ^ 16 - 1

ASSUME ConnectAssumption ==
    /\ DOMAIN Values = SettingNames
    /\ Values["keepAlive"] \subseteq Seconds
    /\ Values["willQos"] \subseteq 0 .. 255
    /\ Values["version"] \subseteq {3, 4}
    /\ Values["cleanSession"] \cup Values["willRetain"] \subseteq BOOLEAN

VARIABLE settings

-----------------------------------------------------------------------------
(* The setters. *)

Millisecond == 1000

\* ClientPrivate's constructor.
Defaults ==
    [version |-> 3, clientId |-> Generated, username |-> Empty, password |-> Empty,
     cleanSession |-> FALSE, keepAlive |-> 300 * Millisecond, willTopic |-> Empty,
     willMessage |-> Empty, willQos |-> 0, willRetain |-> FALSE]

\* What a setter stores: keepAlive is kept as the interval of _timer, an empty
\* client id is replaced.
Stored(f, v) ==
    IF f = "keepAlive" THEN v * Millisecond
    ELSE IF f = "clientId" /\ v = Empty THEN Generated
    ELSE v

\* keepAlive(): back to seconds.
KeepAlive(s) == s.keepAlive \div Millisecond

-----------------------------------------------------------------------------
(* sendConnect(). *)

Bits(n) == {i \in 0 .. 7 : (n \div 2 ^ i) % 2 = 1}

\* A macro FLAG_...: the bits of a number, from place k of a byte on.  Nothing
\* keeps a number too large for its field out of the fields above.
Flag(n, k) == {i + k : i \in Bits(n)} \cap 0 .. 7
One(b) == IF b THEN 1 ELSE 0

\* Mutation: the will's retain flag is put where its QoS is.
FlagsRetainLow(s) ==
    Flag(One(s.cleanSession), 1)
        \cup Flag(One(s.willTopic # Empty), 2)
        \cup (IF s.willTopic = Empty THEN {}
              ELSE Flag(s.willQos, 3) \cup Flag(One(s.willRetain), 4))
        \cup (IF s.username = Empty THEN {}
              ELSE Flag(1, 7) \cup Flag(One(s.password # Empty), 6))

\* The byte of flags, as the set of the bits that are one.
Flags(s) ==
    Flag(One(s.cleanSession), 1)
        \cup Flag(One(s.willTopic # Empty), 2)
        \cup (IF s.willTopic = Empty THEN {}
              ELSE Flag(s.willQos, 3) \cup Flag(One(s.willRetain), 5))
        \cup (IF s.username = Empty THEN {}
              ELSE Flag(1, 7) \cup Flag(One(s.password # Empty), 6))

\* The texts after the fixed fields.
Texts(s) ==
    <<s.clientId>>
        \o (IF s.willTopic = Empty THEN <<>> ELSE <<s.willTopic, s.willMessage>>)
        \o (IF s.username = Empty THEN <<>>
            ELSE <<s.username>> \o (IF s.password = Empty THEN <<>> ELSE <<s.password>>))

SendConnect(s) ==
    [protocol |-> IF s.version = 4 THEN "MQTT" ELSE "MQIsdp", level |-> s.version,
     flags |-> Flags(s), keepAlive |-> KeepAlive(s), texts |-> Texts(s)]

-----------------------------------------------------------------------------
(* The broker's reading, by the table of flags in the standard. *)

Has(p, bit) == bit \in p.flags
NumberAt(p, k) == One(Has(p, k)) + 2 * One(Has(p, k + 1))

NoWill == [topic |-> Empty, message |-> Empty, qos |-> 0, retain |-> FALSE]

WellFormed(p) ==
    /\ <<p.protocol, p.level>> \in {<<"MQIsdp", 3>>, <<"MQTT", 4>>}
    /\ ~Has(p, 0)
    /\ IF Has(p, 2) THEN NumberAt(p, 3) # 3 ELSE {3, 4, 5} \cap p.flags = {}
    /\ Has(p, 6) => Has(p, 7)
    /\ Len(p.texts) = 1 + 2 * One(Has(p, 2)) + One(Has(p, 7)) + One(Has(p, 6))

Read(p) ==
    LET user == IF Has(p, 2) THEN 4 ELSE 2
    IN  [version |-> p.level, clientId |-> p.texts[1], cleanSession |-> Has(p, 1),
         keepAlive |-> p.keepAlive,
         will |-> IF Has(p, 2) THEN [topic |-> p.texts[2], message |-> p.texts[3],
                                     qos |-> NumberAt(p, 3), retain |-> Has(p, 5)]
                  ELSE NoWill,
         username |-> IF Has(p, 7) THEN p.texts[user] ELSE Empty,
         password |-> IF Has(p, 6) THEN p.texts[user + 1] ELSE Empty]

-----------------------------------------------------------------------------
ConnectInit == settings = Defaults

\* A setter of Client.
Set(f, v) == settings' = [settings EXCEPT ![f] = Stored(f, v)]

ConnectNext == \E f \in SettingNames : \E v \in Values[f] : Set(f, v)

ConnectSpec == ConnectInit /\ [][ConnectNext]_settings

-----------------------------------------------------------------------------
(* Properties. *)

\* The settings stay in their ranges; the interval is a whole number of seconds.
ConnectTypeOK ==
    /\ DOMAIN settings = SettingNames
    /\ settings.keepAlive \in {k * Millisecond : k \in Values["keepAlive"] \cup {300}}
    /\ settings.version \in {3, 4}
    /\ settings.willQos \in 0 .. 255

\* What an application that made these settings means: a will without a topic and
\* a password without a user name are none.
Meant(s) ==
    [version |-> s.version, clientId |-> s.clientId, cleanSession |-> s.cleanSession,
     keepAlive |-> KeepAlive(s),
     will |-> IF s.willTopic = Empty THEN NoWill
              ELSE [topic |-> s.willTopic, message |-> s.willMessage, qos |-> s.willQos,
                    retain |-> s.willRetain],
     username |-> s.username,
     password |-> IF s.username = Empty THEN Empty ELSE s.password]

\* Whenever a connection opens, the broker reads from CONNECT exactly what is set,
\* unless the QoS of the will is more than 2: it then runs into the fields beside.
ConnectSaysSettings ==
    settings.willQos <= 2 =>
        LET p == SendConnect(settings)
        IN  WellFormed(p) /\ Read(p) = Meant(settings)
=============================================================================
