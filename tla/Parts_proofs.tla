---------------------------- MODULE Parts_proofs ----------------------------
(***************************************************************************)
(* Proofs about the modules that MCParts composes: Connect,                *)
(* ConnectionParams, Endpoint and Tls, for any settings, forms, addresses  *)
(* and certificate errors; Router and Message have modules of their own.   *)
(* The parts share no variable, and the last theorem is about their        *)
(* composition.                                                            *)
(***************************************************************************)
EXTENDS MCParts, Router_proofs, Message_proofs

-----------------------------------------------------------------------------
(* Connect and ConnectionParams. *)

(* The byte of flags. *)

LEMMA PowersOfTwo ==
    /\ 2 ^ 0 = 1 /\ 2 ^ 1 = 2
    /\ \A i \in 2 .. 7 : 2 ^ i \in {4, 8, 16, 32, 64, 128}
<1>1. /\ 2 ^ 0 = 1 /\ 2 ^ 1 = 2 /\ 2 ^ 2 = 4 /\ 2 ^ 3 = 8
      /\ 2 ^ 4 = 16 /\ 2 ^ 5 = 32 /\ 2 ^ 6 = 64 /\ 2 ^ 7 = 128
  OBVIOUS
<1>2. ASSUME NEW i \in 2 .. 7 PROVE 2 ^ i \in {4, 8, 16, 32, 64, 128}
  <2>1. CASE i = 2
    BY <1>1, <2>1
  <2>2. CASE i = 3
    BY <1>1, <2>2
  <2>3. CASE i = 4
    BY <1>1, <2>3
  <2>4. CASE i = 5
    BY <1>1, <2>4
  <2>5. CASE i = 6
    BY <1>1, <2>5
  <2>6. CASE i = 7
    BY <1>1, <2>6
  <2>7. QED
    BY <2>1, <2>2, <2>3, <2>4, <2>5, <2>6
<1>3. QED
  BY <1>1, <1>2

\* The numbers that fit a field of two bits and no more than the standard allows.
LEMMA BitsFacts == Bits(0) = {} /\ Bits(1) = {0} /\ Bits(2) = {1}
<1>1. ASSUME NEW n \in 0 .. 2, NEW i \in 0 .. 7
      PROVE  (n \div 2 ^ i) % 2 = 1 <=> i = n - 1
  <2>1. CASE i = 0
    <3>1. (n \div 2 ^ i) % 2 = n % 2
      BY <2>1, PowersOfTwo
    <3>2. QED
      BY <2>1, <3>1
  <2>2. CASE i = 1
    <3>1. n \div 2 ^ i = n \div 2
      BY <2>2, PowersOfTwo
    <3>2. QED
      BY <2>2, <3>1
  <2>3. CASE i \in 2 .. 7
    <3>1. PICK k \in {4, 8, 16, 32, 64, 128} : 2 ^ i = k
      BY <2>3, PowersOfTwo
    <3>2. (n \div k) % 2 # 1
      OBVIOUS
    <3>3. QED
      BY <2>3, <3>1, <3>2
  <2>4. QED
    BY <2>1, <2>2, <2>3
<1>2. ASSUME NEW n \in 0 .. 2, NEW i \in 0 .. 7
      PROVE  i \in Bits(n) <=> i = n - 1
  BY <1>1 DEF Bits
<1>3. Bits(0) \subseteq 0 .. 7 /\ Bits(1) \subseteq 0 .. 7 /\ Bits(2) \subseteq 0 .. 7
  BY DEF Bits
<1>4. QED
  BY <1>2, <1>3

LEMMA FlagFacts ==
    /\ \A k \in 0 .. 7 : Flag(0, k) = {} /\ Flag(1, k) = {k}
    /\ Flag(2, 3) = {4}
BY BitsFacts DEF Flag

\* The settings of a client that a CONNECT can be made of without a field running into
\* another.
Fits(s) ==
    /\ s.version \in {3, 4}
    /\ s.cleanSession \in BOOLEAN /\ s.willRetain \in BOOLEAN
    /\ s.willQos \in 0 .. 2

LEMMA FlagsRead ==
    ASSUME NEW s, Fits(s)
    PROVE  /\ 0 \notin Flags(s)
           /\ 1 \in Flags(s) <=> s.cleanSession
           /\ 2 \in Flags(s) <=> s.willTopic # Empty
           /\ 3 \in Flags(s) <=> s.willTopic # Empty /\ s.willQos = 1
           /\ 4 \in Flags(s) <=> s.willTopic # Empty /\ s.willQos = 2
           /\ 5 \in Flags(s) <=> s.willTopic # Empty /\ s.willRetain
           /\ 6 \in Flags(s) <=> s.username # Empty /\ s.password # Empty
           /\ 7 \in Flags(s) <=> s.username # Empty
<1> USE DEF Fits
<1>1. /\ Flag(One(s.cleanSession), 1) = IF s.cleanSession THEN {1} ELSE {}
      /\ Flag(One(s.willRetain), 5) = IF s.willRetain THEN {5} ELSE {}
      /\ Flag(One(s.willTopic # Empty), 2) = IF s.willTopic # Empty THEN {2} ELSE {}
      /\ Flag(One(s.password # Empty), 6) = IF s.password # Empty THEN {6} ELSE {}
      /\ Flag(1, 7) = {7}
  BY FlagFacts DEF One
<1>2. Flag(s.willQos, 3) = IF s.willQos = 1 THEN {3} ELSE IF s.willQos = 2 THEN {4} ELSE {}
  <2>1. s.willQos = 0 \/ s.willQos = 1 \/ s.willQos = 2
    OBVIOUS
  <2>2. QED
    BY <2>1, FlagFacts
<1>3. QED
  BY <1>1, <1>2 DEF Flags

-----------------------------------------------------------------------------
(* The texts of a CONNECT. *)

LEMMA Joined ==
    ASSUME NEW S, NEW s \in Seq(S), NEW t \in Seq(S), NEW u \in Seq(S),
           Len(u) = Len(s) + Len(t),
           \A i \in 1 .. Len(s) : u[i] = s[i],
           \A i \in 1 .. Len(t) : u[Len(s) + i] = t[i]
    PROVE  s \o t = u
<1>1. /\ s \o t \in Seq(S) /\ Len(s \o t) = Len(u) /\ Len(s) \in Nat /\ Len(t) \in Nat
      /\ \A i \in 1 .. Len(s) : (s \o t)[i] = s[i]
      /\ \A i \in Len(s) + 1 .. Len(s) + Len(t) : (s \o t)[i] = t[i - Len(s)]
  BY ConcatProperties, LenProperties
<1>2. ASSUME NEW i \in 1 .. Len(u) PROVE (s \o t)[i] = u[i]
  <2>1. CASE i \in 1 .. Len(s)
    BY <1>1, <2>1
  <2>2. CASE i \in Len(s) + 1 .. Len(s) + Len(t)
    <3>1. i - Len(s) \in 1 .. Len(t) /\ Len(s) + (i - Len(s)) = i
      BY <1>1, <2>2
    <3>2. QED
      BY <1>1, <2>2, <3>1
  <2>3. QED
    BY <1>1, <2>1, <2>2
<1>3. QED
  BY <1>1, <1>2, SeqEqual

LEMMA OneAndOne ==
    ASSUME NEW a, NEW b
    PROVE  <<a>> \o <<b>> = <<a, b>>
<1> DEFINE S == {a, b}
           x == <<a>>
           y == <<b>>
           z == <<a, b>>
<1>1. /\ x \in Seq(S) /\ y \in Seq(S) /\ z \in Seq(S)
      /\ Len(x) = 1 /\ Len(y) = 1 /\ Len(z) = 2
  OBVIOUS
<1>2. \A i \in 1 .. 1 : z[i] = x[i]
  OBVIOUS
<1>3. \A i \in 1 .. 1 : z[1 + i] = y[i]
  OBVIOUS
<1> HIDE DEF x, y, z, S
<1>4. /\ Len(z) = Len(x) + Len(y)
      /\ \A i \in 1 .. Len(x) : z[i] = x[i]
      /\ \A i \in 1 .. Len(y) : z[Len(x) + i] = y[i]
  BY <1>1, <1>2, <1>3
<1>5. x \o y = z
  BY <1>1, <1>4, Joined
<1>6. QED
  BY <1>5 DEF x, y, z

LEMMA OneAndTwo ==
    ASSUME NEW a, NEW b, NEW c
    PROVE  <<a>> \o <<b, c>> = <<a, b, c>>
<1> DEFINE S == {a, b, c}
           x == <<a>>
           y == <<b, c>>
           z == <<a, b, c>>
<1>1. /\ x \in Seq(S) /\ y \in Seq(S) /\ z \in Seq(S)
      /\ Len(x) = 1 /\ Len(y) = 2 /\ Len(z) = 3
  OBVIOUS
<1>2. \A i \in 1 .. 1 : z[i] = x[i]
  OBVIOUS
<1>3. \A i \in 1 .. 2 : z[1 + i] = y[i]
  OBVIOUS
<1> HIDE DEF x, y, z, S
<1>4. /\ Len(z) = Len(x) + Len(y)
      /\ \A i \in 1 .. Len(x) : z[i] = x[i]
      /\ \A i \in 1 .. Len(y) : z[Len(x) + i] = y[i]
  BY <1>1, <1>2, <1>3
<1>5. x \o y = z
  BY <1>1, <1>4, Joined
<1>6. QED
  BY <1>5 DEF x, y, z

LEMMA ThreeAndOne ==
    ASSUME NEW a, NEW b, NEW c, NEW u
    PROVE  <<a, b, c>> \o <<u>> = <<a, b, c, u>>
<1> DEFINE S == {a, b, c, u}
           x == <<a, b, c>>
           y == <<u>>
           z == <<a, b, c, u>>
<1>1. /\ x \in Seq(S) /\ y \in Seq(S) /\ z \in Seq(S)
      /\ Len(x) = 3 /\ Len(y) = 1 /\ Len(z) = 4
  OBVIOUS
<1>2. \A i \in 1 .. 3 : z[i] = x[i]
  OBVIOUS
<1>3. \A i \in 1 .. 1 : z[3 + i] = y[i]
  OBVIOUS
<1> HIDE DEF x, y, z, S
<1>4. /\ Len(z) = Len(x) + Len(y)
      /\ \A i \in 1 .. Len(x) : z[i] = x[i]
      /\ \A i \in 1 .. Len(y) : z[Len(x) + i] = y[i]
  BY <1>1, <1>2, <1>3
<1>5. x \o y = z
  BY <1>1, <1>4, Joined
<1>6. QED
  BY <1>5 DEF x, y, z

LEMMA ThreeAndTwo ==
    ASSUME NEW a, NEW b, NEW c, NEW u, NEW v
    PROVE  <<a, b, c>> \o <<u, v>> = <<a, b, c, u, v>>
<1> DEFINE S == {a, b, c, u, v}
           x == <<a, b, c>>
           y == <<u, v>>
           z == <<a, b, c, u, v>>
<1>1. /\ x \in Seq(S) /\ y \in Seq(S) /\ z \in Seq(S)
      /\ Len(x) = 3 /\ Len(y) = 2 /\ Len(z) = 5
  OBVIOUS
<1>2. \A i \in 1 .. 3 : z[i] = x[i]
  OBVIOUS
<1>3. \A i \in 1 .. 2 : z[3 + i] = y[i]
  OBVIOUS
<1> HIDE DEF x, y, z, S
<1>4. /\ Len(z) = Len(x) + Len(y)
      /\ \A i \in 1 .. Len(x) : z[i] = x[i]
      /\ \A i \in 1 .. Len(y) : z[Len(x) + i] = y[i]
  BY <1>1, <1>2, <1>3
<1>5. x \o y = z
  BY <1>1, <1>4, Joined
<1>6. QED
  BY <1>5 DEF x, y, z

LEMMA TextsFacts ==
    ASSUME NEW s
    PROVE  LET will == s.willTopic # Empty
               user == s.username # Empty
               word == user /\ s.password # Empty
               n == IF will THEN 4 ELSE 2
           IN  /\ Len(Texts(s)) = 1 + 2 * One(will) + One(user) + One(word)
               /\ Texts(s)[1] = s.clientId
               /\ will => Texts(s)[2] = s.willTopic /\ Texts(s)[3] = s.willMessage
               /\ user => Texts(s)[n] = s.username
               /\ word => Texts(s)[n + 1] = s.password
<1>1. CASE s.willTopic = Empty /\ s.username = Empty
  <2>1. Texts(s) = <<s.clientId>>
    BY <1>1 DEF Texts
  <2>2. QED
    BY <1>1, <2>1 DEF One
<1>2. CASE s.willTopic = Empty /\ s.username # Empty /\ s.password = Empty
  <2>1. Texts(s) = <<s.clientId, s.username>>
    BY <1>2, OneAndOne DEF Texts
  <2>2. QED
    BY <1>2, <2>1 DEF One
<1>3. CASE s.willTopic = Empty /\ s.username # Empty /\ s.password # Empty
  <2>1. Texts(s) = <<s.clientId, s.username, s.password>>
    <3>1. Texts(s) = (<<s.clientId>> \o <<>>) \o (<<s.username>> \o <<s.password>>)
      BY <1>3 DEF Texts
    <3>2. <<s.username>> \o <<s.password>> = <<s.username, s.password>>
      BY OneAndOne
    <3>3. /\ <<s.clientId>> \o <<>> = <<s.clientId>>
          /\ <<s.clientId>> \o <<s.username, s.password>> = <<s.clientId, s.username, s.password>>
      BY OneAndTwo
    <3>4. QED
      BY <3>1, <3>2, <3>3
  <2>2. QED
    BY <1>3, <2>1 DEF One
<1>4. CASE s.willTopic # Empty /\ s.username = Empty
  <2>1. Texts(s) = <<s.clientId, s.willTopic, s.willMessage>>
    BY <1>4, OneAndTwo DEF Texts
  <2>2. QED
    BY <1>4, <2>1 DEF One
<1>5. CASE s.willTopic # Empty /\ s.username # Empty /\ s.password = Empty
  <2>1. Texts(s) = <<s.clientId, s.willTopic, s.willMessage, s.username>>
    <3>1. Texts(s) = (<<s.clientId>> \o <<s.willTopic, s.willMessage>>) \o (<<s.username>> \o <<>>)
      BY <1>5 DEF Texts
    <3>2. <<s.username>> \o <<>> = <<s.username>>
      OBVIOUS
    <3>3. <<s.clientId>> \o <<s.willTopic, s.willMessage>> = <<s.clientId, s.willTopic, s.willMessage>>
      BY OneAndTwo
    <3>4. <<s.clientId, s.willTopic, s.willMessage>> \o <<s.username>>
            = <<s.clientId, s.willTopic, s.willMessage, s.username>>
      BY ThreeAndOne
    <3>5. QED
      BY <3>1, <3>2, <3>3, <3>4
  <2>2. QED
    BY <1>5, <2>1 DEF One
<1>6. CASE s.willTopic # Empty /\ s.username # Empty /\ s.password # Empty
  <2>1. Texts(s) = <<s.clientId, s.willTopic, s.willMessage, s.username, s.password>>
    <3>1. Texts(s) = (<<s.clientId>> \o <<s.willTopic, s.willMessage>>)
                       \o (<<s.username>> \o <<s.password>>)
      BY <1>6 DEF Texts
    <3>2. <<s.username>> \o <<s.password>> = <<s.username, s.password>>
      BY OneAndOne
    <3>3. <<s.clientId>> \o <<s.willTopic, s.willMessage>> = <<s.clientId, s.willTopic, s.willMessage>>
      BY OneAndTwo
    <3>4. <<s.clientId, s.willTopic, s.willMessage>> \o <<s.username, s.password>>
            = <<s.clientId, s.willTopic, s.willMessage, s.username, s.password>>
      BY ThreeAndTwo
    <3>5. QED
      BY <3>1, <3>2, <3>3, <3>4
  <2>2. QED
    BY <1>6, <2>1 DEF One
<1>7. QED
  BY <1>1, <1>2, <1>3, <1>4, <1>5, <1>6

\* What the broker reads of a CONNECT is what the settings mean.
LEMMA ConnectReads ==
    ASSUME NEW s, Fits(s)
    PROVE  WellFormed(SendConnect(s)) /\ Read(SendConnect(s)) = Meant(s)
<1> DEFINE p == SendConnect(s)
           will == s.willTopic # Empty
           user == s.username # Empty
           word == user /\ s.password # Empty
           n == IF will THEN 4 ELSE 2
<1>1. /\ p.protocol = IF s.version = 4 THEN "MQTT" ELSE "MQIsdp"
      /\ p.level = s.version /\ p.flags = Flags(s) /\ p.keepAlive = KeepAlive(s)
      /\ p.texts = Texts(s)
  BY DEF SendConnect
<1> HIDE DEF p
<1>2. /\ ~Has(p, 0)
      /\ Has(p, 1) <=> s.cleanSession
      /\ Has(p, 2) <=> will
      /\ Has(p, 5) <=> will /\ s.willRetain
      /\ Has(p, 6) <=> word
      /\ Has(p, 7) <=> user
  BY <1>1, FlagsRead DEF Has
<1>3. NumberAt(p, 3) = IF will THEN s.willQos ELSE 0
  <2>1. /\ Has(p, 3) <=> will /\ s.willQos = 1
        /\ Has(p, 3 + 1) <=> will /\ s.willQos = 2
    BY <1>1, FlagsRead DEF Has
  <2>2. QED
    BY <2>1 DEF NumberAt, One, Fits
<1>4. /\ Len(p.texts) = 1 + 2 * One(will) + One(user) + One(word)
      /\ p.texts[1] = s.clientId
      /\ will => p.texts[2] = s.willTopic /\ p.texts[3] = s.willMessage
      /\ user => p.texts[n] = s.username
      /\ word => p.texts[n + 1] = s.password
  BY <1>1, TextsFacts
<1>5. WellFormed(p)
  <2>1. <<p.protocol, p.level>> \in {<<"MQIsdp", 3>>, <<"MQTT", 4>>}
    BY <1>1 DEF Fits
  <2>2. IF Has(p, 2) THEN NumberAt(p, 3) # 3 ELSE {3, 4, 5} \cap p.flags = {}
    <3>1. CASE will
      BY <1>2, <1>3, <3>1 DEF Fits
    <3>2. CASE ~will
      BY <1>1, <1>2, <3>2, FlagsRead DEF Has
    <3>3. QED
      BY <3>1, <3>2
  <2>3. Len(p.texts) = 1 + 2 * One(Has(p, 2)) + One(Has(p, 7)) + One(Has(p, 6))
    BY <1>2, <1>4 DEF One
  <2>4. QED
    BY <1>2, <2>1, <2>2, <2>3 DEF WellFormed
<1>6. Read(p) = Meant(s)
  <2>1. Has(p, 1) = s.cleanSession /\ (will => Has(p, 5) = s.willRetain)
    BY <1>2 DEF Has, Fits
  <2>2. (IF Has(p, 2) THEN [topic |-> p.texts[2], message |-> p.texts[3],
                            qos |-> NumberAt(p, 3), retain |-> Has(p, 5)]
         ELSE NoWill)
          = IF s.willTopic = Empty THEN NoWill
            ELSE [topic |-> s.willTopic, message |-> s.willMessage, qos |-> s.willQos,
                  retain |-> s.willRetain]
    BY <1>2, <1>3, <1>4, <2>1
  <2>3. (IF Has(p, 7) THEN p.texts[IF Has(p, 2) THEN 4 ELSE 2] ELSE Empty) = s.username
    BY <1>2, <1>4
  <2>4. (IF Has(p, 6) THEN p.texts[(IF Has(p, 2) THEN 4 ELSE 2) + 1] ELSE Empty)
          = IF s.username = Empty THEN Empty ELSE s.password
    BY <1>2, <1>4
  <2>5. QED
    BY <1>1, <1>4, <2>1, <2>2, <2>3, <2>4 DEF Read, Meant
<1>7. QED
  BY <1>5, <1>6 DEF p
-----------------------------------------------------------------------------
(* The client's settings, one setter at a time. *)

\* The inductive invariant of Connect.
SettingsInv ==
    /\ ConnectTypeOK
    /\ settings.cleanSession \in BOOLEAN /\ settings.willRetain \in BOOLEAN

LEMMA SettingsInit == ConnectInit => SettingsInv
<1> SUFFICES ASSUME ConnectInit PROVE SettingsInv
  OBVIOUS
<1>1. DOMAIN settings = SettingNames
  BY DEF ConnectInit, Defaults, SettingNames
<1>2. settings.keepAlive = 300 * Millisecond /\ settings.version = 3 /\ settings.willQos = 0
  BY DEF ConnectInit, Defaults
<1>3. settings.cleanSession = FALSE /\ settings.willRetain = FALSE
  BY DEF ConnectInit, Defaults
<1>4. settings.cleanSession \in BOOLEAN /\ settings.willRetain \in BOOLEAN
  BY <1>3, Zenon
<1>5. QED
  BY <1>1, <1>2, <1>4 DEF SettingsInv, ConnectTypeOK

LEMMA SettingsStep == SettingsInv /\ [ConnectNext]_settings => SettingsInv'
<1> SUFFICES ASSUME SettingsInv, [ConnectNext]_settings PROVE SettingsInv'
  OBVIOUS
<1>1. CASE UNCHANGED settings
  BY <1>1 DEF SettingsInv, ConnectTypeOK
<1>2. ASSUME NEW f \in SettingNames, NEW v \in Values[f], Set(f, v) PROVE SettingsInv'
  <2>1. DOMAIN settings = SettingNames
    BY DEF SettingsInv, ConnectTypeOK
  <2>2. /\ DOMAIN settings' = SettingNames
        /\ \A g \in SettingNames : settings'[g] = IF g = f THEN Stored(f, v) ELSE settings[g]
    BY <1>2, <2>1 DEF Set
  <2>3. /\ settings'.keepAlive = IF "keepAlive" = f THEN v * Millisecond ELSE settings.keepAlive
        /\ settings'.version = IF "version" = f THEN v ELSE settings.version
        /\ settings'.willQos = IF "willQos" = f THEN v ELSE settings.willQos
        /\ settings'.cleanSession = IF "cleanSession" = f THEN v ELSE settings.cleanSession
        /\ settings'.willRetain = IF "willRetain" = f THEN v ELSE settings.willRetain
    BY <2>2 DEF SettingNames, Stored
  <2>4. settings'.keepAlive \in {k * Millisecond : k \in Values["keepAlive"] \cup {300}}
    BY <2>3 DEF SettingsInv, ConnectTypeOK
  <2>5. settings'.version \in {3, 4} /\ settings'.willQos \in 0 .. 255
    <3>1. settings.version \in {3, 4} /\ settings.willQos \in 0 .. 255
      BY DEF SettingsInv, ConnectTypeOK
    <3>2. (f = "version" => v \in {3, 4}) /\ (f = "willQos" => v \in 0 .. 255)
      <4>1. Values["version"] \subseteq {3, 4} /\ Values["willQos"] \subseteq 0 .. 255
        BY ConnectAssumption
      <4>2. QED
        BY <4>1
    <3>3. QED
      BY <2>3, <3>1, <3>2
  <2>6. settings'.cleanSession \in BOOLEAN /\ settings'.willRetain \in BOOLEAN
    BY <2>3, ConnectAssumption DEF SettingsInv
  <2>7. QED
    BY <2>2, <2>4, <2>5, <2>6 DEF SettingsInv, ConnectTypeOK
<1>3. QED
  BY <1>1, <1>2 DEF ConnectNext

LEMMA SettingsInvariance == ConnectSpec => []SettingsInv
  BY SettingsInit, SettingsStep, PTL DEF ConnectSpec

\* The settings stay in their ranges, whichever setters are called.
THEOREM ConnectTypeCorrect == ConnectSpec => []ConnectTypeOK
<1>1. SettingsInv => ConnectTypeOK
  BY DEF SettingsInv
<1>2. QED
  BY <1>1, SettingsInvariance, PTL

\* Whichever settings are made, and in whichever order, CONNECT is well formed and says
\* to the broker what they mean: no flag without its field, no field without its flag.
THEOREM ConnectSaysSafe == ConnectSpec => []ConnectSaysSettings
<1>1. ASSUME SettingsInv, settings.willQos <= 2 PROVE Fits(settings)
  BY <1>1 DEF SettingsInv, ConnectTypeOK, Fits
<1>2. SettingsInv => ConnectSaysSettings
  BY <1>1, ConnectReads DEF ConnectSaysSettings
<1>3. QED
  BY <1>2, SettingsInvariance, PTL

-----------------------------------------------------------------------------
(* The demo's requests. *)

LEMMA SecondsFit ==
    ASSUME NEW n \in Seconds
    PROVE  n \in Int /\ n % 2 ^ 16 = n /\ (n * Millisecond) \div Millisecond = n
<1>1. 2 ^ 16 = 65536
  OBVIOUS
<1>2. ASSUME NEW k \in Nat, k < 65536 PROVE k % 65536 = k
  BY <1>2
<1>3. n \in Nat /\ n < 65536
  BY <1>1 DEF Seconds
<1>4. n % 65536 = n
  BY <1>2, <1>3
<1>5. ASSUME NEW k \in Int PROVE (k * 1000) \div 1000 = k
  OBVIOUS
<1>6. QED
  BY <1>1, <1>3, <1>4, <1>5 DEF Millisecond

LEMMA FitsInByte == ASSUME NEW n \in 0 .. 2 PROVE n % 2 ^ 8 = n
<1>1. 2 ^ 8 = 256
  OBVIOUS
<1>2. n % 256 = n
  OBVIOUS
<1>3. QED
  BY <1>1, <1>2

\* What applyClientConfig() sets, of parameters that are accepted.
LEMMA Configured ==
    ASSUME NEW p \in Forms, IsConnectionParamsValid(p)
    PROVE  LET s == ApplyClientConfig(p)
           IN  /\ DOMAIN s = SettingNames
               /\ s.version = 4 /\ s.clientId = Trimmed(p.clientId)
               /\ s.username = p.username
               /\ s.username # Empty => s.password = p.password
               /\ s.keepAlive = p.keepAlive * Millisecond /\ s.cleanSession = p.cleanSession
               /\ s.willTopic = p.willTopic
               /\ IF p.willTopic = Empty THEN s.willQos = 0 /\ s.willRetain = FALSE
                  ELSE /\ s.willMessage = p.willMessage
                       /\ s.willQos = p.willQos /\ s.willRetain = p.willRetain
<1>1. /\ p.keepAlive \in Seconds /\ p.willQos \in 0 .. 2
      /\ Trimmed(p.clientId) # Empty
  BY DEF IsConnectionParamsValid, IsBlank
<1>2. /\ Stored("keepAlive", p.keepAlive % 2 ^ 16) = p.keepAlive * Millisecond
      /\ Stored("clientId", Trimmed(p.clientId)) = Trimmed(p.clientId)
      /\ p.willQos % 2 ^ 8 = p.willQos
  <2>1. p.keepAlive % 2 ^ 16 = p.keepAlive /\ p.willQos % 2 ^ 8 = p.willQos
    BY <1>1, SecondsFit, FitsInByte
  <2>2. Stored("keepAlive", p.keepAlive % 2 ^ 16) = p.keepAlive * Millisecond
    BY <2>1 DEF Stored
  <2>3. Stored("clientId", Trimmed(p.clientId)) = Trimmed(p.clientId)
    BY <1>1 DEF Stored
  <2>4. QED
    BY <2>1, <2>2, <2>3
<1> DEFINE c == Trimmed(p.clientId)
           k == p.keepAlive * Millisecond
           named == [Defaults EXCEPT !.version = 4, !.clientId = c]
           user == IF p.username = Empty THEN named
                   ELSE [named EXCEPT !.username = p.username, !.password = p.password]
           timed == [user EXCEPT !.keepAlive = k, !.cleanSession = p.cleanSession]
           all == IF p.willTopic = Empty THEN timed
                  ELSE [timed EXCEPT !.willTopic = p.willTopic, !.willMessage = p.willMessage,
                                     !.willQos = p.willQos, !.willRetain = p.willRetain]
<1>3. ApplyClientConfig(p) = all
  BY <1>2 DEF ApplyClientConfig, ConfiguredOver
<1> HIDE DEF c, k
<1>4. /\ DOMAIN named = SettingNames
      /\ named.version = 4 /\ named.clientId = c /\ named.username = Empty
      /\ named.willTopic = Empty /\ named.willQos = 0 /\ named.willRetain = FALSE
  BY DEF Defaults, SettingNames
<1> HIDE DEF named
<1>5. /\ DOMAIN user = SettingNames
      /\ user.version = 4 /\ user.clientId = c /\ user.username = p.username
      /\ user.username # Empty => user.password = p.password
      /\ user.willTopic = Empty /\ user.willQos = 0 /\ user.willRetain = FALSE
  BY <1>4 DEF SettingNames
<1> HIDE DEF user
<1>6. /\ DOMAIN timed = SettingNames
      /\ timed.version = 4 /\ timed.clientId = c /\ timed.username = p.username
      /\ timed.username # Empty => timed.password = p.password
      /\ timed.keepAlive = k /\ timed.cleanSession = p.cleanSession
      /\ timed.willTopic = Empty /\ timed.willQos = 0 /\ timed.willRetain = FALSE
  BY <1>5 DEF SettingNames
<1> HIDE DEF timed
<1>7. /\ DOMAIN all = SettingNames
      /\ all.version = 4 /\ all.clientId = c /\ all.username = p.username
      /\ all.username # Empty => all.password = p.password
      /\ all.keepAlive = k /\ all.cleanSession = p.cleanSession
      /\ all.willTopic = p.willTopic
      /\ IF p.willTopic = Empty THEN all.willQos = 0 /\ all.willRetain = FALSE
         ELSE /\ all.willMessage = p.willMessage
              /\ all.willQos = p.willQos /\ all.willRetain = p.willRetain
  BY <1>6 DEF SettingNames
<1> HIDE DEF all
<1>8. QED
  BY <1>3, <1>7 DEF c, k

\* The CONNECT made of parameters that are accepted says what they mean.
LEMMA FormIsSaid ==
    ASSUME NEW p \in Forms, IsConnectionParamsValid(p)
    PROVE  LET packet == SendConnect(ApplyClientConfig(p))
           IN  WellFormed(packet) /\ Read(packet) = FormMeans(p)
<1> DEFINE s == ApplyClientConfig(p)
<1>1. /\ s.version = 4 /\ s.clientId = Trimmed(p.clientId)
      /\ s.username = p.username
      /\ s.username # Empty => s.password = p.password
      /\ s.keepAlive = p.keepAlive * Millisecond /\ s.cleanSession = p.cleanSession
      /\ s.willTopic = p.willTopic
      /\ IF p.willTopic = Empty THEN s.willQos = 0 /\ s.willRetain = FALSE
         ELSE /\ s.willMessage = p.willMessage
              /\ s.willQos = p.willQos /\ s.willRetain = p.willRetain
  BY Configured
<1>2. /\ p.keepAlive \in Seconds /\ p.willQos \in 0 .. 2
      /\ p.cleanSession \in BOOLEAN /\ p.willRetain \in BOOLEAN
  BY ParamsAssumption DEF IsConnectionParamsValid
<1> HIDE DEF s
<1>3. Fits(s)
  <2>1. s.willRetain \in BOOLEAN
    BY <1>1, <1>2, Zenon
  <2>2. s.cleanSession \in BOOLEAN
    BY <1>1, <1>2, Zenon
  <2>3. s.version \in {3, 4} /\ s.willQos \in 0 .. 2
    BY <1>1, <1>2
  <2>4. QED
    BY <2>1, <2>2, <2>3 DEF Fits
<1>4. KeepAlive(s) = p.keepAlive
  <2>1. KeepAlive(s) = (p.keepAlive * Millisecond) \div Millisecond
    BY <1>1 DEF KeepAlive
  <2>2. QED
    BY <1>2, <2>1, SecondsFit
<1>5. Meant(s) = FormMeans(p)
  BY <1>1, <1>4 DEF Meant, FormMeans
<1>6. QED
  BY <1>3, <1>5, ConnectReads DEF s

\* The inductive invariant of ConnectionParams.
ParamsInv == ParamsTypeOK /\ AcceptedIsInForce

LEMMA ParamsInitInv == ParamsInit => ParamsInv
<1> SUFFICES ASSUME ParamsInit PROVE ParamsInv
  OBVIOUS
<1>1. DOMAIN settings = SettingNames /\ settings.willQos = 0 /\ settings.keepAlive = 300 * Millisecond
  BY DEF ParamsInit, ConnectInit, Defaults, SettingNames
<1>2. settings.keepAlive
        \in {k * Millisecond : k \in {300} \cup ({p.keepAlive : p \in Forms} \cap Seconds)}
  BY <1>1
<1>3. reconnect \in [manual : BOOLEAN, allowed : BOOLEAN, timer : BOOLEAN] /\ ~reconnect.timer
  BY DEF ParamsInit, NoReconnect
<1>4. ParamsTypeOK
  BY <1>1, <1>2, <1>3 DEF ParamsInit, ParamsTypeOK, Answers
<1>5. AcceptedIsInForce
  BY DEF ParamsInit, AcceptedIsInForce, ConnectSaysForm, ClientSaysForm,
         SubscriptionsSayForm, ProxySaysForm
<1>6. QED
  BY <1>4, <1>5 DEF ParamsInv

\* A request for a connection that is accepted.
LEMMA AcceptedStep ==
    ASSUME ParamsInv, NEW p \in Forms, NEW loads \in BOOLEAN, NEW loadsAgain \in BOOLEAN,
           MgrConnectToHost(p, loads, loadsAgain), answered' = "accepted"
    PROVE  ParamsInv'
<1>1. /\ IsConnectionParamsValid(p)
      /\ formAsked' = p /\ settings' = ApplyClientConfig(p)
      /\ mgrClient' = CreateClient(p, loadsAgain)
      /\ subscriptions' = {p.autoSubscribeTopic} \ {Empty} /\ touched' = {}
      /\ reconnect' = [manual |-> FALSE, allowed |-> TRUE, timer |-> FALSE]
      /\ UNCHANGED <<proxy, proxyAsked>>
  BY DEF MgrConnectToHost
<1>2. /\ DOMAIN settings' = SettingNames
      /\ settings'.willQos = 0 \/ settings'.willQos = p.willQos
      /\ settings'.keepAlive = p.keepAlive * Millisecond
  BY <1>1, Configured
<1>3. /\ settings'.willQos \in 0 .. 2
      /\ settings'.keepAlive
            \in {k * Millisecond : k \in {300} \cup ({q.keepAlive : q \in Forms} \cap Seconds)}
  <2>1. p.keepAlive \in Seconds /\ p.willQos \in 0 .. 2
    BY <1>1 DEF IsConnectionParamsValid
  <2>2. settings'.willQos \in 0 .. 2
    BY <1>2, <2>1
  <2>3. p.keepAlive \in {300} \cup ({q.keepAlive : q \in Forms} \cap Seconds)
    BY <2>1
  <2>4. settings'.keepAlive
          \in {k * Millisecond : k \in {300} \cup ({q.keepAlive : q \in Forms} \cap Seconds)}
    BY <1>2, <2>3
  <2>5. QED
    BY <2>2, <2>4
<1>4. mgrClient' # NoClient /\ formAsked' # NotAsked
  BY <1>1, ParamsAssumption, NoClientAssumption
<1>5. reconnect' \in [manual : BOOLEAN, allowed : BOOLEAN, timer : BOOLEAN] /\ ~reconnect'.timer
  BY <1>1
<1>6. ParamsTypeOK'
  BY <1>1, <1>2, <1>3, <1>4, <1>5 DEF ParamsInv, ParamsTypeOK, Answers
<1>7. ConnectSaysForm'
  BY <1>1, FormIsSaid DEF ConnectSaysForm
<1>8. ClientSaysForm'
  <2>1. mgrClient' = [kind |-> p.type, host |-> Trimmed(p.host), port |-> p.port,
                      ignoreSelfSigned |-> p.type = "wss" /\ p.ignoreSelfSigned,
                      caCertificates |-> IF NamesCa(p) /\ loadsAgain
                                         THEN {Trimmed(p.sslCaCertPath)} ELSE {}]
    BY <1>1 DEF CreateClient
  <2>2. NamesCa(p) => p.type = "wss" /\ Trimmed(p.sslCaCertPath) # Empty
    BY DEF NamesCa, IsBlank
  <2>3. /\ mgrClient'.kind = p.type
        /\ mgrClient'.host = Trimmed(p.host) /\ mgrClient'.port = p.port
        /\ mgrClient'.ignoreSelfSigned = (p.type = "wss" /\ p.ignoreSelfSigned)
        /\ mgrClient'.caCertificates
              = IF NamesCa(p) /\ loadsAgain THEN {Trimmed(p.sslCaCertPath)} ELSE {}
    BY <2>1, Zenon
  <2>4. mgrClient'.ignoreSelfSigned <=> p.type = "wss" /\ p.ignoreSelfSigned
    BY <2>3, Zenon
  <2>5. /\ mgrClient'.caCertificates \subseteq {Trimmed(p.sslCaCertPath)} \ {Empty}
        /\ mgrClient'.caCertificates # {} => p.type = "wss"
    BY <2>2, <2>3
  <2>6. QED
    BY <1>1, <2>3, <2>4, <2>5, Zenon DEF ClientSaysForm
<1>9. SubscriptionsSayForm'
  BY <1>1 DEF SubscriptionsSayForm
<1>10. ProxySaysForm'
  BY <1>1 DEF ParamsInv, AcceptedIsInForce, ProxySaysForm
<1>11. QED
  BY <1>6, <1>7, <1>8, <1>9, <1>10 DEF ParamsInv, AcceptedIsInForce

\* A proxy that is accepted.
LEMMA ProxyStep ==
    ASSUME ParamsInv, NEW q \in ProxyForms, ApplyProxy(q)
    PROVE  ParamsInv'
<1>1. UNCHANGED mgrVars /\ answered' \in Answers
  BY DEF ApplyProxy, Answers
<1>2. \/ proxy' = NoProxy /\ proxyAsked' = q /\ q.type = "None"
      \/ /\ proxy' = Proxy(q) /\ proxyAsked' = q
         /\ q.type # "None" /\ ~IsBlank(q.host) /\ q.port > 0
      \/ UNCHANGED <<proxy, proxyAsked>>
  BY DEF ApplyProxy
<1>3. /\ Proxy(q).type = q.type /\ Proxy(q).host = Trimmed(q.host) /\ Proxy(q).port = q.port
      /\ Proxy(q).user = Trimmed(q.username)
      /\ Proxy(q).password = IF IsBlank(q.username) THEN Empty ELSE q.password
  BY DEF Proxy
<1>4. ParamsTypeOK'
  <2>1. proxy' = NoProxy \/ (proxy'.port > 0 /\ proxy'.host # Empty)
    BY <1>2, <1>3 DEF ParamsInv, ParamsTypeOK, IsBlank
  <2>2. QED
    BY <1>1, <2>1 DEF ParamsInv, ParamsTypeOK, mgrVars
<1>5. ProxySaysForm'
  <2>1. q # NotAsked /\ Proxy(q) # NoProxy
    BY ParamsAssumption, NoProxyAssumption
  <2>2. QED
    BY <1>2, <1>3, <2>1 DEF ParamsInv, AcceptedIsInForce, ProxySaysForm, IsBlank
<1>6. ConnectSaysForm' /\ ClientSaysForm' /\ SubscriptionsSayForm'
  BY <1>1 DEF ParamsInv, AcceptedIsInForce, ConnectSaysForm, ClientSaysForm,
              SubscriptionsSayForm, mgrVars
<1>7. QED
  BY <1>4, <1>5, <1>6 DEF ParamsInv, AcceptedIsInForce

LEMMA ParamsStepInv == ParamsInv /\ [ParamsNext]_paramsVars => ParamsInv'
<1> SUFFICES ASSUME ParamsInv, [ParamsNext]_paramsVars PROVE ParamsInv'
  OBVIOUS
<1>1. ASSUME UNCHANGED <<settings, mgrClient, formAsked, proxy, proxyAsked>>, answered' \in Answers,
             reconnect' \in [manual : BOOLEAN, allowed : BOOLEAN, timer : BOOLEAN],
             reconnect'.timer => reconnect'.allowed /\ ~reconnect'.manual,
             SubscriptionsSayForm'
      PROVE  ParamsInv'
  BY <1>1 DEF ParamsInv, ParamsTypeOK, AcceptedIsInForce, ConnectSaysForm, ClientSaysForm,
              ProxySaysForm
<1>2. /\ reconnect \in [manual : BOOLEAN, allowed : BOOLEAN, timer : BOOLEAN]
      /\ reconnect.timer => reconnect.allowed /\ ~reconnect.manual
      /\ answered \in Answers
      /\ UNCHANGED <<mgrClient, formAsked, subscriptions, touched>> => SubscriptionsSayForm'
  BY DEF ParamsInv, ParamsTypeOK, AcceptedIsInForce, SubscriptionsSayForm
<1>3. ASSUME NEW p \in Forms, NEW loads \in BOOLEAN, NEW loadsAgain \in BOOLEAN,
             MgrConnectToHost(p, loads, loadsAgain)
      PROVE  ParamsInv'
  <2>1. CASE answered' = "accepted"
    BY <1>3, <2>1, AcceptedStep
  <2>2. CASE answered' # "accepted"
    <3>1. UNCHANGED mgrVars /\ UNCHANGED <<proxy, proxyAsked>> /\ answered' \in Answers
      BY <1>3, <2>2 DEF MgrConnectToHost, Answers
    <3>2. QED
      BY <1>1, <1>2, <3>1 DEF mgrVars
  <2>3. QED
    BY <2>1, <2>2
<1>4. ASSUME NEW q \in ProxyForms, ApplyProxy(q) PROVE ParamsInv'
  BY <1>4, ProxyStep
<1>5. CASE \/ \E t \in MoreTopics : Subscribe(t) \/ Unsubscribe(t)
           \/ UNCHANGED paramsVars
  <2>1. UNCHANGED <<settings, mgrClient, reconnect, formAsked, proxy, proxyAsked>> /\ answered' \in Answers
    BY <1>2, <1>5 DEF Subscribe, Unsubscribe, paramsVars, mgrVars, Answers
  <2>2. ASSUME NEW t \in MoreTopics, Subscribe(t) \/ Unsubscribe(t)
        PROVE  SubscriptionsSayForm'
    BY <2>1, <2>2 DEF Subscribe, Unsubscribe, ParamsInv, AcceptedIsInForce, SubscriptionsSayForm
  <2>3. SubscriptionsSayForm'
    BY <1>2, <1>5, <2>2 DEF paramsVars, mgrVars
  <2>4. QED
    BY <1>1, <1>2, <2>1, <2>3
<1>6. CASE ConnectionLost
  <2>1. /\ reconnect' = [reconnect EXCEPT !.timer = TRUE] /\ reconnect.allowed /\ ~reconnect.manual
        /\ UNCHANGED <<settings, mgrClient, subscriptions, formAsked, touched, proxy, proxyAsked>>
        /\ answered' \in Answers
    BY <1>6 DEF ConnectionLost, Answers
  <2>2. reconnect' \in [manual : BOOLEAN, allowed : BOOLEAN, timer : BOOLEAN]
    BY <1>2, <2>1
  <2>3. reconnect'.allowed = reconnect.allowed /\ reconnect'.manual = reconnect.manual
    BY <1>2, <2>1
  <2>4. QED
    BY <1>1, <1>2, <2>1, <2>2, <2>3
<1>7. CASE MgrDisconnectFromHost
  <2>1. /\ reconnect' = [manual |-> TRUE, allowed |-> FALSE, timer |-> FALSE]
        /\ UNCHANGED <<settings, mgrClient, subscriptions, formAsked, touched, proxy, proxyAsked>>
        /\ answered' \in Answers
    BY <1>7 DEF MgrDisconnectFromHost, Answers
  <2>2. reconnect' \in [manual : BOOLEAN, allowed : BOOLEAN, timer : BOOLEAN] /\ ~reconnect'.timer
    BY <2>1
  <2>3. QED
    BY <1>1, <1>2, <2>1, <2>2
<1>8. QED
  BY <1>3, <1>4, <1>5, <1>6, <1>7 DEF ParamsNext, Request

LEMMA ParamsInvariance == ParamsSpec => []ParamsInv
  BY ParamsInitInv, ParamsStepInv, PTL DEF ParamsSpec

\* Every variable of ConnectionParams stays in its range, a client is there just when
\* one was asked for, and the timer runs only for a user who wants to be connected.
THEOREM ParamsTypeCorrect == ParamsSpec => []ParamsTypeOK
<1>1. ParamsInv => ParamsTypeOK
  BY DEF ParamsInv
<1>2. QED
  BY <1>1, ParamsInvariance, PTL

\* Whatever was asked for before, the manager's client has the kind, the server and the
\* trust of the last accepted form, its CONNECT says exactly what that form means, no
\* topic of an earlier form stays to be subscribed, and the application proxy is that of
\* the last accepted proxy form, or none, with no user or password of another.
THEOREM AcceptedSafe == ParamsSpec => []AcceptedIsInForce
<1>1. ParamsInv => AcceptedIsInForce
  BY DEF ParamsInv
<1>2. QED
  BY <1>1, ParamsInvariance, PTL

\* A refused request leaves everything as it was.
THEOREM RefusedIsHarmless == ParamsSpec => RefusedChangesNothing
<1>1. [ParamsNext]_paramsVars
        => [answered' \notin {"none", "accepted"}
              => UNCHANGED <<mgrVars, proxy, proxyAsked>>]_paramsVars
  <2> SUFFICES ASSUME ParamsNext, answered' \notin {"none", "accepted"}
               PROVE  UNCHANGED <<mgrVars, proxy, proxyAsked>>
    BY DEF paramsVars
  <2>1. ASSUME NEW p \in Forms, NEW loads \in BOOLEAN, NEW loadsAgain \in BOOLEAN,
               MgrConnectToHost(p, loads, loadsAgain)
        PROVE  UNCHANGED <<mgrVars, proxy, proxyAsked>>
    BY <2>1 DEF MgrConnectToHost
  <2>2. ASSUME NEW q \in ProxyForms, ApplyProxy(q) PROVE UNCHANGED <<mgrVars, proxy, proxyAsked>>
    BY <2>2 DEF ApplyProxy
  <2>3. Request
    BY DEF ParamsNext, Subscribe, Unsubscribe, ConnectionLost, MgrDisconnectFromHost
  <2>4. QED
    BY <2>1, <2>2, <2>3 DEF Request
<1>2. QED
  BY <1>1, PTL DEF ParamsSpec, RefusedChangesNothing

-----------------------------------------------------------------------------
(* Endpoint. *)

\* What Network has kept is, as far as a socket can tell, the address of the last
\* connectToHost(), although the two may differ in the host beside a name.
KeptIsAsked == asked = Target(kept)

EndpointInv == EndpointTypeOK /\ KeptIsAsked

-----------------------------------------------------------------------------
\* Network::connectToHost() takes over an address whole: what is dialled of it does
\* not depend on what was kept before.
LEMMA TakenOverIsAsked ==
    ASSUME NEW a \in Addresses, kept \in Addresses
    PROVE  TakenOver(a) \in Addresses /\ Target(TakenOver(a)) = Target(a)
<1>1. CASE a.hostName = NoName
  BY <1>1 DEF TakenOver
<1>2. CASE a.hostName # NoName
  <2>1. TakenOver(a) = [host |-> kept.host, hostName |-> a.hostName, port |-> a.port]
    BY <1>2 DEF TakenOver
  <2>2. TakenOver(a) \in Addresses
    BY <2>1 DEF Addresses
  <2>3. TakenOver(a).hostName = a.hostName /\ TakenOver(a).port = a.port
    BY <2>1
  <2>4. Target(TakenOver(a)) = <<a.hostName, a.port>> /\ Target(a) = <<a.hostName, a.port>>
    BY <1>2, <2>3, Zenon DEF Target
  <2>5. QED
    BY <2>2, <2>4
<1>3. QED
  BY <1>1, <1>2

\* A call that the socket takes makes it dial the address; one that it refuses
\* leaves the address it had.
LEMMA DialStep ==
    ASSUME NEW a \in Addresses, EndpointTypeOK, Dial(a)
    PROVE  /\ link' \in {"none", "dialling", "up"} /\ closing' \in BOOLEAN
           /\ dialled' \in Targets
           /\ link = "none" => dialled' = Target(a)
<1>1. Target(a) \in Targets
  BY Zenon DEF Targets
<1>2. /\ link \in {"none", "dialling", "up"} /\ closing \in BOOLEAN
      /\ dialled \in Targets
  BY DEF EndpointTypeOK
<1>3. CASE link = "none"
  BY <1>1, <1>2, <1>3, Zenon DEF Dial
<1>4. CASE link # "none"
  BY <1>2, <1>4, Zenon DEF Dial
<1>5. QED
  BY <1>3, <1>4, Zenon

-----------------------------------------------------------------------------
LEMMA EndpointInitInv == EndpointInit => EndpointInv
<1> SUFFICES ASSUME EndpointInit PROVE EndpointInv
  OBVIOUS
<1>1. own \in Addresses /\ kept \in Addresses
  BY DEF EndpointInit, Addresses
<1>2. Target(kept) \in Targets
  BY <1>1, Zenon DEF Targets
<1>3. dialled = Target(kept) /\ asked = Target(kept)
  BY DEF EndpointInit
<1>4. dialled \in Targets /\ asked \in Targets
  BY <1>2, <1>3, Zenon
<1>5. /\ link \in {"none", "dialling", "up"} /\ closing \in BOOLEAN
      /\ autoReconnect \in BOOLEAN /\ interval \in Intervals \cup {5000}
      /\ waiting \in {0, interval}
  <2>1. link \in {"none", "dialling", "up"}
    BY DEF EndpointInit
  <2>2. closing = FALSE /\ autoReconnect = FALSE
    BY DEF EndpointInit
  <2>3. closing \in BOOLEAN
    BY <2>2
  <2>4. autoReconnect \in BOOLEAN
    BY <2>2
  <2>5. interval \in Intervals \cup {5000} /\ waiting \in {0, interval}
    BY DEF EndpointInit
  <2>6. QED
    BY <2>1, <2>3, <2>4, <2>5
<1>6. EndpointTypeOK
  BY <1>1, <1>4, <1>5 DEF EndpointTypeOK
<1>7. QED
  BY <1>3, <1>6, Zenon DEF EndpointInv, KeptIsAsked

LEMMA EndpointStepInv == EndpointInv /\ [EndpointNext]_endpointVars => EndpointInv'
<1> SUFFICES ASSUME EndpointInv, [EndpointNext]_endpointVars
             PROVE  EndpointInv'
  OBVIOUS
<1> USE DEF EndpointInv, KeptIsAsked
<1>1. ASSUME NEW h \in Hosts, SetHost(h)
      PROVE  EndpointInv'
  BY <1>1 DEF SetHost, netVars, linkVars, EndpointTypeOK, Addresses, Target
<1>2. ASSUME NEW n \in HostNames \cup {NoName}, SetHostName(n)
      PROVE  EndpointInv'
  BY <1>2 DEF SetHostName, netVars, linkVars, EndpointTypeOK, Addresses, Target
<1>3. ASSUME NEW p \in Ports, SetPort(p)
      PROVE  EndpointInv'
  BY <1>3 DEF SetPort, netVars, linkVars, EndpointTypeOK, Addresses, Target
<1>4. ASSUME NEW b \in BOOLEAN, SetAutoReconnect(b)
      PROVE  EndpointInv'
  BY <1>4 DEF SetAutoReconnect, linkVars, EndpointTypeOK, Target
<1>5. ASSUME NEW i \in Intervals, SetAutoReconnectInterval(i)
      PROVE  EndpointInv'
  BY <1>5 DEF SetAutoReconnectInterval, linkVars, EndpointTypeOK, Target
<1>6. CASE ConnectToHost
  <2>1. own \in Addresses /\ kept \in Addresses
    BY DEF EndpointTypeOK
  <2>2. kept' \in Addresses /\ asked' = Target(kept')
    BY <1>6, <2>1, TakenOverIsAsked DEF ConnectToHost
  <2>3. asked' \in Targets
    BY <2>2 DEF Targets
  <2>4. /\ link' \in {"none", "dialling", "up"} /\ closing' \in BOOLEAN
        /\ dialled' \in Targets
    BY <1>6, <2>1, TakenOverIsAsked, DialStep DEF ConnectToHost
  <2>5. QED
    BY <1>6, <2>2, <2>3, <2>4 DEF ConnectToHost, netVars, EndpointTypeOK
<1>7. CASE AutoReconnectFires
  <2>1. /\ link' \in {"none", "dialling", "up"} /\ closing' \in BOOLEAN
        /\ dialled' \in Targets
    BY <1>7, DialStep DEF AutoReconnectFires, EndpointTypeOK
  <2>2. QED
    BY <1>7, <2>1 DEF AutoReconnectFires, EndpointTypeOK, Target
<1>8. CASE DisconnectFromHost \/ Connected \/ AttemptFails \/ Disconnected
  <2>1. CASE DisconnectFromHost
    BY <2>1 DEF DisconnectFromHost, netVars, EndpointTypeOK, Target
  <2>2. CASE Connected
    BY <2>2 DEF Connected, EndpointTypeOK, Target
  <2>3. CASE AttemptFails
    <3>1. closing' = FALSE
      BY <2>3 DEF AttemptFails
    <3>2. closing' \in BOOLEAN
      BY <3>1, Zenon
    <3>3. link' \in {"none", "dialling", "up"}
      BY <2>3 DEF AttemptFails
    <3>4. /\ own' \in Addresses /\ kept' \in Addresses
          /\ dialled' \in Targets /\ asked' \in Targets
          /\ asked' = Target(kept')
      BY <2>3 DEF AttemptFails, EndpointTypeOK, Target
    <3>5. autoReconnect' \in BOOLEAN
      BY <2>3 DEF AttemptFails, netVars, EndpointTypeOK
    <3>6. interval' \in Intervals \cup {5000} /\ waiting' \in {0, interval'}
      BY <2>3 DEF AttemptFails, netVars, EndpointTypeOK
    <3>7. QED
      BY <3>2, <3>3, <3>4, <3>5, <3>6 DEF EndpointTypeOK
  <2>4. CASE Disconnected
    <3>1. closing' = FALSE
      BY <2>4 DEF Disconnected
    <3>2. closing' \in BOOLEAN
      BY <3>1, Zenon
    <3>3. link' \in {"none", "dialling", "up"}
      BY <2>4 DEF Disconnected
    <3>4. /\ own' \in Addresses /\ kept' \in Addresses
          /\ dialled' \in Targets /\ asked' \in Targets
          /\ asked' = Target(kept')
      BY <2>4 DEF Disconnected, EndpointTypeOK, Target
    <3>5. autoReconnect' \in BOOLEAN
      BY <2>4 DEF Disconnected, EndpointTypeOK
    <3>6. interval' \in Intervals \cup {5000} /\ waiting' \in {0, interval'}
      BY <2>4 DEF Disconnected, EndpointTypeOK
    <3>7. QED
      BY <3>2, <3>3, <3>4, <3>5, <3>6 DEF EndpointTypeOK
  <2>5. QED
    BY <1>8, <2>1, <2>2, <2>3, <2>4
<1>9. CASE UNCHANGED endpointVars
  BY <1>9 DEF endpointVars, netVars, linkVars, EndpointTypeOK, Target
<1>10. QED
  BY <1>1, <1>2, <1>3, <1>4, <1>5, <1>6, <1>7, <1>8, <1>9 DEF EndpointNext

\* An attempt begins with a call of the application or the timer's; either way for
\* the address that was asked for.
LEMMA AttemptStep ==
    ASSUME EndpointInv, [EndpointNext]_endpointVars, link = "none", link' = "dialling"
    PROVE  dialled' = asked'
<1>1. CASE ConnectToHost
  <2>1. own \in Addresses /\ kept \in Addresses
    BY DEF EndpointInv, EndpointTypeOK
  <2>2. TakenOver(own) \in Addresses /\ Target(TakenOver(own)) = Target(own)
    BY <2>1, TakenOverIsAsked
  <2>3. QED
    BY <1>1, <2>2, DialStep DEF ConnectToHost, EndpointInv
<1>2. CASE AutoReconnectFires
  BY <1>2, DialStep DEF AutoReconnectFires, EndpointInv, EndpointTypeOK, KeptIsAsked
<1>3. ASSUME ~ConnectToHost, ~AutoReconnectFires
      PROVE  FALSE
  BY <1>3 DEF EndpointNext, endpointVars, linkVars, SetHost, SetHostName, SetPort,
              SetAutoReconnect, SetAutoReconnectInterval, DisconnectFromHost, Connected,
              AttemptFails, Disconnected
<1>4. QED
  BY <1>1, <1>2, <1>3

-----------------------------------------------------------------------------
LEMMA EndpointInvariant == EndpointSpec => []EndpointInv
  BY EndpointInitInv, EndpointStepInv, PTL DEF EndpointSpec

\* Every variable of Endpoint stays in its range, and a timer that runs waits for the
\* interval in force.
THEOREM EndpointTypeCorrect == EndpointSpec => []EndpointTypeOK
<1>1. EndpointInv => EndpointTypeOK
  BY DEF EndpointInv
<1>2. QED
  BY <1>1, EndpointInvariant, PTL

\* Whoever starts an attempt, the socket is asked for the address of the client at its
\* last connectToHost(), whatever was set since and whatever was kept before.
THEOREM DialsAsked == EndpointSpec => DialsWhatWasAsked
<1>1. EndpointInv /\ [EndpointNext]_endpointVars
        => [link = "none" /\ link' = "dialling" => dialled' = asked']_endpointVars
  BY AttemptStep
<1>2. QED
  BY <1>1, EndpointInvariant, PTL DEF EndpointSpec, DialsWhatWasAsked

-----------------------------------------------------------------------------
(* Tls. *)

\* What a socket ignores without the application having said so, it ignores for
\* onSslErrors() in a handshake that is over: while a connection is made there is no
\* such flag left of an earlier one, nor an earlier outcome.
NothingLeftOver ==
    /\ ignoreList \subseteq allowedList
    /\ kind # "wss" => ignoreList = allowedList
    /\ (ignoreAll /\ ~allowedAll) => kind # "wss" /\ phase \in {"closed", "open"}
    /\ outcome # "none" => phase \in {"closed", "open"}

TlsInv == TlsTypeOK /\ NothingLeftOver

-----------------------------------------------------------------------------
\* A handshake that the socket accepts was allowed: by the application, by the setting
\* or by a configuration that verifies nothing.
LEMMA AcceptedWasAllowed ==
    ASSUME TlsInv, Handshake, Accepted(ignoreAll', ignoreList)
    PROVE  \/ ~verifying
           \/ allowedAll
           \/ errors \subseteq allowedList
           \/ ignoreSelfSigned /\ errors \subseteq SelfSigned
<1>1. ignoreList \subseteq allowedList
  BY DEF TlsInv, NothingLeftOver
<1>2. CASE errors = {}
  BY <1>2, <1>1
<1>3. CASE ignoreAll'
  <2>1. phase = "handshake" /\ (ignoreAll \/ (Reported /\ OnSslErrors))
    BY <1>3 DEF Handshake
  <2>2. ignoreAll => allowedAll
    BY <2>1 DEF TlsInv, NothingLeftOver
  <2>3. QED
    BY <2>1, <2>2 DEF OnSslErrors
<1>4. QED
  BY <1>1, <1>2, <1>3 DEF Accepted

\* The other way round: with ignoreSelfSigned, and where its signal is connected, a
\* handshake whose errors are about self-signed certificates is accepted, as long as
\* no list of the application's counts instead, or the list has them.
LEMMA SelfSignedAccepted ==
    ASSUME Handshake, ignoreSelfSigned, kind # "wss", errors \subseteq SelfSigned,
           ignoreList = {} \/ errors \subseteq ignoreList
    PROVE  Accepted(ignoreAll', ignoreList)
<1>1. CASE errors = {}
  BY <1>1 DEF Accepted
<1>2. CASE errors # {}
  <2>1. Reported /\ OnSslErrors
    BY <1>2 DEF Reported, OnSslErrors
  <2>2. QED
    BY <2>1 DEF Handshake, Accepted
<1>3. QED
  BY <1>1, <1>2

-----------------------------------------------------------------------------
LEMMA TlsInitInv == TlsInit => TlsInv
  BY TlsAssumption DEF TlsInit, TlsInv, TlsTypeOK, NothingLeftOver, Errors

LEMMA TlsStepInv == TlsInv /\ [TlsNext]_tlsVars => TlsInv'
<1> SUFFICES ASSUME TlsInv, [TlsNext]_tlsVars
             PROVE  TlsInv'
  OBVIOUS
<1> USE DEF TlsInv, TlsTypeOK, NothingLeftOver
<1>1. CASE IgnoreSslErrors
  <2>1. CASE IgnoreAll
    BY <1>1, <2>1 DEF IgnoreSslErrors, IgnoreAll, socket, madeAs, checking
  <2>2. ASSUME NEW es \in SUBSET Errors, IgnoreList(es)
        PROVE  TlsInv'
    BY <1>1, <2>2 DEF IgnoreSslErrors, IgnoreList, socket, madeAs, checking
  <2>3. QED
    BY <1>1, <2>1, <2>2 DEF IgnoreSslErrors
<1>2. ASSUME NEW v \in BOOLEAN, SetSslConfiguration(v)
      PROVE  TlsInv'
  BY <1>2 DEF SetSslConfiguration, socket, ignoring, madeAs
<1>3. CASE TlsConnectToHost
  BY <1>3 DEF TlsConnectToHost, Dialled, madeAs
<1>4. CASE TlsDisconnectFromHost
  BY <1>4 DEF TlsDisconnectFromHost, ignoring, madeAs, checking
<1>5. ASSUME NEW es \in SUBSET Errors, TransportConnects(es)
      PROVE  TlsInv'
  BY <1>5 DEF TransportConnects, ignoring, madeAs, checking
<1>6. CASE Handshake
  <2>1. /\ kind' = kind /\ ignoreSelfSigned' = ignoreSelfSigned /\ errors' = errors
        /\ verify' = verify /\ verifying' = verifying
    BY <1>6 DEF Handshake, madeAs, checking
  <2>2. ignoreAll' \in BOOLEAN
    BY <1>6 DEF Handshake, Reported, OnSslErrors
  <2>3. UNCHANGED <<ignoreList, allowedAll, allowedList>>
    BY <1>6 DEF Handshake
  <2>4. (ignoreAll' /\ ~allowedAll') => ignoreSelfSigned /\ kind # "wss"
    BY <1>6 DEF Handshake, Reported, OnSslErrors
  <2>5. /\ phase' \in {"closed", "open"}
        /\ outcome' \in {"accepted", "refused"}
        /\ toldConnected' \in BOOLEAN
    BY <1>6 DEF Handshake
  <2>6. QED
    BY <2>1, <2>2, <2>3, <2>4, <2>5
<1>7. CASE UNCHANGED tlsVars
  BY <1>7 DEF tlsVars, socket, ignoring, madeAs, checking
<1>8. QED
  BY <1>1, <1>2, <1>3, <1>4, <1>5, <1>6, <1>7 DEF TlsNext

\* Of the actions, only the handshake tells the client, and only after the decision.
LEMMA TellingStep ==
    ASSUME TlsInv, [TlsNext]_tlsVars, toldConnected', ~toldConnected
    PROVE  Handshake /\ phase' = "open" /\ Accepted(ignoreAll', ignoreList)
<1>1. CASE Handshake
  BY <1>1 DEF Handshake
<1>2. CASE IgnoreSslErrors
  BY <1>2 DEF IgnoreSslErrors, socket
<1>3. ASSUME NEW v \in BOOLEAN, SetSslConfiguration(v)
      PROVE  FALSE
  BY <1>3 DEF SetSslConfiguration, socket
<1>4. CASE TlsConnectToHost \/ TlsDisconnectFromHost
  BY <1>4 DEF TlsConnectToHost, TlsDisconnectFromHost
<1>5. ASSUME NEW es \in SUBSET Errors, TransportConnects(es)
      PROVE  FALSE
  BY <1>5 DEF TransportConnects
<1>6. CASE UNCHANGED tlsVars
  BY <1>6 DEF tlsVars, socket
<1>7. QED
  BY <1>1, <1>2, <1>3, <1>4, <1>5, <1>6 DEF TlsNext

\* Nor does any other action refuse a handshake: an outcome is forgotten when the socket
\* dials again.
LEMMA RefusingStep ==
    ASSUME TlsInv, [TlsNext]_tlsVars, phase = "handshake", outcome' = "refused"
    PROVE  Handshake /\ ~Accepted(ignoreAll', ignoreList)
<1>1. outcome # "refused"
  BY DEF TlsInv, NothingLeftOver
<1>2. CASE Handshake
  BY <1>2 DEF Handshake
<1>3. CASE IgnoreSslErrors
  BY <1>1, <1>3 DEF IgnoreSslErrors, socket
<1>4. ASSUME NEW v \in BOOLEAN, SetSslConfiguration(v)
      PROVE  FALSE
  BY <1>1, <1>4 DEF SetSslConfiguration, socket
<1>5. CASE TlsConnectToHost \/ TlsDisconnectFromHost
  BY <1>1, <1>5 DEF TlsConnectToHost, TlsDisconnectFromHost
<1>6. ASSUME NEW es \in SUBSET Errors, TransportConnects(es)
      PROVE  FALSE
  BY <1>1, <1>6 DEF TransportConnects
<1>7. CASE UNCHANGED tlsVars
  BY <1>1, <1>7 DEF tlsVars, socket
<1>8. QED
  BY <1>2, <1>3, <1>4, <1>5, <1>6, <1>7 DEF TlsNext

-----------------------------------------------------------------------------
LEMMA TlsInvariant == TlsSpec => []TlsInv
  BY TlsInitInv, TlsStepInv, PTL DEF TlsSpec

\* Every variable of Tls stays in its range.
THEOREM TlsTypeCorrect == TlsSpec => []TlsTypeOK
<1>1. TlsInv => TlsTypeOK
  BY DEF TlsInv
<1>2. QED
  BY <1>1, TlsInvariant, PTL

\* onSslErrors() is reached, and what it ignores is enough: over QSslSocket no
\* handshake fails for self-signed certificates alone, unless a list that the
\* application gave, on this connection or an earlier one, leaves one out.
THEOREM SelfSignedSafe == TlsSpec => SelfSignedIsAccepted
<1>1. TlsInv /\ [TlsNext]_tlsVars
        => [(phase = "handshake" /\ outcome' = "refused" /\ ignoreSelfSigned /\ kind # "wss") =>
              \/ ~(errors \subseteq SelfSigned)
              \/ allowedList # {} /\ ~(errors \subseteq allowedList)]_tlsVars
  BY RefusingStep, SelfSignedAccepted DEF TlsInv, NothingLeftOver
<1>2. QED
  BY <1>1, TlsInvariant, PTL DEF TlsSpec, SelfSignedIsAccepted

\* The client is told of a connection, and sends its password, only after a handshake
\* every error of which was allowed, and for this server.
THEOREM TrustSafe == TlsSpec => TrustedWhenTold
<1>1. TlsInv /\ [TlsNext]_tlsVars
        => [toldConnected' /\ ~toldConnected =>
              /\ phase' = "open"
              /\ \/ ~verifying
                 \/ allowedAll
                 \/ errors \subseteq allowedList
                 \/ ignoreSelfSigned /\ errors \subseteq SelfSigned]_tlsVars
  BY TellingStep, AcceptedWasAllowed
<1>2. QED
  BY <1>1, TlsInvariant, PTL DEF TlsSpec, TrustedWhenTold

-----------------------------------------------------------------------------
(* The composition: each behaviour is of one part, and the others stay as they *)
(* began.                                                                      *)

SettingsOf == IF part = "settings" THEN SettingsInv ELSE ParamsInv

PartsInv ==
    /\ RouterTypeOK
    /\ MessageInv /\ FieldsFit
    /\ SettingsOf
    /\ EndpointInv
    /\ TlsInv

LEMMA PartsInitInv == PartsInit => PartsInv
<1> SUFFICES ASSUME PartsInit PROVE PartsInv
  OBVIOUS
<1>1. RouterTypeOK
  BY RouterTypeInit DEF PartsInit
<1>2. MessageInv /\ FieldsFit
  BY MessageInitInv, FieldsFitInit DEF PartsInit
<1>3. SettingsOf
  <2>1. ParamsInv
    BY ParamsInitInv DEF PartsInit
  <2>2. SettingsInv
    BY SettingsInit DEF PartsInit, ParamsInit
  <2>3. QED
    BY <2>1, <2>2 DEF SettingsOf
<1>4. EndpointInv
  BY EndpointInitInv DEF PartsInit
<1>5. TlsInv
  BY TlsInitInv DEF PartsInit
<1>6. QED
  BY <1>1, <1>2, <1>3, <1>4, <1>5 DEF PartsInv

LEMMA PartsStepInv == PartsInv /\ [PartsNext]_partsVars => PartsInv'
<1> SUFFICES ASSUME PartsInv, [PartsNext]_partsVars PROVE PartsInv'
  OBVIOUS
<1>1. part' = part
  BY DEF PartsNext, partsVars
<1>2. [RouterNext]_routerVars
  BY DEF PartsNext, partsVars
<1>3. [MessageNext]_messageVars
  BY DEF PartsNext, partsVars
<1>4. [EndpointNext]_endpointVars
  BY DEF PartsNext, partsVars
<1>5. [TlsNext]_tlsVars
  BY DEF PartsNext, partsVars
<1>6. SettingsOf'
  <2>1. CASE part = "settings"
    <3>1. [ConnectNext]_settings
      BY <2>1 DEF PartsNext, partsVars
    <3>2. QED
      BY <1>1, <2>1, <3>1, SettingsStep DEF PartsInv, SettingsOf
  <2>2. CASE part # "settings"
    <3>1. [ParamsNext]_paramsVars
      BY <2>2 DEF PartsNext, partsVars, formVars, paramsVars, mgrVars
    <3>2. QED
      BY <1>1, <2>2, <3>1, ParamsStepInv DEF PartsInv, SettingsOf
  <2>3. QED
    BY <2>1, <2>2
<1>7. RouterTypeOK'
  BY <1>2, RouterTypeStep DEF PartsInv
<1>8. MessageInv' /\ FieldsFit'
  BY <1>3, MessageStep, FieldsFitStep DEF PartsInv
<1>9. EndpointInv'
  BY <1>4, EndpointStepInv DEF PartsInv
<1>10. TlsInv'
  BY <1>5, TlsStepInv DEF PartsInv
<1>11. QED
  BY <1>6, <1>7, <1>8, <1>9, <1>10 DEF PartsInv

\* Whichever part moves, every variable of every part stays in its range, and every
\* MessagePrivate counts the messages that point to it.
THEOREM PartsTypeCorrect == PartsSpec => []PartsTypeOK
<1>1. PartsInv => PartsTypeOK
  <2> SUFFICES ASSUME PartsInv PROVE PartsTypeOK
    OBVIOUS
  <2>1. RouterTypeOK /\ EndpointTypeOK /\ TlsTypeOK
    BY DEF PartsInv, EndpointInv, TlsInv
  <2>2. MessageTypeOK /\ CountsAreExact
    BY TypesFollow DEF PartsInv, MessageInv
  <2>3. IF part = "settings" THEN ConnectTypeOK ELSE ParamsTypeOK
    BY DEF PartsInv, SettingsOf, SettingsInv, ParamsInv
  <2>4. QED
    BY <2>1, <2>2, <2>3 DEF PartsTypeOK
<1>2. QED
  BY <1>1, PartsInitInv, PartsStepInv, PTL DEF PartsSpec
=============================================================================
