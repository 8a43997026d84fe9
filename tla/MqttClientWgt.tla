--------------------------- MODULE MqttClientWgt ---------------------------
(***************************************************************************)
(* The demo's window (mqttclientwgt.cpp) over the connection manager: its  *)
(* buttons and the status they show, the entries that go into a request,   *)
(* the inbox topics it makes of an account (mqtttopicbuilder.cpp), and the *)
(* choice of the language.                                                 *)
(*                                                                         *)
(* The window's slots run inside the manager's signals, so an event here   *)
(* is an action of MqttClientMgr joined with what the window does in it;   *)
(* the user reaches the manager through enabled buttons only.  A new       *)
(* language reaches the window by an event that is posted: anything may    *)
(* happen between the choice and the repainting.  The log is left out, and *)
(* with it the clicks that only write to it.                               *)
(***************************************************************************)
EXTENDS MqttClientMgr

CONSTANTS
    Accounts,       \* texts of an account, trimmed
    UnfitAccounts,  \* those with a level separator, a wildcard or a null in them
    KeepAlives      \* the keep-alive entry: its number, -1 if it is none

VARIABLES
    shown,          \* the connection state shown: Disconnect is enabled, Connect is not
    account,        \* selfImAccidLet
    keepAlive,      \* keepAliveLet
    box,            \* langCbx: its current index
    translator,     \* index of the language whose texts tr() gives
    texts,          \* index of the language on display
    languageChange  \* is a QEvent::LanguageChange posted to the window?

languageVars == <<box, translator, texts, languageChange>>
entryVars == <<account, keepAlive>>
wgtVars == <<shown, entryVars, languageVars>>
windowVars == <<allVars, wgtVars>>

\* The number in the .ui file, which is a text to translate as any other.
DesignedKeepAlive == 30

-----------------------------------------------------------------------------
(* MqttTopicBuilder. *)

IsAccountIdValid(a) == a \in Accounts \ (UnfitAccounts \cup {""})

\* The levels of the topic; none for an account that is not valid.
InboxTopic(a) == IF IsAccountIdValid(a) THEN <<"user", a, "inbox">> ELSE <<>>

ASSUME WindowAssumption ==
    /\ DesignedKeepAlive \in KeepAlives
    /\ "" \in Accounts
    /\ Topics = {InboxTopic(a) : a \in Accounts} \ {<<>>}

-----------------------------------------------------------------------------
WindowInit ==
    /\ MgrInit
    /\ shown = FALSE
    /\ account = ""
    /\ keepAlive = DesignedKeepAlive
    /\ box = 0 /\ translator = 0 /\ texts = 0
    /\ languageChange = FALSE

-----------------------------------------------------------------------------
(* The user. *)

\* isConnectionParamsValid(), of what the modelled entries can be.
EntriesAreValid == keepAlive \in 0 .. 65535

\* on_connectBtn_clicked(): the inbox of the account is subscribed with the
\* connection.  Parameters that are refused change nothing.
ConnectClicked ==
    /\ ~shown
    /\ EntriesAreValid
    /\ \E clean \in BOOLEAN, q \in Qos :
          MgrConnectToHost([t \in Topics |-> IF t = InboxTopic(account) THEN q ELSE None], clean)
    /\ UNCHANGED wgtVars

\* on_disconnectBtn_clicked()
DisconnectClicked ==
    /\ shown
    /\ MgrDisconnectFromHost
    /\ UNCHANGED wgtVars

\* on_subscribeBtn_clicked(), on_unsubscribeBtn_clicked(): of the account that is
\* entered now.
SubscribeClicked ==
    /\ IsAccountIdValid(account)
    /\ \E q \in Qos : Subscribe(InboxTopic(account), q)
    /\ UNCHANGED wgtVars

UnsubscribeClicked ==
    /\ IsAccountIdValid(account)
    /\ Unsubscribe(InboxTopic(account))
    /\ UNCHANGED wgtVars

\* on_publishBtn_clicked(), with a target account and a payload.
PublishClicked ==
    /\ Publish
    /\ UNCHANGED wgtVars

\* The user types.
Edit ==
    /\ InEventLoop
    /\ \/ account' \in Accounts \ {account} /\ UNCHANGED keepAlive
       \/ keepAlive' \in KeepAlives \ {keepAlive} /\ UNCHANGED account
    /\ UNCHANGED <<allVars, shown, languageVars>>

\* Mutation: a translation that does not load leaves the box as the user set it.
LanguageChosenKeepsBox(index, loads) ==
    /\ InEventLoop
    /\ index # box
    /\ box' = index
    /\ translator' = IF index = 1 /\ loads THEN 1 ELSE 0
    /\ languageChange' = (languageChange \/ translator # translator')
    /\ UNCHANGED <<allVars, shown, entryVars, texts>>

\* on_langCbx_currentIndexChanged(): the translator is removed, and installed again
\* if its file loads; if not, the box goes back to English.
LanguageChosen(index, loads) ==
    /\ InEventLoop
    /\ index # box
    /\ box' = IF index = 1 /\ loads THEN 1 ELSE 0
    /\ translator' = box'
    /\ languageChange' = (languageChange \/ translator # translator')
    /\ UNCHANGED <<allVars, shown, entryVars, texts>>

-----------------------------------------------------------------------------
(* Events of the window and signals of the manager. *)

\* Mutation: applyTranslations() leaves the connection state to retranslateUi(),
\* which shows the text of the .ui file.
LanguageChangeShowsDesign ==
    /\ InEventLoop
    /\ languageChange
    /\ languageChange' = FALSE
    /\ texts' = translator
    /\ keepAlive' = DesignedKeepAlive
    /\ shown' = FALSE
    /\ UNCHANGED <<allVars, account, box, translator>>

\* changeEvent(): applyTranslations() sets every text the .ui file has again, the
\* one of the keep-alive entry too, and shows the connection state of this moment.
LanguageChange ==
    /\ InEventLoop
    /\ languageChange
    /\ languageChange' = FALSE
    /\ texts' = translator
    /\ keepAlive' = DesignedKeepAlive
    /\ shown' = IsConnected
    /\ UNCHANGED <<allVars, account, box, translator>>

\* slot_onConnected()
Connected ==
    /\ MgrAccepted
    /\ shown' = TRUE
    /\ UNCHANGED <<entryVars, languageVars>>

\* Mutation: only a connection that is lost is shown as gone.
ConnectionEndsUnseen ==
    /\ \/ MgrConnectionLost /\ shown' = FALSE
       \/ MgrFrameLeaves /\ UNCHANGED shown
    /\ UNCHANGED <<entryVars, languageVars>>

\* slot_onDisconnected(), if the event ends the connection.
ConnectionEnds ==
    /\ MgrConnectionLost \/ MgrFrameLeaves
    /\ shown' = (shown /\ sock' # "Unconnected")
    /\ UNCHANGED <<entryVars, languageVars>>

\* The signals that are only logged, and the events without a signal.
LoggedOnly ==
    /\ ReconnectFires \/ MgrRejected \/ MgrAttemptFails \/ ForwardedOnly
    /\ UNCHANGED wgtVars

WindowUser ==
    \/ ConnectClicked
    \/ DisconnectClicked
    \/ SubscribeClicked
    \/ UnsubscribeClicked
    \/ PublishClicked
    \/ Edit
    \/ \E index \in {0, 1}, loads \in BOOLEAN : LanguageChosen(index, loads)

WindowNext ==
    \/ WindowUser
    \/ LanguageChange
    \/ Connected
    \/ ConnectionEnds
    \/ LoggedOnly

WindowSpec == WindowInit /\ [][WindowNext]_windowVars

\* As in MqttClientMgr: the event loop runs what is due, attempts end, a broker that
\* took a CONNECT answers, TCP gives a silent path up.  Nothing is assumed of the
\* user, nor of when the posted event arrives.
WindowFairSpec ==
    /\ WindowSpec
    /\ WF_windowVars(ReconnectFires /\ UNCHANGED wgtVars)
    /\ WF_windowVars(((SocketConnects /\ UNCHANGED mgrVars) \/ MgrAttemptFails) /\ UNCHANGED wgtVars)
    /\ WF_windowVars(MgrFrameLeaves /\ ConnectionEnds)
    /\ WF_windowVars(ReadReady /\ UNCHANGED <<mgrVars, wgtVars>>)
    /\ WF_windowVars(batch # <<>> /\ (Connected \/ LoggedOnly))
    /\ WF_windowVars(LoggedOnly /\ broker = "greeted" /\ broker' \in {"serving", "refusing"})
    /\ WF_windowVars(broker \in {"silent", "refusing"} /\ MgrConnectionLost /\ ConnectionEnds)

-----------------------------------------------------------------------------
(* Properties. *)

\* Every variable stays in its range; the box tells the language in use, also after
\* a translation did not load (English again, plan.md:104), and texts of another
\* language are on display only while the event is on its way.
WindowTypeOK ==
    /\ MgrTypeOK
    /\ shown \in BOOLEAN
    /\ account \in Accounts
    /\ keepAlive \in KeepAlives
    /\ box \in {0, 1} /\ translator \in {0, 1} /\ texts \in {0, 1}
    /\ languageChange \in BOOLEAN
    /\ translator = box
    /\ texts # translator => languageChange

\* The window never says "Disconnected" of a session that is up, and "Connected"
\* only while there is a connection, if one that is closing: whenever the language
\* changes, and although a client that is replaced announces nothing any more.
ShownAsItIs ==
    /\ IsConnected => shown
    /\ shown => sock \in {"Connected", "Closing"}

\* The connection the user hangs up, or that is hung up for an error, is shown as
\* gone in the end; Connect is enabled again.
ShownInTheEnd == (shown /\ ~IsConnected) ~> ~shown
=============================================================================
