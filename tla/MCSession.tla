------------------------------ MODULE MCSession ------------------------------
(* The instances of Session that TLC checks: a message of the application for *)
(* every QoS, and messages of the broker whose exchanges outlast connections. *)
EXTENDS Session

MCMessages == {"m0", "m1", "m2"}
MCQos == [m \in MCMessages |-> CASE m = "m0" -> 0 [] m = "m1" -> 1 [] m = "m2" -> 2]
MCTwoQos2 == [m \in MCMessages |-> IF m = "m0" THEN 0 ELSE 2]
MCTopics == {"t"}
MCInbound == {"i2"}
MCInQos == [i \in MCInbound |-> 2]
MCBoth == {"i1", "i2"}
MCBothQos == [i \in MCBoth |-> IF i = "i1" THEN 1 ELSE 2]
MCClean == {TRUE}
MCKept == {FALSE}
=============================================================================
