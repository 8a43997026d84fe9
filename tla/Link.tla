-------------------------------- MODULE Link --------------------------------
(***************************************************************************)
(* What the client promises of a connection, in the order an application   *)
(* may rely on: the connection opens and CONNECT is on its way (greeting), *)
(* connected() is emitted (up), the client hangs up (leaving), and it is   *)
(* gone (down).  connected() is emitted at most once per connection, and a *)
(* connection that is being left never comes back up.                      *)
(***************************************************************************)
VARIABLE phase

Init == phase = "down"

\* A close that waited for the attempt skips the greeting.
Open == phase = "down" /\ phase' \in {"greeting", "leaving"}

Accepted == phase = "greeting" /\ phase' = "up"

HangUp == phase \in {"greeting", "up"} /\ phase' = "leaving"

Gone == phase \in {"greeting", "up", "leaving"} /\ phase' = "down"

Next == Open \/ Accepted \/ HangUp \/ Gone

Spec == Init /\ [][Next]_phase
=============================================================================
