------------------------------ MODULE Delivery ------------------------------
(***************************************************************************)
(* What a session promises of messages, whatever is lost on the way: a     *)
(* message of the application is taken by the broker at most once, it is   *)
(* confirmed at most once and only after the broker took it, and a message *)
(* of the broker is handed to the application at most once.                *)
(***************************************************************************)
EXTENDS Naturals

CONSTANTS
    Messages,   \* what the application publishes
    Inbound     \* what the broker publishes to it

VARIABLES
    taken,      \* how often the broker took each message
    confirmed,  \* the messages the application was told about
    received    \* how often the application received each message

vars == <<taken, confirmed, received>>

Init ==
    /\ taken = [m \in Messages |-> 0]
    /\ confirmed = {}
    /\ received = [i \in Inbound |-> 0]

Take(m) ==
    /\ taken[m] = 0
    /\ taken' = [taken EXCEPT ![m] = 1]
    /\ UNCHANGED <<confirmed, received>>

Confirm(m) ==
    /\ m \notin confirmed
    /\ taken[m] = 1
    /\ confirmed' = confirmed \cup {m}
    /\ UNCHANGED <<taken, received>>

Receive(i) ==
    /\ received[i] = 0
    /\ received' = [received EXCEPT ![i] = 1]
    /\ UNCHANGED <<taken, confirmed>>

Next ==
    \/ \E m \in Messages : Take(m) \/ Confirm(m)
    \/ \E i \in Inbound : Receive(i)

Spec == Init /\ [][Next]_vars
=============================================================================
