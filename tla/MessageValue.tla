---------------------------- MODULE MessageValue ----------------------------
(* What QMQTT::Message promises: a message is a value.  Copies are taken in   *)
(* full, changing one changes no other, and two are equal when their fields   *)
(* are.                                                                       *)
EXTENDS Integers

CONSTANTS
    Handles,    \* the Message objects that may be alive at once
    Args,       \* for each field, the values its setter is called with
    Given,      \* the messages that are constructed with fields
    None        \* an empty text

VARIABLES
    value,      \* what each message says; nothing, where there is no object
    answer      \* what the last comparison said

vars == <<value, answer>>

Default == [id |-> 0, qos |-> 0, retain |-> FALSE, dup |-> FALSE, topic |-> None,
            payload |-> None]

\* A QoS is two bits wide, whatever a setter or a constructor is called with.
Kept(f, v) == IF f = "qos" THEN v % 4 ELSE v
AllKept(m) == [f \in DOMAIN m |-> Kept(f, m[f])]

\* A message with one field set anew.
WithField(m, f, v) == [m EXCEPT ![f] = Kept(f, v)]

Alive(h) == value[h] # {}

Init == value = [h \in Handles |-> {}] /\ answer = FALSE

Begin(h, m) ==
    /\ ~Alive(h)
    /\ value' = [value EXCEPT ![h] = {m}]
    /\ UNCHANGED answer

Assign(h, g) ==
    /\ Alive(h) /\ Alive(g)
    /\ value' = [value EXCEPT ![h] = value[g]]
    /\ UNCHANGED answer

Swap(h, g) ==
    /\ Alive(h) /\ Alive(g)
    /\ value' = [value EXCEPT ![h] = value[g], ![g] = value[h]]
    /\ UNCHANGED answer

Change(h, f, v) ==
    /\ Alive(h)
    /\ value' = [value EXCEPT ![h] = {WithField(m, f, v) : m \in @}]
    /\ UNCHANGED answer

End(h) ==
    /\ Alive(h)
    /\ value' = [value EXCEPT ![h] = {}]
    /\ UNCHANGED answer

Compare(h, g) ==
    /\ Alive(h) /\ Alive(g)
    /\ answer' = (value[h] = value[g])
    /\ UNCHANGED value

Next ==
    \E h \in Handles :
        \/ Begin(h, Default)
        \/ \E m \in Given : Begin(h, AllKept(m))
        \/ \E g \in Handles :
            \/ \E m \in value[g] : Begin(h, m)
            \/ Assign(h, g) \/ Swap(h, g) \/ Compare(h, g)
        \/ \E f \in DOMAIN Default : \E v \in Args[f] : Change(h, f, v)
        \/ End(h)

Spec == Init /\ [][Next]_vars
=============================================================================
