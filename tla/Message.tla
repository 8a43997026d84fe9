------------------------------ MODULE Message ------------------------------
(***************************************************************************)
(* QMQTT::Message (qmqtt_message.cpp, qmqtt_message_p.h): a message is a   *)
(* pointer to a MessagePrivate with a reference count, which copies share  *)
(* until one of them is changed.  The objects are the application's        *)
(* variables, the entries of ClientPrivate::_midToMessage that wait for    *)
(* acknowledgements, and the members of RoutedMessages.                    *)
(*                                                                         *)
(* QSharedDataPointer is Qt's: its copies count, its non-const access      *)
(* detaches, and it deletes what nobody points to any more.                *)
(***************************************************************************)
EXTENDS Integers, FiniteSets

CONSTANTS
    Handles,    \* the Message objects that may be alive at once
    Cells,      \* the memory for MessagePrivates
    Args,       \* for each field, the values its setter is called with
    Given,      \* the messages that are constructed with fields
    None        \* no object; an empty text

Fields == {"id", "qos", "retain", "dup", "topic", "payload"}

ASSUME MessageAssumption ==
    /\ DOMAIN Args = Fields
    /\ \A m \in Given : DOMAIN m = Fields
    /\ Args["qos"] \subseteq Nat /\ Args["retain"] \cup Args["dup"] \subseteq BOOLEAN
    /\ \A m \in Given : m.qos \in Nat /\ m.retain \in BOOLEAN /\ m.dup \in BOOLEAN
    /\ None \notin Cells
    /\ IsFiniteSet(Handles)

VARIABLES
    d,          \* Message::d of each object
    cell,       \* the MessagePrivates
    ref,        \* QSharedData::ref of each; 0 for memory that is free
    answer      \* what the last comparison returned

messageVars == <<d, cell, ref, answer>>

\* The fields and no more than their bits, and no pointer to freed memory: what a
\* message points to is counted.
MessageTypeOK ==
    /\ d \in [Handles -> Cells \cup {None}]
    /\ DOMAIN cell = Cells
    /\ \A c \in Cells :
        /\ DOMAIN cell[c] = Fields
        /\ cell[c].qos \in 0 .. 3
        /\ cell[c].retain \in BOOLEAN /\ cell[c].dup \in BOOLEAN
    /\ ref \in [Cells -> 0 .. Cardinality(Handles)]
    /\ \A h \in Handles : d[h] # None => ref[d[h]] > 0
    /\ answer \in BOOLEAN

\* What a bit field keeps of what is assigned to it.
Kept(f, v) == IF f = "qos" THEN v % 4 ELSE v

\* MessagePrivate's constructors: without fields, and with all of them.
MessagePrivate == [id |-> 0, qos |-> 0, retain |-> FALSE, dup |-> FALSE, topic |-> None,
                   payload |-> None]
MessagePrivateOf(m) == [f \in Fields |-> Kept(f, m[f])]

\* A message with one field set anew.
WithField(m, f, v) == [m EXCEPT ![f] = Kept(f, v)]

\* Its copy constructor, which detaching calls.
CopyOf(m) == [f \in Fields |-> m[f]]

-----------------------------------------------------------------------------
(* QSharedDataPointer. *)

Alive(h) == d[h] # None
Free(c) == ref[c] = 0

\* d is made to point to new memory.
PointsToNew(h, c, m) ==
    /\ Free(c)
    /\ d' = [d EXCEPT ![h] = c]
    /\ cell' = [cell EXCEPT ![c] = m]

\* d is made to point to what another points to.
PointsTo(h, c) == d' = [d EXCEPT ![h] = c]

\* What nobody points to any more is deleted.
DeleteUnused == cell' = [c \in Cells |-> IF ref'[c] = 0 THEN MessagePrivate ELSE cell[c]]

\* The counts after one pointer less to b and one more to another, c.
Moved(b, c) == [ref EXCEPT ![b] = @ - 1, ![c] = @ + 1]

-----------------------------------------------------------------------------
(* The operations. *)

MessageInit ==
    /\ d = [h \in Handles |-> None]
    /\ cell = [c \in Cells |-> MessagePrivate]
    /\ ref = [c \in Cells |-> 0]
    /\ answer = FALSE

\* Message(), and Message(id, topic, payload, qos, retain, dup).
Construct(h, m) ==
    /\ ~Alive(h)
    /\ \E c \in Cells : PointsToNew(h, c, m) /\ ref' = [ref EXCEPT ![c] = 1]
    /\ UNCHANGED answer

\* Message(const Message &).
CopyConstruct(h, g) ==
    /\ ~Alive(h) /\ Alive(g)
    /\ PointsTo(h, d[g])
    /\ ref' = [ref EXCEPT ![d[g]] = @ + 1]
    /\ UNCHANGED <<cell, answer>>

\* operator=(const Message &).
Assign(h, g) ==
    /\ Alive(h) /\ Alive(g)
    /\ PointsTo(h, d[g])
    /\ ref' = IF d[h] = d[g] THEN ref ELSE Moved(d[h], d[g])
    /\ DeleteUnused
    /\ UNCHANGED answer

\* Mutation: the pointer is taken and not given back.
MoveAssignTakes(h, g) ==
    /\ Alive(h) /\ Alive(g)
    /\ PointsTo(h, d[g])
    /\ UNCHANGED <<cell, ref, answer>>

\* swap(), and operator=(Message &&), which is the same.
MoveAssign(h, g) ==
    /\ Alive(h) /\ Alive(g)
    /\ d' = [d EXCEPT ![h] = d[g], ![g] = d[h]]
    /\ UNCHANGED <<cell, ref, answer>>

\* ~Message().
Destroy(h) ==
    /\ Alive(h)
    /\ d' = [d EXCEPT ![h] = None]
    /\ ref' = [ref EXCEPT ![d[h]] = @ - 1]
    /\ DeleteUnused
    /\ UNCHANGED answer

\* Mutation: a setter writes through the pointer it shares.
SetFieldShared(h, f, v) ==
    /\ Alive(h)
    /\ cell' = [cell EXCEPT ![d[h]] = WithField(@, f, v)]
    /\ UNCHANGED <<d, ref, answer>>

\* setId(), setQos(), setRetain(), setDup(), setTopic(), setPayload(): a copy is
\* made first if another object has the same.
SetField(h, f, v) ==
    /\ Alive(h)
    /\ \/ /\ ref[d[h]] = 1
          /\ cell' = [cell EXCEPT ![d[h]] = WithField(@, f, v)]
          /\ UNCHANGED <<d, ref>>
       \/ /\ ref[d[h]] # 1
          /\ \E c \in Cells :
                /\ PointsToNew(h, c, WithField(CopyOf(cell[d[h]]), f, v))
                /\ ref' = Moved(d[h], c)
    /\ UNCHANGED answer

\* operator==: the same memory, or the same fields.
Equals(h, g) ==
    \/ d[h] = d[g]
    \/ \A f \in Fields : cell[d[h]][f] = cell[d[g]][f]

Compare(h, g) ==
    /\ Alive(h) /\ Alive(g)
    /\ answer' = Equals(h, g)
    /\ UNCHANGED <<d, cell, ref>>

MessageNext ==
    \E h \in Handles :
        \/ Construct(h, MessagePrivate)
        \/ \E m \in Given : Construct(h, MessagePrivateOf(m))
        \/ \E g \in Handles :
            CopyConstruct(h, g) \/ Assign(h, g) \/ MoveAssign(h, g) \/ Compare(h, g)
        \/ \E f \in Fields : \E v \in Args[f] : SetField(h, f, v)
        \/ Destroy(h)

MessageSpec == MessageInit /\ [][MessageNext]_messageVars

-----------------------------------------------------------------------------
(* Properties. *)

\* A MessagePrivate counts the messages that point to it, no more, so that it is
\* deleted with the last of them, and no fewer, so that it is not deleted before.
CountsAreExact == \A c \in Cells : ref[c] = Cardinality({h \in Handles : d[h] = c})

\* Shared memory is not seen: every message behaves as a value of its own, so that
\* what published() passes on is what publish() was called with, whatever the
\* application does to its message in between.
Value == INSTANCE MessageValue WITH
            value <- [h \in Handles |-> {cell[c] : c \in {d[h]} \ {None}}]
ImplementsValues == Value!Spec
=============================================================================
