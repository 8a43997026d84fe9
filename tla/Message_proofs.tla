--------------------------- MODULE Message_proofs ---------------------------
(***************************************************************************)
(* Proofs about module Message, for any number of messages and any fields: *)
(* the reference counts are exact, and so sharing is not seen.             *)
(***************************************************************************)
EXTENDS Message, FiniteSetTheorems, TLAPS

\* The messages that D makes point to c.
Pointers(D, c) == {h \in Handles : D[h] = c}

-----------------------------------------------------------------------------
(* Counting pointers. *)

LEMMA PointersFinite ==
    ASSUME NEW D, NEW c
    PROVE  IsFiniteSet(Pointers(D, c)) /\ Cardinality(Pointers(D, c)) \in Nat
<1>1. Pointers(D, c) \subseteq Handles
  BY DEF Pointers
<1>2. IsFiniteSet(Pointers(D, c))
  BY <1>1, FS_Subset, MessageAssumption
<1>3. QED
  BY <1>2, FS_CardinalityType

\* Memory that counts no pointer has none.
LEMMA NoPointers ==
    ASSUME NEW D, NEW c, Cardinality(Pointers(D, c)) = 0, NEW h \in Handles
    PROVE  D[h] # c
<1>1. Pointers(D, c) = {}
  BY PointersFinite, FS_EmptySet
<1>2. QED
  BY <1>1 DEF Pointers

\* Memory that has a pointer counts it.
LEMMA SomePointers ==
    ASSUME NEW D, NEW c, NEW h \in Handles, D[h] = c
    PROVE  Cardinality(Pointers(D, c)) # 0
<1>1. h \in Pointers(D, c)
  BY DEF Pointers
<1>2. QED
  BY <1>1, PointersFinite, FS_EmptySet

\* Memory that counts one pointer has no other.
LEMMA OnePointer ==
    ASSUME NEW D, NEW c, Cardinality(Pointers(D, c)) = 1,
           NEW h \in Handles, D[h] = c, NEW g \in Handles, D[g] = c
    PROVE  g = h
<1>1. PICK x : Pointers(D, c) = {x}
  BY PointersFinite, FS_Singleton
<1>2. g \in Pointers(D, c) /\ h \in Pointers(D, c)
  BY DEF Pointers
<1>3. QED
  BY <1>1, <1>2

\* D with the pointer of h turned to x.
Turned(D, h, x) == [D EXCEPT ![h] = x]

\* That is one pointer more to x and one less to where it was.
LEMMA Repointed ==
    ASSUME NEW D \in [Handles -> Cells \cup {None}], NEW h \in Handles,
           NEW x \in Cells \cup {None}, D[h] # x, NEW c
    PROVE  /\ c = x =>
                Cardinality(Pointers(Turned(D, h, x), c)) = Cardinality(Pointers(D, c)) + 1
           /\ c = D[h] =>
                Cardinality(Pointers(Turned(D, h, x), c)) = Cardinality(Pointers(D, c)) - 1
           /\ c # x /\ c # D[h] =>
                Cardinality(Pointers(Turned(D, h, x), c)) = Cardinality(Pointers(D, c))
<1> DEFINE E == Turned(D, h, x)
<1>1. CASE c = x
  <2>1. h \notin Pointers(D, c)
    BY <1>1 DEF Pointers
  <2>2. Pointers(E, c) = Pointers(D, c) \cup {h}
    BY <1>1 DEF Pointers, Turned
  <2>3. Cardinality(Pointers(E, c)) = Cardinality(Pointers(D, c)) + 1
    BY <2>1, <2>2, PointersFinite, FS_AddElement
  <2>4. QED
    BY <1>1, <2>3
<1>2. CASE c = D[h] /\ c # x
  <2>1. h \in Pointers(D, c)
    BY <1>2 DEF Pointers
  <2>2. Pointers(E, c) = Pointers(D, c) \ {h}
    BY <1>2 DEF Pointers, Turned
  <2>3. Cardinality(Pointers(E, c)) = Cardinality(Pointers(D, c)) - 1
    BY <2>1, <2>2, PointersFinite, FS_RemoveElement
  <2>4. QED
    BY <1>2, <2>3
<1>3. CASE c # D[h] /\ c # x
  <2>1. Pointers(E, c) = Pointers(D, c)
    BY <1>3 DEF Pointers, Turned
  <2>2. QED
    BY <1>3, <2>1
<1>4. QED
  BY <1>1, <1>2, <1>3

-----------------------------------------------------------------------------
(* The invariant. *)

\* A message is its fields.
IsMessage(m) == m = [f \in Fields |-> m[f]]

MemoryFormed ==
    /\ d \in [Handles -> Cells \cup {None}]
    /\ cell = [c \in Cells |-> cell[c]]
    /\ \A c \in Cells : IsMessage(cell[c])
    /\ ref \in [Cells -> Nat]

MessageInv == MemoryFormed /\ CountsAreExact

\* What the constructors and setters make are messages.
LEMMA PrivateIsMessage == IsMessage(MessagePrivate)
  BY DEF IsMessage, MessagePrivate, Fields

LEMMA GivenAreMessages == ASSUME NEW m PROVE IsMessage(MessagePrivateOf(m))
  BY DEF IsMessage, MessagePrivateOf

LEMMA SetIsMessage ==
    ASSUME NEW m, IsMessage(m), NEW f, NEW v
    PROVE  IsMessage(WithField(m, f, v))
  BY DEF IsMessage, WithField

\* A copy of a message is equal to it, and so are messages with the same fields.
LEMMA CopyIsSame == ASSUME NEW m, IsMessage(m) PROVE CopyOf(m) = m
  BY DEF IsMessage, CopyOf

LEMMA EqualFields ==
    ASSUME NEW m, NEW n, IsMessage(m), IsMessage(n), \A f \in Fields : m[f] = n[f]
    PROVE  m = n
  BY DEF IsMessage

-----------------------------------------------------------------------------
(* What every operation does to pointers and counts. *)

\* The counts after h is turned from where it points to x.
Recounted(h, x) ==
    [c \in Cells |-> CASE c = x    -> ref[c] + 1
                       [] c = d[h] -> ref[c] - 1
                       [] OTHER    -> ref[c]]

LEMMA PointersFollow ==
    ASSUME MessageInv, NEW h \in Handles, NEW x \in Cells \cup {None}, d[h] # x,
           d' = Turned(d, h, x), NEW c \in Cells
    PROVE  /\ c = x => Cardinality(Pointers(d', c)) = Cardinality(Pointers(d, c)) + 1
           /\ c = d[h] => Cardinality(Pointers(d', c)) = Cardinality(Pointers(d, c)) - 1
           /\ c # x /\ c # d[h] => Cardinality(Pointers(d', c)) = Cardinality(Pointers(d, c))
<1>1. d \in [Handles -> Cells \cup {None}]
  BY DEF MessageInv, MemoryFormed
<1>2. QED
  BY <1>1, Repointed, ZenonT(30)

\* Counts that follow a pointer stay exact.
LEMMA CountsFollow ==
    ASSUME MessageInv, NEW h \in Handles, NEW x \in Cells \cup {None}, d[h] # x,
           d' = Turned(d, h, x), ref' = Recounted(h, x)
    PROVE  d' \in [Handles -> Cells \cup {None}] /\ ref' \in [Cells -> Nat] /\ CountsAreExact'
<1>1. d \in [Handles -> Cells \cup {None}]
  BY DEF MessageInv, MemoryFormed
<1>2. d' \in [Handles -> Cells \cup {None}]
  BY <1>1 DEF Turned
<1>3. \A c \in Cells : ref[c] = Cardinality(Pointers(d, c))
  BY DEF MessageInv, CountsAreExact, Pointers
<1>4. ASSUME NEW c \in Cells
      PROVE  ref'[c] = Cardinality(Pointers(d', c))
  <2>1. ref'[c] = CASE c = x    -> ref[c] + 1
                    [] c = d[h] -> ref[c] - 1
                    [] OTHER    -> ref[c]
    BY DEF Recounted
  <2>2. /\ c = x => Cardinality(Pointers(d', c)) = Cardinality(Pointers(d, c)) + 1
        /\ c = d[h] => Cardinality(Pointers(d', c)) = Cardinality(Pointers(d, c)) - 1
        /\ c # x /\ c # d[h] => Cardinality(Pointers(d', c)) = Cardinality(Pointers(d, c))
    BY PointersFollow
  <2>3. QED
    BY <1>3, <2>1, <2>2
<1>5. \A c \in Cells : ref'[c] \in Nat
  BY <1>4, PointersFinite
<1>6. ref' \in [Cells -> Nat]
  BY <1>5 DEF Recounted
<1>7. CountsAreExact'
  BY <1>4 DEF CountsAreExact, Pointers
<1>8. QED
  BY <1>2, <1>6, <1>7

\* What a message has is in use, and what is in use has a message.
LEMMA InUse ==
    ASSUME MessageInv, NEW h \in Handles, Alive(h)
    PROVE  d[h] \in Cells /\ ref[d[h]] \in Nat \ {0}
<1>1. d[h] \in Cells
  BY DEF MessageInv, MemoryFormed, Alive
<1>2. ref[d[h]] = Cardinality(Pointers(d, d[h]))
  BY <1>1 DEF MessageInv, CountsAreExact, Pointers
<1>3. QED
  BY <1>1, <1>2, SomePointers DEF MessageInv, MemoryFormed

LEMMA FreeIsUnused ==
    ASSUME MessageInv, NEW c \in Cells, Free(c), NEW h \in Handles
    PROVE  d[h] # c
<1>1. Cardinality(Pointers(d, c)) = 0
  BY DEF MessageInv, CountsAreExact, Pointers, Free
<1>2. QED
  BY <1>1, NoPointers

\* Deleting what is not used leaves every message as it was.
LEMMA DeletedIsUnused ==
    ASSUME MemoryFormed, CountsAreExact', DeleteUnused
    PROVE  /\ cell' = [c \in Cells |-> cell'[c]]
           /\ \A c \in Cells : IsMessage(cell'[c])
           /\ \A h \in Handles : d'[h] \in Cells => cell'[d'[h]] = cell[d'[h]]
<1>1. cell' = [c \in Cells |-> IF ref'[c] = 0 THEN MessagePrivate ELSE cell[c]]
  BY DEF DeleteUnused
<1>2. \A c \in Cells : IsMessage(cell'[c])
  <2>1. \A c \in Cells : IsMessage(cell[c])
    BY DEF MemoryFormed
  <2>2. QED
    BY <1>1, <2>1, PrivateIsMessage
<1>3. ASSUME NEW h \in Handles, d'[h] \in Cells
      PROVE  cell'[d'[h]] = cell[d'[h]]
  <2>1. ref'[d'[h]] = Cardinality(Pointers(d', d'[h]))
    BY <1>3 DEF CountsAreExact, Pointers
  <2>2. ref'[d'[h]] # 0
    BY <2>1, SomePointers
  <2>3. QED
    BY <1>1, <1>3, <2>2
<1>4. QED
  BY <1>1, <1>2, <1>3

-----------------------------------------------------------------------------
(* Each operation keeps the invariant, and is the one of MessageValue. *)

\* What h says.
ValueOf(h) == {cell[c] : c \in {d[h]} \ {None}}
ValueMap == [h \in Handles |-> ValueOf(h)]

LEMMA ValueAlive ==
    ASSUME NEW h
    PROVE  /\ Alive(h) => ValueOf(h) = {cell[d[h]]}
           /\ ~Alive(h) => ValueOf(h) = {}
  BY DEF Alive, ValueOf

\* A message whose pointer and memory are as they were says what it said.
LEMMA SameValue ==
    ASSUME MessageInv, NEW k \in Handles, d'[k] = None <=> d[k] = None,
           d[k] \in Cells => cell'[d'[k]] = cell[d[k]]
    PROVE  ValueOf(k)' = ValueOf(k)
<1>1. CASE d[k] = None
  BY <1>1 DEF ValueOf
<1>2. CASE d[k] # None
  <2>1. d[k] \in Cells
    BY <1>2 DEF MessageInv, MemoryFormed
  <2>2. ValueOf(k) = {cell[d[k]]} /\ ValueOf(k)' = {cell'[d'[k]]}
    BY <1>2 DEF ValueOf
  <2>3. QED
    BY <2>1, <2>2
<1>3. QED
  BY <1>1, <1>2

LEMMA ConstructStep ==
    ASSUME MessageInv, NEW h \in Handles, NEW m, IsMessage(m), Construct(h, m)
    PROVE  MessageInv' /\ Value!Begin(h, m)
<1>1. PICK c \in Cells : PointsToNew(h, c, m) /\ ref' = [ref EXCEPT ![c] = 1]
  BY DEF Construct
<1>2. /\ d' = [d EXCEPT ![h] = c] /\ cell' = [cell EXCEPT ![c] = m]
      /\ ref[c] = 0 /\ d[h] = None
  BY <1>1 DEF PointsToNew, Free, Construct, Alive
<1>3. /\ d \in [Handles -> Cells \cup {None}] /\ ref \in [Cells -> Nat]
      /\ cell = [b \in Cells |-> cell[b]] /\ \A b \in Cells : IsMessage(cell[b])
      /\ None \notin Cells
  BY MessageAssumption DEF MessageInv, MemoryFormed
<1>4. ref' = Recounted(h, c)
  <2>1. ref' = [b \in Cells |-> IF b = c THEN 1 ELSE ref[b]]
    BY <1>1, <1>3
  <2>2. \A b \in Cells : b # d[h]
    BY <1>2, <1>3
  <2>3. QED
    BY <1>2, <2>1, <2>2 DEF Recounted
<1>5. d' \in [Handles -> Cells \cup {None}] /\ ref' \in [Cells -> Nat] /\ CountsAreExact'
  <2>1. d' = Turned(d, h, c)
    BY <1>2 DEF Turned
  <2>2. c \in Cells \cup {None} /\ d[h] # c
    BY <1>2, <1>3
  <2>3. QED
    BY <1>4, <2>1, <2>2, CountsFollow
<1>6. cell' = [b \in Cells |-> cell'[b]] /\ \A b \in Cells : IsMessage(cell'[b])
  BY <1>2, <1>3
<1>7. MessageInv'
  BY <1>5, <1>6 DEF MessageInv, MemoryFormed, IsMessage
<1>8. ASSUME NEW k \in Handles
      PROVE  ValueOf(k)' = IF k = h THEN {m} ELSE ValueOf(k)
  <2>1. CASE k = h
    <3>1. d'[h] = c /\ cell'[c] = m /\ c # None
      BY <1>2, <1>3
    <3>2. QED
      BY <2>1, <3>1 DEF ValueOf
  <2>2. CASE k # h
    <3>1. d'[k] = d[k] /\ d[k] # c
      BY <1>1, <1>2, <1>3, <2>2, FreeIsUnused DEF PointsToNew
    <3>2. d[k] \in Cells => cell'[d[k]] = cell[d[k]]
      BY <1>2, <1>3, <3>1
    <3>3. QED
      BY <2>2, <3>1, <3>2, SameValue
  <2>3. QED
    BY <2>1, <2>2
<1>9. ValueMap' = [ValueMap EXCEPT ![h] = {m}]
  BY <1>8 DEF ValueMap
<1>10. ValueMap[h] = {} /\ UNCHANGED answer
  BY <1>2, ValueAlive DEF ValueMap, Alive, Construct
<1>11. QED
  BY <1>7, <1>9, <1>10 DEF Value!Begin, Value!Alive, ValueMap, ValueOf

LEMMA CopyConstructStep ==
    ASSUME MessageInv, NEW h \in Handles, NEW g \in Handles, CopyConstruct(h, g)
    PROVE  /\ MessageInv'
           /\ cell[d[g]] \in ValueMap[g] /\ Value!Begin(h, cell[d[g]])
<1>1. /\ d' = [d EXCEPT ![h] = d[g]] /\ ref' = [ref EXCEPT ![d[g]] = @ + 1]
      /\ cell' = cell /\ answer' = answer /\ d[h] = None /\ d[g] \in Cells
  BY InUse DEF CopyConstruct, PointsTo, Alive
<1>2. d \in [Handles -> Cells \cup {None}]
  BY DEF MessageInv, MemoryFormed
<1>3. ref \in [Cells -> Nat] /\ None \notin Cells
  BY MessageAssumption DEF MessageInv, MemoryFormed
<1>4. ref' = Recounted(h, d[g])
  <2>1. ref' = [b \in Cells |-> IF b = d[g] THEN ref[b] + 1 ELSE ref[b]]
    BY <1>1, <1>3
  <2>2. \A b \in Cells : b # d[h]
    BY <1>1, <1>3
  <2>3. QED
    BY <2>1, <2>2 DEF Recounted
<1>5. d' \in [Handles -> Cells \cup {None}] /\ ref' \in [Cells -> Nat] /\ CountsAreExact'
  <2>1. d' = Turned(d, h, d[g])
    BY <1>1 DEF Turned
  <2>2. d[g] \in Cells \cup {None} /\ d[h] # d[g]
    BY <1>1, <1>3
  <2>3. QED
    BY <1>4, <2>1, <2>2, CountsFollow
<1>6. MessageInv'
  BY <1>1, <1>5 DEF MessageInv, MemoryFormed, IsMessage
<1>7. ASSUME NEW k \in Handles
      PROVE  ValueOf(k)' = IF k = h THEN {cell[d[g]]} ELSE ValueOf(k)
  <2>1. CASE k = h
    <3>1. d'[h] = d[g] /\ cell'[d[g]] = cell[d[g]] /\ d[g] # None
      BY <1>1, <1>2, <1>3
    <3>2. QED
      BY <2>1, <3>1 DEF ValueOf
  <2>2. CASE k # h
    <3>1. d'[k] = d[k]
      BY <1>1, <1>2, <2>2
    <3>2. QED
      BY <1>1, <2>2, <3>1, SameValue
  <2>3. QED
    BY <2>1, <2>2
<1>8. ValueMap' = [ValueMap EXCEPT ![h] = {cell[d[g]]}]
  BY <1>7 DEF ValueMap
<1>9. ValueMap[h] = {} /\ UNCHANGED answer /\ cell[d[g]] \in ValueMap[g]
  BY <1>1, <1>3 DEF ValueMap, ValueOf
<1>10. Value!Begin(h, cell[d[g]])
  BY <1>8, <1>9 DEF Value!Begin, Value!Alive, ValueMap, ValueOf
<1>11. QED
  BY <1>6, <1>9, <1>10

LEMMA DestroyStep ==
    ASSUME MessageInv, NEW h \in Handles, Destroy(h)
    PROVE  MessageInv' /\ Value!End(h)
<1>1. /\ d' = [d EXCEPT ![h] = None] /\ ref' = [ref EXCEPT ![d[h]] = @ - 1]
      /\ DeleteUnused /\ answer' = answer /\ d[h] \in Cells
  BY InUse DEF Destroy
<1>2. d \in [Handles -> Cells \cup {None}]
  BY DEF MessageInv, MemoryFormed
<1>3. ref \in [Cells -> Nat] /\ None \notin Cells
  BY MessageAssumption DEF MessageInv, MemoryFormed
<1>4. ref' = Recounted(h, None)
  <2>1. ref' = [b \in Cells |-> IF b = d[h] THEN ref[b] - 1 ELSE ref[b]]
    BY <1>1, <1>3
  <2>2. \A b \in Cells : b # None
    BY <1>3
  <2>3. QED
    BY <2>1, <2>2 DEF Recounted
<1>5. d' \in [Handles -> Cells \cup {None}] /\ ref' \in [Cells -> Nat] /\ CountsAreExact'
  <2>1. d' = Turned(d, h, None)
    BY <1>1 DEF Turned
  <2>2. d[h] # None
    BY <1>1, <1>3
  <2>3. QED
    BY <1>4, <2>1, <2>2, CountsFollow
<1>6. /\ cell' = [c \in Cells |-> cell'[c]] /\ \A c \in Cells : IsMessage(cell'[c])
      /\ \A k \in Handles : d'[k] \in Cells => cell'[d'[k]] = cell[d'[k]]
  BY <1>1, <1>5, DeletedIsUnused DEF MessageInv
<1>7. MessageInv'
  BY <1>5, <1>6 DEF MessageInv, MemoryFormed, IsMessage
<1>8. ASSUME NEW k \in Handles
      PROVE  ValueOf(k)' = IF k = h THEN {} ELSE ValueOf(k)
  <2>1. CASE k = h
    BY <1>1, <1>2, <2>1 DEF ValueOf
  <2>2. CASE k # h
    <3>1. d'[k] = d[k]
      BY <1>1, <1>2, <2>2
    <3>2. QED
      BY <1>6, <2>2, <3>1, SameValue
  <2>3. QED
    BY <2>1, <2>2
<1>9. ValueMap' = [ValueMap EXCEPT ![h] = {}]
  BY <1>8 DEF ValueMap
<1>10. ValueMap[h] # {} /\ UNCHANGED answer
  BY <1>1, <1>3 DEF ValueMap, ValueOf
<1>11. QED
  BY <1>7, <1>9, <1>10 DEF Value!End, Value!Alive, ValueMap, ValueOf

\* One pointer less to b, which is where h points, and one more to c.
LEMMA MovedIsRecounted ==
    ASSUME ref \in [Cells -> Nat], NEW h \in Handles, d[h] \in Cells,
           NEW c \in Cells, d[h] # c
    PROVE  Moved(d[h], c) = Recounted(h, c)
<1>1. Moved(d[h], c) =
        [b \in Cells |-> IF b = c THEN ref[b] + 1 ELSE IF b = d[h] THEN ref[b] - 1 ELSE ref[b]]
  BY DEF Moved
<1>2. QED
  BY <1>1 DEF Recounted

LEMMA AssignStep ==
    ASSUME MessageInv, NEW h \in Handles, NEW g \in Handles, Assign(h, g)
    PROVE  MessageInv' /\ Value!Assign(h, g)
<1>1. /\ d' = [d EXCEPT ![h] = d[g]]
      /\ ref' = IF d[h] = d[g] THEN ref ELSE Moved(d[h], d[g])
      /\ DeleteUnused /\ answer' = answer /\ d[h] \in Cells /\ d[g] \in Cells
  BY InUse DEF Assign, PointsTo
<1>2. d \in [Handles -> Cells \cup {None}]
  BY DEF MessageInv, MemoryFormed
<1>3. ref \in [Cells -> Nat] /\ None \notin Cells
  BY MessageAssumption DEF MessageInv, MemoryFormed
<1>4. d' \in [Handles -> Cells \cup {None}] /\ ref' \in [Cells -> Nat] /\ CountsAreExact'
  <2>1. CASE d[h] = d[g]
    <3>1. d' = d /\ ref' = ref
      BY <1>1, <1>2, <2>1
    <3>2. QED
      BY <1>2, <1>3, <3>1 DEF MessageInv, CountsAreExact
  <2>2. CASE d[h] # d[g]
    <3>1. d' = Turned(d, h, d[g])
      BY <1>1 DEF Turned
    <3>2. ref' = Recounted(h, d[g])
      BY <1>1, <1>3, <2>2, MovedIsRecounted
    <3>3. d[g] \in Cells \cup {None}
      BY <1>1
    <3>4. QED
      BY <2>2, <3>1, <3>2, <3>3, CountsFollow
  <2>3. QED
    BY <2>1, <2>2
<1>5. /\ cell' = [c \in Cells |-> cell'[c]] /\ \A c \in Cells : IsMessage(cell'[c])
      /\ \A k \in Handles : d'[k] \in Cells => cell'[d'[k]] = cell[d'[k]]
  BY <1>1, <1>4, DeletedIsUnused DEF MessageInv
<1>6. MessageInv'
  BY <1>4, <1>5 DEF MessageInv, MemoryFormed, IsMessage
<1>7. ASSUME NEW k \in Handles
      PROVE  ValueOf(k)' = IF k = h THEN ValueOf(g) ELSE ValueOf(k)
  <2>1. CASE k = h
    <3>1. d'[h] = d[g] /\ cell'[d[g]] = cell[d[g]] /\ d[g] # None
      BY <1>1, <1>2, <1>3, <1>5
    <3>2. QED
      BY <2>1, <3>1 DEF ValueOf
  <2>2. CASE k # h
    <3>1. d'[k] = d[k]
      BY <1>1, <1>2, <2>2
    <3>2. QED
      BY <1>5, <2>2, <3>1, SameValue
  <2>3. QED
    BY <2>1, <2>2
<1>8. ValueMap' = [ValueMap EXCEPT ![h] = ValueMap[g]]
  BY <1>7 DEF ValueMap
<1>9. ValueMap[h] # {} /\ ValueMap[g] # {} /\ UNCHANGED answer
  BY <1>1, <1>3 DEF ValueMap, ValueOf
<1>10. QED
  BY <1>6, <1>8, <1>9 DEF Value!Assign, Value!Alive, ValueMap, ValueOf

\* Two pointers that are exchanged are as many as before.
LEMMA PointersExchanged ==
    ASSUME NEW D \in [Handles -> Cells \cup {None}], NEW h \in Handles, NEW g \in Handles,
           D[h] # D[g], NEW c
    PROVE  Cardinality(Pointers(Turned(Turned(D, h, D[g]), g, D[h]), c))
             = Cardinality(Pointers(D, c))
<1> DEFINE E == Turned(D, h, D[g])
<1>1. /\ E \in [Handles -> Cells \cup {None}] /\ E[g] = D[g]
      /\ D[h] \in Cells \cup {None} /\ D[g] \in Cells \cup {None}
  BY DEF Turned
<1>2. /\ Cardinality(Pointers(D, c)) \in Nat /\ Cardinality(Pointers(E, c)) \in Nat
      /\ Cardinality(Pointers(Turned(E, g, D[h]), c)) \in Nat
  BY PointersFinite
<1>3. /\ c = D[g] => Cardinality(Pointers(E, c)) = Cardinality(Pointers(D, c)) + 1
      /\ c = D[h] => Cardinality(Pointers(E, c)) = Cardinality(Pointers(D, c)) - 1
      /\ c # D[g] /\ c # D[h] => Cardinality(Pointers(E, c)) = Cardinality(Pointers(D, c))
  BY <1>1, Repointed, ZenonT(30)
<1> HIDE DEF E
<1>4. /\ c = D[h] =>
           Cardinality(Pointers(Turned(E, g, D[h]), c)) = Cardinality(Pointers(E, c)) + 1
      /\ c = E[g] =>
           Cardinality(Pointers(Turned(E, g, D[h]), c)) = Cardinality(Pointers(E, c)) - 1
      /\ c # D[h] /\ c # E[g] =>
           Cardinality(Pointers(Turned(E, g, D[h]), c)) = Cardinality(Pointers(E, c))
  <2>1. E[g] # D[h]
    BY <1>1
  <2>2. QED
    BY <1>1, <2>1, Repointed
<1>5. Cardinality(Pointers(Turned(E, g, D[h]), c)) = Cardinality(Pointers(D, c))
  BY <1>1, <1>2, <1>3, <1>4
<1>6. QED
  BY <1>5 DEF E

LEMMA MoveAssignStep ==
    ASSUME MessageInv, NEW h \in Handles, NEW g \in Handles, MoveAssign(h, g)
    PROVE  MessageInv' /\ Value!Swap(h, g)
<1>1. /\ d' = [d EXCEPT ![h] = d[g], ![g] = d[h]] /\ cell' = cell /\ ref' = ref
      /\ answer' = answer /\ d[h] \in Cells /\ d[g] \in Cells
  BY InUse DEF MoveAssign
<1>2. d \in [Handles -> Cells \cup {None}]
  BY DEF MessageInv, MemoryFormed
<1>3. d' \in [Handles -> Cells \cup {None}]
  BY <1>1, <1>2
<1>4. \A c : Cardinality(Pointers(d', c)) = Cardinality(Pointers(d, c))
  <2>1. CASE d[h] = d[g]
    <3>1. d' = d
      BY <1>1, <1>2, <2>1
    <3>2. QED
      BY <3>1
  <2>2. CASE d[h] # d[g]
    <3>1. d' = Turned(Turned(d, h, d[g]), g, d[h])
      BY <1>1, <1>2 DEF Turned
    <3>2. QED
      BY <1>2, <2>2, <3>1, PointersExchanged, Zenon
  <2>3. QED
    BY <2>1, <2>2
<1>5. CountsAreExact'
  BY <1>1, <1>4 DEF MessageInv, CountsAreExact, Pointers
<1>6. MessageInv'
  BY <1>1, <1>3, <1>5 DEF MessageInv, MemoryFormed, IsMessage
<1>7. ASSUME NEW k \in Handles
      PROVE  ValueOf(k)' = IF k = g THEN ValueOf(h) ELSE IF k = h THEN ValueOf(g) ELSE ValueOf(k)
  <2>1. d'[k] = IF k = g THEN d[h] ELSE IF k = h THEN d[g] ELSE d[k]
    BY <1>1, <1>2
  <2>2. ValueOf(k)' = {cell[c] : c \in {d'[k]} \ {None}}
    BY <1>1 DEF ValueOf
  <2>3. QED
    BY <2>1, <2>2 DEF ValueOf
<1>8. ValueMap' = [ValueMap EXCEPT ![h] = ValueMap[g], ![g] = ValueMap[h]]
  BY <1>7 DEF ValueMap
<1>9. ValueMap[h] # {} /\ ValueMap[g] # {} /\ UNCHANGED answer
  BY <1>1, MessageAssumption DEF ValueMap, ValueOf
<1>10. QED
  BY <1>6, <1>8, <1>9 DEF Value!Swap, Value!Alive, ValueMap, ValueOf

\* A setter of a message that shares with no other.
LEMMA SetFieldOwn ==
    ASSUME MessageInv, NEW h \in Handles, NEW f \in Fields, NEW v, Alive(h),
           ref[d[h]] = 1, cell' = [cell EXCEPT ![d[h]] = WithField(@, f, v)],
           d' = d, ref' = ref
    PROVE  MessageInv' /\ ValueMap' = [ValueMap EXCEPT ![h] = {WithField(cell[d[h]], f, v)}]
<1>1. d[h] \in Cells /\ None \notin Cells
  BY InUse, MessageAssumption
<1>2. cell = [c \in Cells |-> cell[c]] /\ \A c \in Cells : IsMessage(cell[c])
  BY DEF MessageInv, MemoryFormed
<1>3. cell' = [c \in Cells |-> IF c = d[h] THEN WithField(cell[c], f, v) ELSE cell[c]]
  BY <1>1, <1>2
<1>4. \A c \in Cells : IsMessage(cell'[c])
  BY <1>2, <1>3, SetIsMessage
<1>5. cell' = [c \in Cells |-> cell'[c]]
  BY <1>3
<1>6. MessageInv'
  BY <1>4, <1>5 DEF MessageInv, MemoryFormed, IsMessage, CountsAreExact
<1>7. ASSUME NEW k \in Handles
      PROVE  ValueOf(k)' = IF k = h THEN {WithField(cell[d[h]], f, v)} ELSE ValueOf(k)
  <2>1. CASE k = h
    <3>1. cell'[d[h]] = WithField(cell[d[h]], f, v) /\ d'[h] = d[h] /\ d[h] # None
      BY <1>1, <1>3
    <3>2. QED
      BY <2>1, <3>1 DEF ValueOf
  <2>2. CASE k # h
    <3>1. Cardinality(Pointers(d, d[h])) = 1
      BY <1>1 DEF MessageInv, CountsAreExact, Pointers
    <3>2. d[k] # d[h]
      BY <2>2, <3>1, OnePointer
    <3>3. d[k] \in Cells => cell'[d[k]] = cell[d[k]]
      BY <1>3, <3>2
    <3>4. QED
      BY <2>2, <3>3, SameValue
  <2>3. QED
    BY <2>1, <2>2
<1>8. QED
  BY <1>6, <1>7 DEF ValueMap

\* A setter of one that does: a copy is made.
LEMMA SetFieldShares ==
    ASSUME MessageInv, NEW h \in Handles, NEW f \in Fields, NEW v, Alive(h),
           NEW c \in Cells, PointsToNew(h, c, WithField(CopyOf(cell[d[h]]), f, v)),
           ref' = Moved(d[h], c)
    PROVE  MessageInv' /\ ValueMap' = [ValueMap EXCEPT ![h] = {WithField(cell[d[h]], f, v)}]
<1> DEFINE m == WithField(cell[d[h]], f, v)
<1>1. d[h] \in Cells /\ None \notin Cells /\ IsMessage(cell[d[h]])
  BY InUse, MessageAssumption DEF MessageInv, MemoryFormed
<1>2. IsMessage(m) /\ WithField(CopyOf(cell[d[h]]), f, v) = m
  BY <1>1, SetIsMessage, CopyIsSame
<1> HIDE DEF m
<1>3. d' = [d EXCEPT ![h] = c] /\ cell' = [cell EXCEPT ![c] = m]
  BY <1>2 DEF PointsToNew
<1>4. \A k \in Handles : d[k] # c
  BY FreeIsUnused DEF PointsToNew
<1>5. d \in [Handles -> Cells \cup {None}]
  BY DEF MessageInv, MemoryFormed
<1>6. /\ ref \in [Cells -> Nat]
      /\ cell = [b \in Cells |-> cell[b]] /\ \A b \in Cells : IsMessage(cell[b])
  BY DEF MessageInv, MemoryFormed
<1>7. d' \in [Handles -> Cells \cup {None}] /\ ref' \in [Cells -> Nat] /\ CountsAreExact'
  <2>1. d' = Turned(d, h, c)
    BY <1>3 DEF Turned
  <2>2. ref' = Recounted(h, c)
    BY <1>1, <1>4, <1>6, MovedIsRecounted
  <2>3. c \in Cells \cup {None} /\ d[h] # c
    BY <1>4
  <2>4. QED
    BY <2>1, <2>2, <2>3, CountsFollow
<1>8. cell' = [b \in Cells |-> IF b = c THEN m ELSE cell[b]]
  BY <1>3, <1>6
<1>9. cell' = [b \in Cells |-> cell'[b]] /\ \A b \in Cells : IsMessage(cell'[b])
  BY <1>2, <1>6, <1>8
<1>10. MessageInv'
  BY <1>7, <1>9 DEF MessageInv, MemoryFormed, IsMessage
<1>11. ASSUME NEW k \in Handles
       PROVE  ValueOf(k)' = IF k = h THEN {m} ELSE ValueOf(k)
  <2>1. CASE k = h
    <3>1. d'[h] = c /\ cell'[c] = m /\ c # None
      BY <1>1, <1>3, <1>5, <1>8
    <3>2. QED
      BY <2>1, <3>1 DEF ValueOf
  <2>2. CASE k # h
    <3>1. d'[k] = d[k]
      BY <1>3, <1>5, <2>2
    <3>2. d[k] \in Cells => cell'[d[k]] = cell[d[k]]
      BY <1>4, <1>8
    <3>3. QED
      BY <2>2, <3>1, <3>2, SameValue
  <2>3. QED
    BY <2>1, <2>2
<1>12. ValueMap' = [ValueMap EXCEPT ![h] = {m}]
  BY <1>11 DEF ValueMap
<1>13. QED
  BY <1>10, <1>12 DEF m

LEMMA SetFieldStep ==
    ASSUME MessageInv, NEW h \in Handles, NEW f \in Fields, NEW v, SetField(h, f, v)
    PROVE  MessageInv' /\ Value!Change(h, f, v)
<1>1. MessageInv' /\ ValueMap' = [ValueMap EXCEPT ![h] = {WithField(cell[d[h]], f, v)}]
  <2>1. CASE /\ ref[d[h]] = 1
             /\ cell' = [cell EXCEPT ![d[h]] = WithField(@, f, v)]
             /\ UNCHANGED <<d, ref>>
    BY <2>1, SetFieldOwn DEF SetField
  <2>2. CASE \E c \in Cells :
                /\ PointsToNew(h, c, WithField(CopyOf(cell[d[h]]), f, v))
                /\ ref' = Moved(d[h], c)
    BY <2>2, SetFieldShares DEF SetField
  <2>3. QED
    BY <2>1, <2>2 DEF SetField
<1>2. ValueMap[h] = {cell[d[h]]} /\ UNCHANGED answer
  BY ValueAlive DEF ValueMap, SetField
<1>3. \A m : Value!WithField(m, f, v) = WithField(m, f, v)
  BY DEF Value!WithField, WithField, Value!Kept, Kept
<1>4. {Value!WithField(m, f, v) : m \in ValueMap[h]} = {WithField(cell[d[h]], f, v)}
  BY <1>2, <1>3
<1>5. ValueMap' = [ValueMap EXCEPT ![h] = {Value!WithField(m, f, v) : m \in @}]
  BY <1>1, <1>4
<1>6. QED
  BY <1>1, <1>2, <1>5 DEF Value!Change, Value!Alive, ValueMap, ValueOf

LEMMA CompareStep ==
    ASSUME MessageInv, NEW h \in Handles, NEW g \in Handles, Compare(h, g)
    PROVE  MessageInv' /\ Value!Compare(h, g)
<1>1. /\ d' = d /\ cell' = cell /\ ref' = ref /\ answer' = Equals(h, g)
      /\ d[h] \in Cells /\ d[g] \in Cells
  BY InUse DEF Compare
<1>2. MessageInv'
  BY <1>1 DEF MessageInv, MemoryFormed, IsMessage, CountsAreExact
<1>3. ValueMap[h] = {cell[d[h]]} /\ ValueMap[g] = {cell[d[g]]}
  BY ValueAlive DEF ValueMap, Compare
<1>4. Equals(h, g) = (ValueMap[h] = ValueMap[g])
  <2>1. IsMessage(cell[d[h]]) /\ IsMessage(cell[d[g]])
    BY <1>1 DEF MessageInv, MemoryFormed
  <2>2. Equals(h, g) <=> cell[d[h]] = cell[d[g]]
    BY <2>1, EqualFields DEF Equals
  <2>3. Equals(h, g) <=> ValueMap[h] = ValueMap[g]
    BY <1>3, <2>2
  <2>4. QED
    BY <2>3, Zenon DEF Equals
<1>5. UNCHANGED ValueMap
  BY <1>1 DEF ValueMap, ValueOf
<1>6. QED
  BY <1>1, <1>2, <1>3, <1>4, <1>5 DEF Value!Compare, Value!Alive, ValueMap, ValueOf

-----------------------------------------------------------------------------
(* The specification. *)

LEMMA MessageInitInv == MessageInit => MessageInv /\ Value!Init
<1> SUFFICES ASSUME MessageInit PROVE MessageInv /\ Value!Init
  OBVIOUS
<1>1. /\ d = [h \in Handles |-> None] /\ cell = [c \in Cells |-> MessagePrivate]
      /\ ref = [c \in Cells |-> 0] /\ answer = FALSE /\ None \notin Cells
  BY MessageAssumption DEF MessageInit
<1>2. MemoryFormed
  <2>1. d \in [Handles -> Cells \cup {None}] /\ ref \in [Cells -> Nat]
    BY <1>1
  <2>2. cell = [c \in Cells |-> cell[c]] /\ \A c \in Cells : IsMessage(cell[c])
    BY <1>1, PrivateIsMessage
  <2>3. QED
    BY <2>1, <2>2 DEF MemoryFormed
<1>3. CountsAreExact
  <2>1. ASSUME NEW c \in Cells
        PROVE  ref[c] = Cardinality({h \in Handles : d[h] = c})
    <3>1. {h \in Handles : d[h] = c} = {}
      BY <1>1
    <3>2. QED
      BY <1>1, <3>1, FS_EmptySet
  <2>2. QED
    BY <2>1 DEF CountsAreExact
<1>4. ValueMap = [h \in Handles |-> {}]
  BY <1>1 DEF ValueMap, ValueOf
<1>5. Value!Init
  BY <1>1, <1>4 DEF Value!Init, ValueMap, ValueOf
<1>6. QED
  BY <1>2, <1>3, <1>5 DEF MessageInv

LEMMA MessageStep ==
    MessageInv /\ [MessageNext]_messageVars => MessageInv' /\ [Value!Next]_(Value!vars)
<1> SUFFICES ASSUME MessageInv, [MessageNext]_messageVars
             PROVE  MessageInv' /\ [Value!Next]_(Value!vars)
  OBVIOUS
<1>1. ASSUME NEW h \in Handles, Construct(h, MessagePrivate)
      PROVE  MessageInv' /\ Value!Next
  <2>1. MessageInv' /\ Value!Begin(h, MessagePrivate)
    BY <1>1, ConstructStep, PrivateIsMessage
  <2>2. MessagePrivate = Value!Default
    BY DEF MessagePrivate, Value!Default
  <2>3. QED
    BY <2>1, <2>2 DEF Value!Next
<1>2. ASSUME NEW h \in Handles, NEW m \in Given, Construct(h, MessagePrivateOf(m))
      PROVE  MessageInv' /\ Value!Next
  <2>1. MessageInv' /\ Value!Begin(h, MessagePrivateOf(m))
    BY <1>2, ConstructStep, GivenAreMessages
  <2>2. MessagePrivateOf(m) = Value!AllKept(m)
    BY MessageAssumption DEF MessagePrivateOf, Value!AllKept, Kept, Value!Kept
  <2>3. QED
    BY <2>1, <2>2 DEF Value!Next
<1>3. ASSUME NEW h \in Handles, NEW g \in Handles, CopyConstruct(h, g)
      PROVE  MessageInv' /\ Value!Next
  <2>1. /\ MessageInv'
        /\ cell[d[g]] \in ValueMap[g] /\ Value!Begin(h, cell[d[g]])
    BY <1>3, CopyConstructStep
  <2>2. \E m \in ValueMap[g] : Value!Begin(h, m)
    BY <2>1 DEF Value!Begin
  <2>3. Value!Next
    BY <2>2 DEF Value!Next, ValueMap, ValueOf
  <2>4. QED
    BY <2>1, <2>3
<1>4. ASSUME NEW h \in Handles, NEW g \in Handles, Assign(h, g)
      PROVE  MessageInv' /\ Value!Next
  BY <1>4, AssignStep DEF Value!Next
<1>5. ASSUME NEW h \in Handles, NEW g \in Handles, MoveAssign(h, g)
      PROVE  MessageInv' /\ Value!Next
  BY <1>5, MoveAssignStep DEF Value!Next
<1>6. ASSUME NEW h \in Handles, NEW g \in Handles, Compare(h, g)
      PROVE  MessageInv' /\ Value!Next
  BY <1>6, CompareStep DEF Value!Next
<1>7. ASSUME NEW h \in Handles, NEW f \in Fields, NEW v \in Args[f], SetField(h, f, v)
      PROVE  MessageInv' /\ Value!Next
  <2>1. MessageInv' /\ Value!Change(h, f, v)
    BY <1>7, SetFieldStep
  <2>2. f \in DOMAIN Value!Default
    BY DEF Value!Default, Fields
  <2>3. QED
    BY <2>1, <2>2 DEF Value!Next
<1>8. ASSUME NEW h \in Handles, Destroy(h)
      PROVE  MessageInv' /\ Value!Next
  BY <1>8, DestroyStep DEF Value!Next
<1>9. CASE UNCHANGED messageVars
  <2>1. d' = d /\ cell' = cell /\ ref' = ref /\ answer' = answer
    BY <1>9 DEF messageVars
  <2>2. MessageInv'
    BY <2>1 DEF MessageInv, MemoryFormed, IsMessage, CountsAreExact
  <2>3. UNCHANGED ValueMap /\ UNCHANGED answer
    BY <2>1 DEF ValueMap, ValueOf
  <2>4. QED
    BY <2>2, <2>3 DEF Value!vars, ValueMap, ValueOf
<1>10. QED
  BY <1>1, <1>2, <1>3, <1>4, <1>5, <1>6, <1>7, <1>8, <1>9 DEF MessageNext

-----------------------------------------------------------------------------
(* Types. *)

\* A message has its fields, and in them no more than their bits.
Sized(m) ==
    /\ DOMAIN m = Fields
    /\ m.qos \in 0 .. 3
    /\ m.retain \in BOOLEAN /\ m.dup \in BOOLEAN

FieldsFit == (\A c \in Cells : Sized(cell[c])) /\ answer \in BOOLEAN

LEMMA PrivateIsSized == Sized(MessagePrivate)
<1>1. FALSE \in BOOLEAN
  BY Zenon
<1>2. QED
  BY <1>1 DEF Sized, MessagePrivate, Fields

LEMMA GivenAreSized == ASSUME NEW m \in Given PROVE Sized(MessagePrivateOf(m))
<1>1. m.qos \in Nat /\ m.retain \in BOOLEAN /\ m.dup \in BOOLEAN
  BY MessageAssumption
<1>2. QED
  BY <1>1 DEF Sized, MessagePrivateOf, Kept, Fields

LEMMA SetIsSized ==
    ASSUME NEW m, Sized(m), NEW f \in Fields, NEW v \in Args[f]
    PROVE  Sized(WithField(m, f, v))
<1>1. /\ f = "qos" => v \in Nat
      /\ f = "retain" => v \in BOOLEAN
      /\ f = "dup" => v \in BOOLEAN
  BY MessageAssumption
<1>2. /\ WithField(m, f, v).qos = IF f = "qos" THEN v % 4 ELSE m.qos
      /\ WithField(m, f, v).retain = IF f = "retain" THEN v ELSE m.retain
      /\ WithField(m, f, v).dup = IF f = "dup" THEN v ELSE m.dup
      /\ DOMAIN WithField(m, f, v) = Fields
  BY DEF Sized, WithField, Kept, Fields
<1>3. WithField(m, f, v).qos \in 0 .. 3
  BY <1>1, <1>2 DEF Sized
<1>4. WithField(m, f, v).retain \in BOOLEAN /\ WithField(m, f, v).dup \in BOOLEAN
  BY <1>1, <1>2 DEF Sized
<1>5. QED
  BY <1>2, <1>3, <1>4 DEF Sized

LEMMA CopyIsSized == ASSUME NEW m, Sized(m) PROVE Sized(CopyOf(m))
  BY DEF Sized, CopyOf, Fields

\* Memory that a message is put into, and memory that is deleted.
LEMMA PutIsSized ==
    ASSUME MessageInv, FieldsFit, NEW b \in Cells, NEW m, Sized(m),
           cell' = [cell EXCEPT ![b] = m], answer' = answer
    PROVE  FieldsFit'
<1>1. \A c \in Cells : cell'[c] = IF c = b THEN m ELSE cell[c]
  BY DEF MessageInv, MemoryFormed
<1>2. QED
  BY <1>1 DEF FieldsFit

LEMMA DeletedIsSized ==
    ASSUME FieldsFit, DeleteUnused, answer' = answer
    PROVE  FieldsFit'
  BY PrivateIsSized DEF FieldsFit, DeleteUnused

LEMMA FieldsFitInit == MessageInit => FieldsFit
  BY PrivateIsSized, Zenon DEF MessageInit, FieldsFit

LEMMA FieldsFitStep == MessageInv /\ FieldsFit /\ [MessageNext]_messageVars => FieldsFit'
<1> SUFFICES ASSUME MessageInv, FieldsFit, [MessageNext]_messageVars PROVE FieldsFit'
  OBVIOUS
<1>1. ASSUME NEW h \in Handles, NEW m, Sized(m), Construct(h, m) PROVE FieldsFit'
  BY <1>1, PutIsSized DEF Construct, PointsToNew
<1>2. ASSUME NEW h \in Handles, NEW g \in Handles, CopyConstruct(h, g) PROVE FieldsFit'
  BY <1>2 DEF CopyConstruct, FieldsFit
<1>3. ASSUME NEW h \in Handles, NEW g \in Handles, Assign(h, g) PROVE FieldsFit'
  BY <1>3, DeletedIsSized DEF Assign
<1>4. ASSUME NEW h \in Handles, NEW g \in Handles, MoveAssign(h, g) PROVE FieldsFit'
  BY <1>4 DEF MoveAssign, FieldsFit
<1>5. ASSUME NEW h \in Handles, NEW g \in Handles, Compare(h, g) PROVE FieldsFit'
  <2>1. answer' = Equals(h, g) /\ cell' = cell
    BY <1>5 DEF Compare
  <2>2. Equals(h, g) \in BOOLEAN
    BY Zenon DEF Equals
  <2>3. QED
    BY <2>1, <2>2 DEF FieldsFit
<1>6. ASSUME NEW h \in Handles, NEW f \in Fields, NEW v \in Args[f], SetField(h, f, v)
      PROVE  FieldsFit'
  <2>1. d[h] \in Cells /\ answer' = answer
    BY <1>6, InUse DEF SetField
  <2>2. Sized(cell[d[h]])
    BY <2>1 DEF FieldsFit
  <2>3. CASE ref[d[h]] = 1
    BY <1>6, <2>1, <2>2, <2>3, SetIsSized, PutIsSized DEF SetField
  <2>4. CASE ref[d[h]] # 1
    BY <1>6, <2>1, <2>2, <2>4, CopyIsSized, SetIsSized, PutIsSized DEF SetField, PointsToNew
  <2>5. QED
    BY <2>3, <2>4
<1>7. ASSUME NEW h \in Handles, Destroy(h) PROVE FieldsFit'
  BY <1>7, DeletedIsSized DEF Destroy
<1>8. CASE UNCHANGED messageVars
  BY <1>8 DEF messageVars, FieldsFit
<1>9. QED
  BY <1>1, <1>2, <1>3, <1>4, <1>5, <1>6, <1>7, <1>8, PrivateIsSized, GivenAreSized
  DEF MessageNext

\* No memory counts more messages than there are.
LEMMA TypesFollow == MessageInv /\ FieldsFit => MessageTypeOK
<1> SUFFICES ASSUME MessageInv, FieldsFit PROVE MessageTypeOK
  OBVIOUS
<1>1. ASSUME NEW c \in Cells PROVE ref[c] \in 0 .. Cardinality(Handles)
  <2>1. ref[c] = Cardinality(Pointers(d, c))
    BY DEF MessageInv, CountsAreExact, Pointers
  <2>2. Pointers(d, c) \subseteq Handles
    BY DEF Pointers
  <2>3. Cardinality(Pointers(d, c)) <= Cardinality(Handles) /\ Cardinality(Handles) \in Nat
    BY <2>2, FS_Subset, FS_CardinalityType, MessageAssumption
  <2>4. QED
    BY <2>1, <2>3, PointersFinite
<1>2. ref \in [Cells -> 0 .. Cardinality(Handles)]
  BY <1>1 DEF MessageInv, MemoryFormed
<1>3. d \in [Handles -> Cells \cup {None}] /\ DOMAIN cell = Cells
  BY DEF MessageInv, MemoryFormed
<1>4. ASSUME NEW h \in Handles, d[h] # None PROVE ref[d[h]] > 0
  <2>1. d[h] \in Cells /\ h \in Pointers(d, d[h])
    BY <1>3, <1>4 DEF Pointers
  <2>2. IsFiniteSet(Pointers(d, d[h]))
    BY PointersFinite
  <2>3. Cardinality(Pointers(d, d[h])) # 0 /\ Cardinality(Pointers(d, d[h])) \in Nat
    BY <2>1, <2>2, FS_EmptySet, FS_CardinalityType
  <2>4. ref[d[h]] = Cardinality(Pointers(d, d[h]))
    BY <2>1 DEF MessageInv, CountsAreExact, Pointers
  <2>5. QED
    BY <2>3, <2>4
<1>5. QED
  BY <1>2, <1>3, <1>4 DEF MessageTypeOK, FieldsFit, Sized

-----------------------------------------------------------------------------
LEMMA MessageInvariant == MessageSpec => []MessageInv
<1>1. MessageInit => MessageInv
  BY MessageInitInv
<1>2. MessageInv /\ [MessageNext]_messageVars => MessageInv'
  BY MessageStep
<1>3. QED
  BY <1>1, <1>2, PTL DEF MessageSpec

\* The fields that a message points to are allocated, their count being positive, and
\* hold nothing beyond their bits; no count exceeds the number of messages.
THEOREM MessageTypeCorrect == MessageSpec => []MessageTypeOK
<1>1. MessageInit => FieldsFit
  BY FieldsFitInit
<1>2. MessageInv /\ FieldsFit /\ [MessageNext]_messageVars => FieldsFit'
  BY FieldsFitStep
<1>3. MessageInv /\ FieldsFit => MessageTypeOK
  BY TypesFollow
<1>4. QED
  BY <1>1, <1>2, <1>3, MessageInvariant, PTL DEF MessageSpec

\* A MessagePrivate is counted by as many messages as point to it, so QSharedDataPointer
\* deletes it with the last of them and never before.
THEOREM CountsExact == MessageSpec => []CountsAreExact
<1>1. MessageInv => CountsAreExact
  BY DEF MessageInv
<1>2. QED
  BY <1>1, MessageInvariant, PTL

\* Messages that share their fields behave as values that share nothing: a setter
\* changes its own message and no other.
THEOREM SharingIsUnseen == MessageSpec => ImplementsValues
<1>1. MessageInit => Value!Init
  BY MessageInitInv
<1>2. MessageInv /\ [MessageNext]_messageVars => [Value!Next]_(Value!vars)
  BY MessageStep
<1>3. QED
  BY <1>1, <1>2, MessageInvariant, PTL DEF MessageSpec, ImplementsValues, Value!Spec
=============================================================================
