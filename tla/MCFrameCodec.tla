---------------------------- MODULE MCFrameCodec ----------------------------
(* An instance of FrameCodec for TLC: lengths in binary digits, so that the     *)
(* packets have lengths of one to four bytes and one that does not fit.         *)
EXTENDS FrameCodec

Filled(n) == [k \in 1 .. n |-> 2 * Base - 1]
Message(topic, qos, payload) ==
    [topic |-> topic, id |-> IF qos = 0 THEN 0 ELSE 6, payload |-> payload, qos |-> qos]

MCMessages ==
    { Message(<<1>>, 0, <<>>),             \* 3 bytes of data
      Message(<<1>>, 1, Filled(2)),        \* 7
      Message(<<2, 0, 1>>, 2, Filled(2)),  \* 8, the topic is truncated
      Message(<<0>>, 1, Filled(10)),       \* 15
      Message(<<0>>, 2, Filled(11)) }      \* 16, dropped
=============================================================================
