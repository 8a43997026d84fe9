------------------------------ MODULE MCClient ------------------------------
(* The instance of Client that TLC checks: one kind of application frame, and *)
(* an application that sends at most one frame from its connected() slot.     *)
EXTENDS Client

Publish == [type |-> "PUBLISH"]
MCAppFrames == {Publish}
MCBursts == {<<>>, <<Publish>>}
=============================================================================
