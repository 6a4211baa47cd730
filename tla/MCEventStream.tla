---------------------------- MODULE MCEventStream ----------------------------
(* Instances of EventStream for TLC: the demo is played by hand.            *)
EXTENDS EventStream

ByHand == {0}
=============================================================================
