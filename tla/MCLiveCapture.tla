---------------------------- MODULE MCLiveCapture ----------------------------
(* Instances of LiveCapture for TLC.                                        *)
EXTENDS LiveCapture

ByHandOrTimer == {0, 1}
=============================================================================
