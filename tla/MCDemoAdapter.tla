---------------------------- MODULE MCDemoAdapter ----------------------------
(* Instances of DemoAdapter for TLC.                                        *)
EXTENDS DemoAdapter

ByHandOrTimer == {0, 1}

(* The reads filter the history as SelectSeq does, in order.                *)
ASSUME SelectionKeepsOrder ==
  \A s \in UNION {[1..n -> 0..3] : n \in 0..4}, from \in 0..3 :
    Selected(s, {k \in DOMAIN s : s[k] >= from}) = SelectSeq(s, LAMBDA i : i >= from)
=============================================================================
