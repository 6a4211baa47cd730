--------------------------- MODULE MCPacketCapture ---------------------------
(* Instances of PacketCapture for TLC: a service, an outsider of each kind. *)
EXTENDS PacketCapture

OneService == {0}
OneOutsider == {9}
OneLocal == {5}

(* The packets of a range, in closed form, are those that the comprehension  *)
(* of get_packets_in_range keeps.                                            *)
ASSUME RangesKeepOrder ==
  \A seq \in BoundedSeq(0..3, 5), from, until \in 0..4 :
    Selected(seq, {k \in DOMAIN seq : from <= seq[k] /\ seq[k] < until})
      = SelectSeq(seq, LAMBDA at : from <= at /\ at < until)

(* The rank by which packets are put in order is a stable sort by time.      *)
ASSUME SortingIsStable ==
  \A times \in BoundedSeq(0..2, 4) :
    \E seq \in {[i \in DOMAIN times |-> [id |-> i, at |-> times[i]]]} :
      ByTime(seq) = SortSeq(seq, LAMBDA p, q : p.at < q.at \/ (p.at = q.at /\ p.id < q.id))
=============================================================================
