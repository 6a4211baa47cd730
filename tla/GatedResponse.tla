---------------------------- MODULE GatedResponse ----------------------------
(***************************************************************************)
(* What the approval gate promises, whatever executes behind it: a         *)
(* response is put in force only for a request a human approved before its *)
(* deadline, before that deadline, and once per process.                   *)
(***************************************************************************)
CONSTANT Requests

VARIABLES
  opened,    \* requests put before a human
  expired,   \* opened requests whose deadline has passed
  approved,  \* requests a human approved in time
  done,      \* requests this process has executed
  inForce    \* requests whose response is in force

gated == <<opened, expired, approved, done, inForce>>

Init == opened = {} /\ expired = {} /\ approved = {} /\ done = {} /\ inForce = {}

Open(r) ==
  /\ r \notin opened
  /\ opened' = opened \union {r}
  /\ UNCHANGED <<expired, approved, done, inForce>>

Expire ==
  /\ expired' \in SUBSET opened
  /\ expired \subseteq expired'
  /\ UNCHANGED <<opened, approved, done, inForce>>

Approve(r) ==
  /\ r \in opened \ expired
  /\ approved' = approved \union {r}
  /\ UNCHANGED <<opened, expired, done, inForce>>

Execute(r) ==
  /\ r \in approved \ (expired \union done)
  /\ done' = done \union {r}
  /\ inForce' = inForce \union {r}
  /\ UNCHANGED <<opened, expired, approved>>

Undo(r) ==
  /\ r \in inForce
  /\ inForce' = inForce \ {r}
  /\ UNCHANGED <<opened, expired, approved, done>>

NewProcess ==
  /\ done' = {} /\ inForce' = {}
  /\ UNCHANGED <<opened, expired, approved>>

Next ==
  \/ Expire \/ NewProcess
  \/ \E r \in Requests : Open(r) \/ Approve(r) \/ Execute(r) \/ Undo(r)

Spec == Init /\ [][Next]_gated
=============================================================================
