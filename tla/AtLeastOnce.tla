---------------------------- MODULE AtLeastOnce ----------------------------
(***************************************************************************)
(* What the client outbox promises its user: a queued change is delivered  *)
(* to the server any number of times, in any grouping and order, and it    *)
(* leaves the queue only after the server has committed it.                *)
(* SyncOutbox is shown to implement this specification.                    *)
(***************************************************************************)
CONSTANT Item

VARIABLES queued,     \* items ever put in the queue
          delivered,  \* items the receiver has committed
          removed     \* items that have left the queue

vars == <<queued, delivered, removed>>

Init ==
  /\ queued = {}
  /\ delivered = {}
  /\ removed = {}

Add(i) ==
  /\ i \notin queued
  /\ queued' = queued \union {i}
  /\ UNCHANGED <<delivered, removed>>

Deliver(S) ==
  /\ S \subseteq queued
  /\ delivered' = delivered \union S
  /\ UNCHANGED <<queued, removed>>

Remove(S) ==
  /\ S \subseteq delivered
  /\ removed' = removed \union S
  /\ UNCHANGED <<queued, delivered>>

Next ==
  \/ \E i \in Item : Add(i)
  \/ \E S \in SUBSET Item : Deliver(S) \/ Remove(S)

Spec == Init /\ [][Next]_vars
=============================================================================
