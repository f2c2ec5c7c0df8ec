------------------------- MODULE OfflineSyncProofs --------------------------
(***************************************************************************)
(* Proofs about SyncOutbox and about OfflineSync, for every set of changes *)
(* and entities, every batch size, backoff and bound, and every number of  *)
(* faults and requests at the server.                                      *)
(*                                                                         *)
(* First the outbox alone: type correctness, the lease accounting, and     *)
(* that it implements AtLeastOnce.  Every step of the composition is a     *)
(* step of SyncOutbox, so the inductive invariant of the outbox holds for  *)
(* the composition as well; ContextInv adds what a request holds before it *)
(* saves, StoreInv what the client may conclude from an answer.            *)
(***************************************************************************)
EXTENDS OfflineSync, TLAPS

-----------------------------------------------------------------------------
(* The outbox                                                              *)

Queued == {c \in Change : status[c] # "None"}
Removed == {c \in Change : status[c] = "Removed"}

\* What the worker holds in memory agrees with the phase of its cycle.
CycleInv ==
  /\ todo \subseteq leased
  /\ accepted \subseteq leased
  /\ pc \in {"stopped", "dead", "idle"} => leased = {}
  /\ pc \in {"waiting", "answered"} => todo = leased
  /\ pc \in {"stopped", "dead", "idle", "waiting"} => accepted = {}
  /\ pc = "answered" => accepted \subseteq leased \intersect committed

\* Everything in flight was queued before, everything deleted was committed.
DeliveryInv ==
  /\ leased \subseteq Queued
  /\ late \subseteq Queued
  /\ committed \subseteq Queued
  /\ Removed \subseteq committed

\* The inductive invariant.
Inv == TypeOK /\ LeaseAccounted /\ CycleInv /\ DeliveryInv

LEMMA SaturatedType ==
  ASSUME NEW n \in Nat
  PROVE  Saturated(n + 1) \in 1..AttemptCap
BY CapAssumption DEF Saturated

LEMMA InitInv == Init => Inv
<1> SUFFICES ASSUME Init PROVE Inv
    OBVIOUS
<1>1. 0 \in 0..AttemptCap /\ 0 \in 0..MaxFaults
      BY FaultAssumption, CapAssumption
<1>2. TypeOK
      BY <1>1 DEF Init, TypeOK, Status, WorkerState
<1>3. Processing = {} /\ Queued = {} /\ Removed = {}
      BY DEF Init, Processing, Queued, Removed
<1>4. LeaseAccounted /\ CycleInv /\ DeliveryInv
      BY <1>3 DEF Init, LeaseAccounted, CycleInv, DeliveryInv
<1> QED BY <1>2, <1>4 DEF Inv

-----------------------------------------------------------------------------
(* One lemma per group of actions: the step keeps the invariant.           *)

LEMMA UserInv == Inv /\ User => Inv'
<1> SUFFICES ASSUME Inv, User PROVE Inv'
    OBVIOUS
<1> USE DEF Inv, TypeOK, LeaseAccounted, CycleInv, DeliveryInv, Queued, Removed,
            Processing, Status, WorkerState
<1>1. CASE Login
      BY <1>1 DEF Login, rowVars, workerVars, serverVars
<1>2. ASSUME NEW c \in Change, Enqueue(c) PROVE Inv'
      BY <1>2 DEF Enqueue, workerVars, serverVars
<1> QED BY <1>1, <1>2 DEF User

LEMMA TimeInv == Inv /\ (Start \/ Tick) => Inv'
<1> SUFFICES ASSUME Inv, Start \/ Tick PROVE Inv'
    OBVIOUS
<1> USE DEF Inv, TypeOK, LeaseAccounted, CycleInv, DeliveryInv, Queued, Removed,
            Processing, Status, WorkerState
<1>1. CASE Start
      BY <1>1 DEF Start, rowVars, serverVars
<1>2. CASE Tick
      BY <1>2 DEF Tick, serverVars
<1> QED BY <1>1, <1>2

LEMMA PollInv == Inv /\ Poll => Inv'
<1> SUFFICES ASSUME Inv, Poll PROVE Inv'
    OBVIOUS
<1> USE DEF Inv
<1>1. CASE PollNothing
      BY <1>1 DEF PollNothing, rowVars, serverVars, TypeOK, LeaseAccounted,
         CycleInv, DeliveryInv, Queued, Removed, Processing, WorkerState
<1>2. ASSUME NEW batch \in SUBSET Change, Lease(batch) PROVE Inv'
  <2> USE <1>2 DEF Lease, Due, serverVars
  <2>1. TypeOK'
        BY DEF TypeOK, Status, WorkerState
  <2>2. Processing' = Processing \union batch
        BY DEF TypeOK, Processing
  <2>3. todo = {}
        BY DEF CycleInv
  <2>4. LeaseAccounted'
        BY <2>2, <2>3 DEF LeaseAccounted
  <2>5. CycleInv'
        BY DEF CycleInv
  <2>6. DeliveryInv'
        BY DEF TypeOK, DeliveryInv, Queued, Removed
  <2> QED BY <2>1, <2>4, <2>5, <2>6
<1> QED BY <1>1, <1>2 DEF Poll

LEMMA ExchangeInv == Inv /\ Exchange => Inv'
<1> SUFFICES ASSUME Inv, Exchange PROVE Inv'
    OBVIOUS
<1> USE DEF Inv, TypeOK, LeaseAccounted, CycleInv, DeliveryInv, Queued, Removed,
            Processing, Status, WorkerState
<1>1. ASSUME NEW acc \in SUBSET Change, Answer(acc) PROVE Inv'
      BY <1>1 DEF Answer, Receive, rowVars
<1>2. CASE RequestFails
      BY <1>2 DEF RequestFails, rowVars, serverVars
<1>3. CASE RequestGivenUp
      BY <1>3 DEF RequestGivenUp, GiveUp, rowVars
<1> QED BY <1>1, <1>2, <1>3 DEF Exchange

LEMMA LateServeInv ==
  ASSUME Inv, NEW acc \in SUBSET Change, LateServe(acc)
  PROVE  Inv'
BY DEF LateServe, rowVars, workerVars, Inv, TypeOK, LeaseAccounted, CycleInv,
       DeliveryInv, Queued, Removed, Processing, Status, WorkerState

\* The step that matters: marking rows removes or re-arms exactly the rows of
\* the batch, and deletes only committed ones.
LEMMA MarkInv == Inv /\ Mark => Inv'
<1> SUFFICES ASSUME Inv, Mark PROVE Inv'
    OBVIOUS
<1> USE DEF Inv
<1>1. CASE MarkSucceeded
  <2> USE <1>1 DEF MarkSucceeded, Marked, NoBatch, serverVars
  <2>1. TypeOK'
        BY DEF TypeOK, Status, WorkerState
  <2>2. LeaseAccounted'
        BY DEF TypeOK, LeaseAccounted, CycleInv, Processing
  <2>3. CycleInv'
        BY DEF CycleInv
  <2>4. DeliveryInv'
        BY DEF TypeOK, CycleInv, DeliveryInv, Queued, Removed
  <2> QED BY <2>1, <2>2, <2>3, <2>4
<1>2. ASSUME NEW c \in Change, MarkNext(c) PROVE Inv'
  <2> USE <1>2 DEF MarkNext, MarkFailed, Marked, NoBatch, IsOldest, serverVars
  <2>1. /\ Saturated(attemptCount[c] + 1) \in 1..AttemptCap
        /\ Saturated(attemptCount[c] + 1) \in 0..AttemptCap
        BY SaturatedType, CapAssumption DEF TypeOK
  <2>2. Backoff(Saturated(attemptCount[c] + 1)) \in Nat
        BY <2>1, BackoffAssumption
  <2>3. status' \in [Change -> Status] /\ attemptCount' \in [Change -> 0..AttemptCap]
        BY <2>1 DEF TypeOK, Status
  <2>4. wait' \in [Change -> Nat]
        BY <2>2 DEF TypeOK
  <2>5. TypeOK'
        BY <2>3, <2>4 DEF TypeOK, WorkerState
  <2>6. LeaseAccounted'
        BY DEF TypeOK, LeaseAccounted, CycleInv, Processing
  <2>7. CycleInv'
        BY DEF CycleInv
  <2>8. DeliveryInv'
        BY DEF TypeOK, CycleInv, DeliveryInv, Queued, Removed
  <2> QED BY <2>5, <2>6, <2>7, <2>8
<1> QED BY <1>1, <1>2 DEF Mark

LEMMA FailureInv == Inv /\ Failure => Inv'
<1> SUFFICES ASSUME Inv, Failure PROVE Inv'
    OBVIOUS
<1>0. faults' \in 0..MaxFaults /\ faults' # 0
      BY FaultAssumption
      DEF Inv, TypeOK, Failure, StartFails, Crash, LeaseFails, MarkThrows,
          CatchThrows, Fault
<1> USE <1>0 DEF Inv, TypeOK, LeaseAccounted, CycleInv, DeliveryInv, Queued,
                 Removed, Processing, Status, WorkerState
<1>1. CASE StartFails
      BY <1>1 DEF StartFails, rowVars, serverVars
<1>2. CASE Crash
      BY <1>2 DEF Crash, GiveUp, NoBatch, rowVars
<1>3. CASE LeaseFails
      BY <1>3 DEF LeaseFails, rowVars, serverVars
<1>4. CASE MarkThrows
      BY <1>4 DEF MarkThrows, rowVars, serverVars
<1>5. CASE CatchThrows
      BY <1>5 DEF CatchThrows, NoBatch, rowVars, serverVars
<1> QED BY <1>1, <1>2, <1>3, <1>4, <1>5 DEF Failure

LEMMA NextInv == Inv /\ [Next]_vars => Inv'
<1> SUFFICES ASSUME Inv, [Next]_vars PROVE Inv'
    OBVIOUS
<1>1. CASE UNCHANGED vars
      BY <1>1 DEF vars, rowVars, workerVars, serverVars, Inv, TypeOK,
         LeaseAccounted, CycleInv, DeliveryInv, Queued, Removed, Processing
<1>2. CASE Next
      BY <1>2, UserInv, TimeInv, PollInv, ExchangeInv, LateServeInv, MarkInv,
         FailureInv DEF Next
<1> QED BY <1>1, <1>2

-----------------------------------------------------------------------------
\* The inductive invariant holds in every state.
THEOREM Invariance == Spec => []Inv
BY InitInv, NextInv, PTL DEF Spec

\* Every variable keeps its type, for every instance.
THEOREM TypeCorrect == Spec => []TypeOK
<1>1. Inv => TypeOK
      BY DEF Inv
<1> QED BY <1>1, Invariance, PTL

\* The rows of an open exchange are in Processing, and without faults no other
\* row is: the worker owes a mark to every row it has leased.
THEOREM LeasesAccounted == Spec => []LeaseAccounted
<1>1. Inv => LeaseAccounted
      BY DEF Inv
<1> QED BY <1>1, Invariance, PTL

-----------------------------------------------------------------------------
(* The refinement: each group of actions maps to one abstract action.      *)

LEMMA InitRefines == Init => Queue!Init
BY DEF Init, Queue!Init

LEMMA StepRefines == Inv /\ [Next]_vars => [Queue!Next]_(Queue!vars)
<1> SUFFICES ASSUME Inv, [Next]_vars PROVE [Queue!Next]_(Queue!vars)
    OBVIOUS
<1>0. ASSUME UNCHANGED vars PROVE UNCHANGED Queue!vars
      BY <1>0 DEF vars, rowVars, serverVars, Queue!vars
<1>1. ASSUME Login \/ Start \/ Tick \/ PollNothing PROVE UNCHANGED Queue!vars
      BY <1>1 DEF Login, Start, Tick, PollNothing, rowVars, serverVars, Queue!vars
<1>2. ASSUME NEW c \in Change, Enqueue(c) PROVE Queue!Next
  <2>1. Queue!Add(c)
        BY <1>2 DEF Enqueue, serverVars, Queue!Add, Inv, TypeOK
  <2> QED BY <2>1 DEF Queue!Next
<1>3. ASSUME NEW batch \in SUBSET Change, Lease(batch) PROVE UNCHANGED Queue!vars
      BY <1>3 DEF Lease, Due, serverVars, Inv, TypeOK, Queue!vars
<1>4. ASSUME NEW acc \in SUBSET Change, Answer(acc) PROVE Queue!Next
  <2>1. Queue!Deliver(acc)
        BY <1>4 DEF Answer, Receive, rowVars, Queue!Deliver, Inv, DeliveryInv,
           Queued
  <2> QED BY <2>1 DEF Queue!Next
<1>5. ASSUME RequestFails \/ RequestGivenUp PROVE UNCHANGED Queue!vars
      BY <1>5 DEF RequestFails, RequestGivenUp, rowVars, serverVars, Queue!vars
<1>6. ASSUME NEW acc \in SUBSET Change, LateServe(acc) PROVE Queue!Next
  <2>1. Queue!Deliver(acc)
        BY <1>6 DEF LateServe, rowVars, Queue!Deliver, Inv, DeliveryInv, Queued
  <2> QED BY <2>1 DEF Queue!Next
<1>7. ASSUME MarkSucceeded PROVE Queue!Next
  <2>1. accepted \subseteq leased \intersect committed /\ accepted \in SUBSET Change
        BY <1>7 DEF MarkSucceeded, Inv, CycleInv, TypeOK
  <2>2. Queue!Remove(accepted)
        BY <1>7, <2>1 DEF MarkSucceeded, serverVars, Queue!Remove, Inv, TypeOK,
           DeliveryInv, Queued
  <2> QED BY <2>1, <2>2 DEF Queue!Next, Queue!Remove
<1>8. ASSUME NEW c \in Change, MarkNext(c) PROVE UNCHANGED Queue!vars
  <2>1. c \in Queued
        BY <1>8 DEF MarkNext, IsOldest, Inv, CycleInv, DeliveryInv
  <2>2. \/ status' = status
        \/ status[c] # "Removed" /\ status' = [status EXCEPT ![c] = "Pending"]
        BY <1>8 DEF MarkNext, MarkFailed
  <2>3. Queued' = Queued /\ Removed' = Removed
        BY <2>1, <2>2 DEF Queued, Removed, Inv, TypeOK
  <2> QED BY <1>8, <2>3 DEF MarkNext, serverVars, Queued, Removed, Queue!vars
<1>9. ASSUME Failure PROVE UNCHANGED Queue!vars
      BY <1>9 DEF Failure, StartFails, Crash, LeaseFails, MarkThrows, CatchThrows,
         rowVars, serverVars, Queue!vars
<1> QED BY <1>0, <1>1, <1>2, <1>3, <1>4, <1>5, <1>6, <1>7, <1>8, <1>9
        DEF Next, User, Poll, Exchange, Mark

\* The outbox is an at-least-once queue: nothing the user queued leaves it
\* before the server has committed it, whatever crashes, throws or is lost.
THEOREM OutboxImplementsAtLeastOnce == Spec => ImplementsAtLeastOnce
BY InitRefines, StepRefines, Invariance, PTL
DEF Spec, ImplementsAtLeastOnce, Queue!Spec

-----------------------------------------------------------------------------
(* The rows behind the outbox and the contexts of the requests             *)

\* The row of an entity is at least as new as change c.
IsStored(c) == version[EntityOf[c]] >= UpdatedAt(c)

\* An upsert whose acceptance the client has read is stored, if its row was not
\* saved over an unseen commit.
AcceptedIsStored ==
  \A c \in accepted \ deletes : EntityOf[c] \notin overtaken => IsStored(c)

StoreInv == AcceptedIsStored /\ RemovedIsStored

\* The types, and that no change is younger than the clock.
CloudTypeInv ==
  /\ deletes \subseteq Change
  /\ version \in [Entity -> Time]
  /\ own \in Context
  /\ serving \in [Handler -> Request]
  /\ overtaken \subseteq Entity
  /\ \A c \in Change : createdAt[c] <= clock

\* A context makes no row older than it was read.
HeldNewer(x) == \A e \in Entity : x.held[e] >= x.read[e]

\* An accepted upsert is in the context and will be written.
AcceptedIsHeld(x) ==
  \A c \in x.accepted \ deletes :
    /\ x.held[EntityOf[c]] >= UpdatedAt(c)
    /\ x.held[EntityOf[c]] > x.read[EntityOf[c]]

ContextInv ==
  /\ HeldNewer(own)
  /\ AcceptedIsHeld(own)
  /\ own.accepted \subseteq leased
  /\ pc # "waiting" => own.accepted = {}
  /\ \A h \in Handler : HeldNewer(serving[h].context)

CloudInv == Inv /\ CloudTypeInv /\ ContextInv /\ StoreInv

\* Only a save over an unseen commit makes a row older.
Rises ==
  /\ overtaken \subseteq overtaken'
  /\ \A e \in Entity : e \notin overtaken' => version'[e] >= version[e]

\* The fall of a row, if there is one, is that of a request with context x.
FallsBy(x) ==
  \A e \in Entity :
    version'[e] < version[e] => x.read[e] # version[e] /\ x.read[e] < version'[e]

Falls ==
  \A e \in Entity :
    version'[e] < version[e] =>
      \E x \in {own} \union {serving[h].context : h \in Handler} :
        x.read[e] # version[e] /\ x.read[e] < version'[e]

LEMMA TimeIsNat ==
  ASSUME clock \in Nat
  PROVE  /\ Time \subseteq Nat
         /\ 0 \in Time
         /\ \A n \in Nat : n <= clock + 1 => n \in Time
BY AheadAssumption DEF Time

LEMMA FreshType ==
  ASSUME clock \in Nat
  PROVE  Fresh \in Context /\ Idle \in Request /\ HeldNewer(Fresh)
<1>1. Fresh \in Context /\ HeldNewer(Fresh)
      BY TimeIsNat DEF Fresh, Context, HeldNewer
<1> QED BY <1>1 DEF Idle, Request

-----------------------------------------------------------------------------
(* The composition as an outbox                                            *)

LEMMA CloudStep ==
  ASSUME Inv, CloudTypeInv, [CloudNext]_allVars
  PROVE  [Next]_vars
<1>1. CASE Client \/ CrashOffline
      BY <1>1 DEF Client, CrashOffline, Next, User, Failure
<1>2. ASSUME NEW c \in Change, EnqueueOperation(c)
      PROVE  Next
      BY <1>2 DEF EnqueueOperation, Next, User
<1>3. CASE CloudExchange
  <2>1. CASE Serve
    <3>1. own.accepted \in SUBSET Change
          BY DEF CloudTypeInv, Context
    <3> QED BY <2>1, <3>1 DEF Serve, Next, Exchange
  <2>2. CASE ServeFails \/ ServeUnheard
        BY <2>2 DEF ServeFails, ServeUnheard, Next, Exchange
  <2>3. ASSUME NEW c \in Change, Query(c)
        PROVE  UNCHANGED vars
        BY <2>3 DEF Query
  <2> QED BY <1>3, <2>1, <2>2, <2>3 DEF CloudExchange
<1>4. ASSUME NEW h \in Handler, LateSave(h)
      PROVE  [Next]_vars
  <2> DEFINE acc == serving[h].context.accepted \intersect late
  <2>1. acc \in SUBSET Change
        BY DEF Inv, TypeOK
  <2>2. CASE LateServe(acc)
        BY <2>1, <2>2 DEF Next
  <2>3. CASE UNCHANGED vars
        BY <2>3
  <2> QED BY <1>4, <2>2, <2>3 DEF LateSave
<1>5. ASSUME NEW h \in Handler,
             LateQuery(h) \/ LateEnds(h) \/ \E e \in Entity : OtherReads(h, e)
      PROVE  UNCHANGED vars
      BY <1>5 DEF LateQuery, LateEnds, OtherReads
<1>6. CASE UNCHANGED allVars
      BY <1>6 DEF allVars
<1> QED BY <1>1, <1>2, <1>3, <1>4, <1>5, <1>6 DEF CloudNext, Others

-----------------------------------------------------------------------------
(* One query and one save                                                  *)

\* What a query adds to a context: the row of its change, not older than before,
\* and the change itself if it wins.
LEMMA ApplyStep ==
  ASSUME Inv, CloudTypeInv, NEW x \in Context, HeldNewer(x),
         NEW c \in Change, ~AddThrows(x, c)
  PROVE  /\ Applied(x, c) \in Context
         /\ HeldNewer(Applied(x, c))
         /\ AcceptedIsHeld(x) => AcceptedIsHeld(Applied(x, c))
         /\ Applied(x, c).accepted \subseteq x.accepted \union {c}
<1> DEFINE e == EntityOf[c]
           y == Applied(x, c)
<1>1. /\ e \in Entity /\ clock \in Nat /\ Time \subseteq Nat
      /\ createdAt[c] \in Nat /\ createdAt[c] <= clock
      BY EntityAssumption, TimeIsNat DEF Inv, TypeOK, CloudTypeInv
<1>2. UpdatedAt(c) \in Time /\ UpdatedAt(c) \in Nat /\ UpdatedAt(c) > 0
      BY <1>1, TimeIsNat DEF UpdatedAt
<1>3. /\ x.held \in [Entity -> Time] /\ x.read \in [Entity -> Time]
      /\ x.done \subseteq Change /\ x.accepted \subseteq Change
      /\ version \in [Entity -> Time]
      BY DEF Context, CloudTypeInv
<1>4. /\ x.held[e] \in Nat /\ x.read[e] \in Nat /\ version[e] \in Nat
      /\ x.held[e] >= x.read[e]
      BY <1>1, <1>3 DEF HeldNewer
<1>5. HeldAfter(x, c) \in Time
      BY <1>1, <1>2, <1>3, TimeIsNat DEF HeldAfter, Found
<1>6. /\ y.read = [x.read EXCEPT ![e] =
                     IF Tracked(x, e) \/ HeldAfter(x, c) = 0 THEN @ ELSE version[e]]
      /\ y.held = [x.held EXCEPT ![e] = HeldAfter(x, c)]
      /\ y.accepted = IF Accepts(x, c) THEN x.accepted \union {c} ELSE x.accepted
      BY DEF Applied
<1>7. y \in Context
      BY <1>1, <1>3, <1>5 DEF Applied, Context
<1>8. /\ y.held[e] = HeldAfter(x, c)
      /\ y.read[e] = IF Tracked(x, e) \/ HeldAfter(x, c) = 0 THEN x.read[e] ELSE version[e]
      /\ \A d \in Entity : d # e => y.held[d] = x.held[d] /\ y.read[d] = x.read[d]
      BY <1>1, <1>3, <1>6
<1>9. /\ HeldAfter(x, c) >= x.held[e]
      /\ y.held[e] >= y.read[e]
      /\ Tracked(x, e) => y.read[e] = x.read[e]
      /\ Accepts(x, c) /\ Upsert(c) =>
           HeldAfter(x, c) = UpdatedAt(c) /\ y.held[e] > y.read[e]
  <2>1. CASE Absent(e) /\ ~Upsert(c)
        BY <2>1, <1>4, <1>8 DEF HeldAfter, Tracked
  <2>2. CASE Absent(e) /\ Upsert(c)
        BY <2>2, <1>2, <1>4, <1>8 DEF HeldAfter, Tracked, AddThrows, Accepts, Wins,
           Found, Absent
  <2>3. CASE ~Absent(e)
        BY <2>3, <1>2, <1>4, <1>8 DEF HeldAfter, Tracked, Accepts, Wins, Found, Absent
  <2> QED BY <2>1, <2>2, <2>3
<1>10. HeldNewer(y)
      BY <1>8, <1>9 DEF HeldNewer
<1>11. ASSUME AcceptedIsHeld(x), NEW d \in y.accepted \ deletes
       PROVE  y.held[EntityOf[d]] >= UpdatedAt(d) /\ y.held[EntityOf[d]] > y.read[EntityOf[d]]
  <2>1. CASE d \in x.accepted
    <3>1. /\ d \in Change /\ EntityOf[d] \in Entity /\ createdAt[d] \in Nat
          BY <2>1, <1>3, EntityAssumption DEF Inv, TypeOK
    <3>2. /\ x.held[EntityOf[d]] >= UpdatedAt(d)
          /\ x.held[EntityOf[d]] > x.read[EntityOf[d]]
          BY <1>11, <2>1 DEF AcceptedIsHeld
    <3>3. CASE EntityOf[d] # e
          BY <3>1, <3>2, <3>3, <1>8
    <3>4. CASE EntityOf[d] = e
      <4>1. Tracked(x, e)
            BY <3>1, <3>2, <3>4, <1>4 DEF Tracked, UpdatedAt
      <4>2. y.held[e] \in Nat
            BY <1>1, <1>5, <1>8
      <4> QED BY <4>1, <4>2, <3>1, <3>2, <3>4, <1>4, <1>8, <1>9 DEF UpdatedAt
    <3> QED BY <3>3, <3>4
  <2>2. CASE d = c /\ Accepts(x, c)
        BY <2>2, <1>2, <1>8, <1>9, <1>11 DEF Upsert
  <2> QED BY <2>1, <2>2, <1>6, <1>11
<1> QED BY <1>6, <1>7, <1>10, <1>11 DEF AcceptedIsHeld

\* Saving a context stores its accepted upserts, and where it makes a row older
\* it had read another version.
LEMMA SaveStep ==
  ASSUME Inv, CloudTypeInv, NEW x \in Context, HeldNewer(x), Save(x)
  PROVE  /\ version' \in [Entity -> Time]
         /\ overtaken' \subseteq Entity
         /\ Rises
         /\ FallsBy(x)
         /\ AcceptedIsHeld(x) =>
              \A c \in x.accepted \ deletes : version'[EntityOf[c]] >= UpdatedAt(c)
<1>1. /\ clock \in Nat /\ Time \subseteq Nat
      /\ version \in [Entity -> Time] /\ overtaken \subseteq Entity
      /\ x.held \in [Entity -> Time] /\ x.read \in [Entity -> Time]
      /\ x.accepted \subseteq Change
      BY TimeIsNat DEF Inv, TypeOK, CloudTypeInv, Context
<1>2. /\ version' = [e \in Entity |-> IF x.held[e] # x.read[e] THEN x.held[e] ELSE version[e]]
      /\ overtaken' = overtaken \union
           {e \in Entity : x.held[e] # x.read[e] /\ x.read[e] # version[e]}
      BY DEF Save
<1>3. version' \in [Entity -> Time] /\ overtaken' \subseteq Entity
      BY <1>1, <1>2
<1>4. ASSUME NEW e \in Entity
      PROVE  /\ version'[e] = IF x.held[e] # x.read[e] THEN x.held[e] ELSE version[e]
             /\ x.held[e] \in Nat /\ x.read[e] \in Nat /\ version[e] \in Nat
             /\ x.held[e] >= x.read[e]
      BY <1>1, <1>2 DEF HeldNewer
<1>5. Rises
      BY <1>2, <1>4 DEF Rises
<1>6. FallsBy(x)
      BY <1>4 DEF FallsBy
<1>7. ASSUME AcceptedIsHeld(x), NEW c \in x.accepted \ deletes
      PROVE  version'[EntityOf[c]] >= UpdatedAt(c)
  <2>1. EntityOf[c] \in Entity
        BY <1>1, EntityAssumption
  <2> QED BY <1>4, <1>7, <2>1 DEF AcceptedIsHeld
<1> QED BY <1>3, <1>5, <1>6, <1>7

-----------------------------------------------------------------------------
(* The inductive step                                                      *)

LEMMA RangeGrows ==
  ASSUME NEW m \in Nat, NEW n \in Nat, n >= m, NEW k \in Nat
  PROVE  \A t \in 0..m + 1 + k : t \in 0..n + 1 + k
OBVIOUS

\* No row falls in a step that saves nothing.
LEMMA NoFall ==
  ASSUME Inv, CloudTypeInv, UNCHANGED version
  PROVE  Falls /\ \A e \in Entity : version'[e] >= version[e]
<1>1. \A e \in Entity : version[e] \in Nat /\ version'[e] = version[e]
      BY TimeIsNat DEF Inv, TypeOK, CloudTypeInv
<1>2. \A e \in Entity : version'[e] >= version[e] /\ ~(version'[e] < version[e])
      BY <1>1
<1> QED BY <1>2 DEF Falls

\* The types outlast a step that leaves their variables alone.
LEMMA TypesGrow ==
  ASSUME clock \in Nat, clock' \in Nat, clock' >= clock
  PROVE  Time \subseteq Time' /\ Context \subseteq Context' /\ Request \subseteq Request'
<1>1. Time \subseteq Time'
      BY AheadAssumption, RangeGrows DEF Time
<1>2. Context \subseteq Context'
      BY <1>1 DEF Context
<1> QED BY <1>1, <1>2 DEF Request

LEMMA ClockStep ==
  ASSUME Inv, [Next]_vars
  PROVE  clock' \in Nat /\ clock' >= clock
<1>1. clock \in Nat
      BY DEF Inv, TypeOK
<1>2. clock' = clock \/ clock' = clock + 1
      BY DEF Next, User, Login, Enqueue, Start, Tick, Poll, PollNothing, Lease, Exchange,
         Answer, Receive, RequestFails, RequestGivenUp, LateServe, Mark, MarkSucceeded,
         MarkNext, Failure, StartFails, LeaseFails, MarkThrows, CatchThrows, Crash, vars
<1> QED BY <1>1, <1>2

\* A step that makes no unseen fall and neither accepts nor deletes more.
LEMMA QuietStep ==
  ASSUME Inv, CloudTypeInv, StoreInv, version' \in [Entity -> Time], Rises,
         accepted' \subseteq accepted,
         \A c \in Change : status'[c] = "Removed" => status[c] = "Removed" \/ c \in accepted,
         UNCHANGED <<createdAt, deletes>>
  PROVE  StoreInv'
<1>1. createdAt \in [Change -> Nat] /\ EntityOf \in [Change -> Entity]
      /\ accepted \subseteq Change /\ Time \subseteq Nat
      /\ version \in [Entity -> Time]
      BY EntityAssumption, TimeIsNat DEF Inv, TypeOK, CloudTypeInv
<1>2. ASSUME NEW c \in Change, EntityOf[c] \notin overtaken => IsStored(c)
      PROVE  EntityOf[c] \notin overtaken' => IsStored(c)'
  <2>1. /\ createdAt[c] \in Nat /\ createdAt'[c] = createdAt[c]
        /\ EntityOf[c] \in Entity
        /\ version[EntityOf[c]] \in Nat /\ version'[EntityOf[c]] \in Nat
        BY <1>1
  <2> QED BY <1>2, <2>1 DEF Rises, IsStored, UpdatedAt
<1> QED BY <1>1, <1>2 DEF StoreInv, AcceptedIsStored, RemovedIsStored, IsStored, UpdatedAt

LEMMA EnqueueStep ==
  ASSUME CloudInv, NEW c \in Change, EnqueueOperation(c)
  PROVE  CloudTypeInv' /\ ContextInv' /\ StoreInv' /\ Falls
<1> USE DEF CloudInv
<1>1. /\ createdAt \in [Change -> Nat] /\ clock \in Nat /\ status \in [Change -> Status]
      /\ leased \subseteq Queued
      /\ accepted \subseteq leased /\ version \in [Entity -> Time]
      /\ Time \subseteq Nat
      BY TimeIsNat DEF Inv, TypeOK, CycleInv, DeliveryInv, CloudTypeInv
<1>2. /\ status[c] = "None" /\ status' = [status EXCEPT ![c] = "Pending"]
      /\ clock' = clock + 1 /\ createdAt' = [createdAt EXCEPT ![c] = clock + 1]
      /\ deletes' \in {deletes, deletes \union {c}}
      /\ UNCHANGED <<version, own, serving, overtaken, pc, leased, accepted>>
      BY DEF EnqueueOperation, Enqueue, serverSide, workerVars
<1>3. c \notin leased
      BY <1>1, <1>2 DEF Queued
<1>4. \A d \in Change : d # c => createdAt'[d] = createdAt[d] /\ status'[d] = status[d]
      BY <1>1, <1>2
<1>5. createdAt'[c] = clock' /\ status'[c] = "Pending"
      BY <1>1, <1>2
<1>6. CloudTypeInv'
  <2>1. Time \subseteq Time' /\ Context \subseteq Context' /\ Request \subseteq Request'
        BY <1>1, <1>2, TypesGrow
  <2>2. \A d \in Change : createdAt'[d] <= clock'
        BY <1>1, <1>2, <1>4, <1>5 DEF CloudTypeInv
  <2>3. version' \in [Entity -> Time']
        BY <1>1, <1>2, <2>1
  <2>4. serving' \in [Handler -> Request']
        BY <1>2, <2>1 DEF CloudTypeInv
  <2> QED BY <1>2, <2>1, <2>2, <2>3, <2>4 DEF CloudTypeInv
<1>7. ContextInv'
  <2>1. HeldNewer(own)' /\ \A h \in Handler : HeldNewer(serving[h].context)'
        BY <1>2 DEF ContextInv, HeldNewer
  <2>2. ASSUME NEW d \in own.accepted \ deletes'
        PROVE  d \in own.accepted \ deletes /\ UpdatedAt(d)' = UpdatedAt(d)
    <3>1. d \in Change /\ d # c /\ d \notin deletes
          BY <1>2, <1>3, <2>2 DEF ContextInv, CloudTypeInv, Context
    <3> QED BY <1>4, <3>1, <2>2 DEF UpdatedAt
  <2>3. AcceptedIsHeld(own)'
        BY <1>2, <2>2 DEF ContextInv, AcceptedIsHeld
  <2> QED BY <1>2, <2>1, <2>3 DEF ContextInv
<1>8. StoreInv'
      BY <1>1, <1>2, <1>3, <1>4, <1>5
      DEF StoreInv, AcceptedIsStored, RemovedIsStored, IsStored, UpdatedAt, Inv, TypeOK
<1>9. Falls
      BY <1>2, NoFall
<1> QED BY <1>6, <1>7, <1>8, <1>9

\* The rows stay, and what is deleted was accepted: the steps of the client and
\* the ends of a request that saves nothing.
LEMMA NoSaveStep ==
  ASSUME CloudInv, Client \/ ServeFails \/ ServeUnheard \/ CrashOffline
  PROVE  CloudTypeInv' /\ ContextInv' /\ StoreInv' /\ Falls
<1> USE DEF CloudInv
<1>1. /\ version' = version /\ deletes' = deletes /\ overtaken' = overtaken
      /\ createdAt' = createdAt /\ clock' = clock
      BY DEF Client, ServeFails, ServeUnheard, CrashOffline, cloudVars, serverSide, Login,
         Start, Tick, Poll, PollNothing, Lease, Mark, MarkSucceeded, MarkNext, StartFails,
         LeaseFails, MarkThrows, CatchThrows, RequestFails, RequestGivenUp, Crash, rowVars
<1>2. accepted' \subseteq accepted
      BY DEF Client, ServeFails, ServeUnheard, CrashOffline, Login, Start, Tick, Poll,
         PollNothing, Lease, Mark, MarkSucceeded, MarkNext, Marked, StartFails,
         LeaseFails, MarkThrows, CatchThrows, RequestFails, RequestGivenUp, Crash,
         NoBatch, workerVars
<1>3. \A c \in Change : status'[c] = "Removed" => status[c] = "Removed" \/ c \in accepted
  <2>1. CASE Mark
    <3>1. CASE MarkSucceeded
          BY <3>1 DEF MarkSucceeded
    <3>2. ASSUME NEW d \in Change, MarkNext(d)
          PROVE  \A c \in Change : status'[c] = "Removed" => status[c] = "Removed"
          BY <3>2 DEF MarkNext, MarkFailed, Inv, TypeOK
    <3> QED BY <2>1, <3>1, <3>2 DEF Mark
  <2>2. CASE Poll
        BY <2>2 DEF Poll, PollNothing, Lease, rowVars
  <2>3. CASE ~Mark /\ ~Poll
        BY <2>3 DEF Client, ServeFails, ServeUnheard, CrashOffline, Login, Start, Tick,
           StartFails, LeaseFails, MarkThrows, CatchThrows, RequestFails,
           RequestGivenUp, Crash, rowVars
  <2> QED BY <2>1, <2>2, <2>3
<1>4. clock \in Nat /\ Time \subseteq Nat /\ Time' = Time
      /\ Context' = Context /\ Request' = Request
      BY <1>1, TimeIsNat DEF Inv, TypeOK, Time, Context, Request
<1>5. version' \in [Entity -> Time] /\ Rises /\ Falls
      BY <1>1, <1>4, NoFall DEF CloudTypeInv, Rises
<1>6. StoreInv'
      BY <1>1, <1>2, <1>3, <1>5, QuietStep
<1>7. \/ own' = own /\ (own.accepted = {} \/ (pc' = pc /\ leased' = leased))
      \/ own' = Fresh
  <2>1. CASE Client
    <3>1. own' = own
          BY <2>1 DEF Client, cloudVars, serverSide
    <3>2. pc # "waiting" \/ (pc' = pc /\ leased' = leased)
          BY <2>1 DEF Client, Login, Start, Tick, Poll, PollNothing, Lease, Mark,
             MarkSucceeded, MarkNext, StartFails, LeaseFails, MarkThrows, CatchThrows,
             workerVars
    <3> QED BY <3>1, <3>2 DEF ContextInv
  <2>2. CASE ServeFails \/ ServeUnheard \/ CrashOffline
        BY <2>2 DEF ServeFails, ServeUnheard, CrashOffline
  <2> QED BY <2>1, <2>2
<1>8. /\ own' \in Context /\ HeldNewer(own) /\ HeldNewer(own')
      /\ own'.accepted \subseteq leased'
      /\ pc' # "waiting" => own'.accepted = {}
      /\ own' = own \/ own'.accepted = {}
  <2>1. Fresh \in Context /\ HeldNewer(Fresh) /\ Fresh.accepted = {}
        BY <1>4, FreshType DEF Fresh
  <2>2. CASE own' = Fresh
        BY <2>1, <2>2 DEF ContextInv
  <2>3. CASE own' = own /\ (own.accepted = {} \/ (pc' = pc /\ leased' = leased))
        BY <2>3 DEF ContextInv, CloudTypeInv
  <2> QED BY <1>7, <2>2, <2>3
<1>9. AcceptedIsHeld(own)'
      BY <1>1, <1>8 DEF ContextInv, AcceptedIsHeld, UpdatedAt
<1>10. serving' = serving
       \/ \E h \in Handler :
            serving' = [serving EXCEPT ![h] = [batch |-> leased, context |-> own]]
       BY DEF Client, ServeFails, ServeUnheard, CrashOffline, Abandon, cloudVars, serverSide
<1>11. serving' \in [Handler -> Request]
       BY <1>10 DEF CloudTypeInv, Request, Inv, TypeOK
<1>12. \A h \in Handler : HeldNewer(serving'[h].context)
       BY <1>8, <1>10 DEF ContextInv, CloudTypeInv
<1>13. HeldNewer(own)' /\ \A h \in Handler : HeldNewer(serving[h].context)'
       BY <1>8, <1>12 DEF HeldNewer
<1>14. CloudTypeInv'
       BY <1>1, <1>4, <1>8, <1>11 DEF CloudTypeInv
<1>15. ContextInv'
       BY <1>8, <1>9, <1>13 DEF ContextInv
<1> QED BY <1>5, <1>6, <1>14, <1>15

\* A query changes the context of its request only.
LEMMA QueryStep ==
  ASSUME CloudInv, NEW c \in Change, Query(c)
  PROVE  CloudTypeInv' /\ ContextInv' /\ StoreInv' /\ Falls
<1> USE DEF CloudInv
<1>1. /\ own' = Applied(own, c) /\ c \in leased /\ ~AddThrows(own, c) /\ pc = "waiting"
      /\ UNCHANGED <<vars, deletes, version, serving, overtaken>>
      BY DEF Query, CanApply, IsOldest
<1>2. UNCHANGED <<createdAt, clock, status, pc, leased, accepted>>
      BY <1>1 DEF vars, rowVars, workerVars
<1>3. clock \in Nat /\ Time \subseteq Nat /\ Time' = Time
      /\ Context' = Context /\ Request' = Request
      BY <1>2, TimeIsNat DEF Inv, TypeOK, Time, Context, Request
<1>4. /\ own' \in Context /\ HeldNewer(own') /\ AcceptedIsHeld(own')
      /\ own'.accepted \subseteq leased
      BY <1>1, ApplyStep DEF ContextInv, CloudTypeInv
<1>5. CloudTypeInv'
      BY <1>1, <1>2, <1>3, <1>4 DEF CloudTypeInv
<1>6. ContextInv'
      BY <1>1, <1>2, <1>4 DEF ContextInv, HeldNewer, AcceptedIsHeld, UpdatedAt
<1>7. StoreInv' /\ Falls
      BY <1>1, <1>2, NoFall DEF StoreInv, AcceptedIsStored, RemovedIsStored, IsStored,
         UpdatedAt
<1> QED BY <1>5, <1>6, <1>7

\* What the answer accepts has just been stored.
LEMMA ServeStep ==
  ASSUME CloudInv, Serve
  PROVE  CloudTypeInv' /\ ContextInv' /\ StoreInv' /\ Falls
<1> USE DEF CloudInv
<1>1. /\ Save(own) /\ own' = Fresh /\ accepted' = own.accepted
      /\ UNCHANGED <<deletes, serving, createdAt, clock, status, leased>>
      BY DEF Serve, Answer, Receive, rowVars
<1>2. clock \in Nat /\ Time \subseteq Nat /\ Time' = Time
      /\ Context' = Context /\ Request' = Request
      BY <1>1, TimeIsNat DEF Inv, TypeOK, Time, Context, Request
<1>3. /\ version' \in [Entity -> Time] /\ overtaken' \subseteq Entity
      /\ Rises /\ FallsBy(own)
      /\ \A c \in own.accepted \ deletes : version'[EntityOf[c]] >= UpdatedAt(c)
      BY <1>1, SaveStep DEF ContextInv, CloudTypeInv
<1>4. CloudTypeInv'
      BY <1>1, <1>2, <1>3, FreshType DEF CloudTypeInv
<1>5. ContextInv'
  <2>1. HeldNewer(Fresh) /\ Fresh.accepted = {}
        BY <1>2, FreshType DEF Fresh
  <2> QED BY <1>1, <2>1 DEF ContextInv, HeldNewer, AcceptedIsHeld
<1>6. AcceptedIsStored'
      BY <1>1, <1>3 DEF AcceptedIsStored, IsStored, UpdatedAt
<1>7. RemovedIsStored'
  <2>1. createdAt \in [Change -> Nat] /\ EntityOf \in [Change -> Entity]
        /\ version \in [Entity -> Time]
        BY EntityAssumption DEF Inv, TypeOK, CloudTypeInv
  <2>2. ASSUME NEW c \in Change \ deletes, status[c] = "Removed", EntityOf[c] \notin overtaken'
        PROVE  version'[EntityOf[c]] >= UpdatedAt(c)
    <3>1. /\ createdAt[c] \in Nat /\ EntityOf[c] \in Entity
          /\ version[EntityOf[c]] \in Nat /\ version'[EntityOf[c]] \in Nat
          BY <1>2, <1>3, <2>1
    <3> QED BY <1>3, <2>2, <3>1 DEF StoreInv, RemovedIsStored, Rises, UpdatedAt
  <2> QED BY <1>1, <2>2 DEF RemovedIsStored, UpdatedAt
<1>8. Falls
      BY <1>3 DEF Falls, FallsBy
<1> QED BY <1>4, <1>5, <1>6, <1>7, <1>8 DEF StoreInv

LEMMA LateSaveStep ==
  ASSUME CloudInv, NEW h \in Handler, LateSave(h)
  PROVE  CloudTypeInv' /\ ContextInv' /\ StoreInv' /\ Falls
<1> USE DEF CloudInv
<1> DEFINE x == serving[h].context
<1>1. /\ Save(x) /\ serving' = [serving EXCEPT ![h] = Idle]
      /\ UNCHANGED <<deletes, own, createdAt, clock, status, pc, leased, accepted>>
      BY DEF LateSave, LateServe, vars, rowVars, workerVars
<1>2. clock \in Nat /\ Time \subseteq Nat /\ Time' = Time
      /\ Context' = Context /\ Request' = Request
      BY <1>1, TimeIsNat DEF Inv, TypeOK, Time, Context, Request
<1>3. x \in Context /\ HeldNewer(x)
      BY DEF ContextInv, CloudTypeInv, Request
<1>4. /\ version' \in [Entity -> Time] /\ overtaken' \subseteq Entity
      /\ Rises /\ FallsBy(x)
      BY <1>1, <1>3, SaveStep
<1>5. CloudTypeInv'
      BY <1>1, <1>2, <1>4, FreshType DEF CloudTypeInv
<1>6. ContextInv'
  <2>1. \A g \in Handler : HeldNewer(serving'[g].context)
        BY <1>1, <1>2, FreshType DEF ContextInv, CloudTypeInv, Idle
  <2> QED BY <1>1, <2>1 DEF ContextInv, HeldNewer, AcceptedIsHeld, UpdatedAt
<1>7. StoreInv'
      BY <1>1, <1>4, QuietStep
<1>8. Falls
      BY <1>4 DEF Falls, FallsBy
<1> QED BY <1>5, <1>6, <1>7, <1>8

\* What the other requests do before they save.
LEMMA OthersStep ==
  ASSUME CloudInv, NEW h \in Handler,
         LateQuery(h) \/ LateEnds(h) \/ \E e \in Entity : OtherReads(h, e)
  PROVE  CloudTypeInv' /\ ContextInv' /\ StoreInv' /\ Falls
<1> USE DEF CloudInv
<1>1. UNCHANGED <<vars, deletes, version, own, overtaken>>
      BY DEF LateQuery, LateEnds, OtherReads
<1>2. UNCHANGED <<createdAt, clock, status, pc, leased, accepted>>
      BY <1>1 DEF vars, rowVars, workerVars
<1>3. clock \in Nat /\ Time \subseteq Nat /\ Time' = Time
      /\ Context' = Context /\ Request' = Request
      BY <1>2, TimeIsNat DEF Inv, TypeOK, Time, Context, Request
<1>4. \E r \in Request : HeldNewer(r.context) /\ serving' = [serving EXCEPT ![h] = r]
  <2>1. serving[h] \in Request /\ serving[h].context \in Context
        /\ HeldNewer(serving[h].context)
        BY DEF ContextInv, CloudTypeInv, Request
  <2>2. CASE LateQuery(h)
    <3>1. PICK c \in Change :
            /\ ~AddThrows(serving[h].context, c)
            /\ serving' = [serving EXCEPT ![h].context = Applied(serving[h].context, c)]
          BY <2>2 DEF LateQuery, CanApply
    <3>2. /\ Applied(serving[h].context, c) \in Context
          /\ HeldNewer(Applied(serving[h].context, c))
          BY <2>1, <3>1, ApplyStep
    <3>3. [serving[h] EXCEPT !.context = Applied(serving[h].context, c)] \in Request
          BY <2>1, <3>2 DEF Request
    <3> WITNESS [serving[h] EXCEPT !.context = Applied(serving[h].context, c)] \in Request
    <3> QED BY <2>1, <3>1, <3>2 DEF Request, CloudTypeInv
  <2>3. CASE LateEnds(h)
    <3>1. Idle \in Request /\ HeldNewer(Idle.context)
          BY <1>3, FreshType DEF Idle
    <3> QED BY <2>3, <3>1 DEF LateEnds
  <2>4. ASSUME NEW e \in Entity, OtherReads(h, e)
        PROVE  \E r \in Request : HeldNewer(r.context) /\ serving' = [serving EXCEPT ![h] = r]
    <3> DEFINE x == serving[h].context
    <3>1. PICK t \in Time :
            /\ t > version[e]
            /\ serving' = [serving EXCEPT ![h].context.read[e] = version[e],
                                          ![h].context.held[e] = t]
          BY <2>4 DEF OtherReads, Wins
    <3> DEFINE y == [x EXCEPT !.read[e] = version[e], !.held[e] = t]
               r == [serving[h] EXCEPT !.context = y]
    <3>2. version[e] \in Time /\ version[e] \in Nat /\ t \in Nat
          BY <1>3 DEF CloudTypeInv
    <3>3. /\ y \in Context
          /\ y.read = [x.read EXCEPT ![e] = version[e]]
          /\ y.held = [x.held EXCEPT ![e] = t]
          BY <2>1, <3>2 DEF Context
    <3>4. HeldNewer(y)
          BY <2>1, <3>1, <3>2, <3>3 DEF HeldNewer, Context
    <3>5. r \in Request /\ r.context = y
          BY <2>1, <3>3 DEF Request
    <3>6. serving' = [serving EXCEPT ![h] = r]
          BY <3>1, <2>1 DEF CloudTypeInv, Request, Context
    <3> QED BY <3>4, <3>5, <3>6
  <2> QED BY <2>2, <2>3, <2>4
<1>5. serving' \in [Handler -> Request] /\ \A g \in Handler : HeldNewer(serving'[g].context)
      BY <1>4 DEF ContextInv, CloudTypeInv
<1>6. CloudTypeInv'
      BY <1>1, <1>2, <1>3, <1>5 DEF CloudTypeInv
<1>7. ContextInv'
      BY <1>1, <1>2, <1>5 DEF ContextInv, HeldNewer, AcceptedIsHeld, UpdatedAt
<1>8. StoreInv' /\ Falls
      BY <1>1, <1>2, NoFall DEF StoreInv, AcceptedIsStored, RemovedIsStored, IsStored,
         UpdatedAt
<1> QED BY <1>6, <1>7, <1>8

LEMMA CloudInitInv == CloudInit => CloudInv
<1> SUFFICES ASSUME CloudInit PROVE CloudInv
    OBVIOUS
<1>1. Inv /\ clock = 0 /\ clock \in Nat
      BY InitInv DEF CloudInit, Init
<1>2. 0 \in Time /\ Fresh \in Context /\ Idle \in Request /\ HeldNewer(Fresh)
      BY <1>1, TimeIsNat, FreshType
<1>3. CloudTypeInv
      BY <1>2 DEF CloudInit, Init, CloudTypeInv
<1>4. ContextInv
      BY <1>2 DEF CloudInit, Init, ContextInv, AcceptedIsHeld, Fresh, Idle
<1>5. StoreInv
      BY DEF CloudInit, Init, StoreInv, AcceptedIsStored, RemovedIsStored
<1> QED BY <1>1, <1>3, <1>4, <1>5 DEF CloudInv

\* Every step keeps the invariant, and a row falls only over a stale read.
LEMMA CloudNextInv ==
  ASSUME CloudInv, [CloudNext]_allVars
  PROVE  CloudInv' /\ [Falls]_allVars
<1>1. Inv'
      BY CloudStep, NextInv DEF CloudInv
<1>2. CASE CloudNext
      BY <1>1, <1>2, NoSaveStep, EnqueueStep, QueryStep, ServeStep, LateSaveStep, OthersStep
      DEF CloudNext, CloudExchange, Others, CloudInv
<1>3. CASE UNCHANGED allVars
      BY <1>1, <1>3 DEF CloudInv, CloudTypeInv, ContextInv, StoreInv, AcceptedIsStored,
         RemovedIsStored, IsStored, UpdatedAt, HeldNewer, AcceptedIsHeld, Time, Context,
         Request, allVars, vars, rowVars, workerVars, cloudVars, serverSide
<1> QED BY <1>2, <1>3

-----------------------------------------------------------------------------
\* The invariant holds in every reachable state.
THEOREM CloudInvariance == CloudSpec => []CloudInv
BY CloudInitInv, CloudNextInv, PTL DEF CloudSpec

\* Pushing to this server is one of the behaviours of the open outbox.
THEOREM CloudImplementsOutbox == CloudSpec => Spec
<1>1. CloudInit => Init
      BY DEF CloudInit
<1>2. CloudInv /\ [CloudNext]_allVars => [Next]_vars
      BY CloudStep DEF CloudInv
<1> QED BY <1>1, <1>2, CloudInvariance, PTL DEF CloudSpec, Spec

\* Client, rows and contexts keep their types for any number of changes, entities,
\* faults and requests.
THEOREM CloudTypeCorrect == CloudSpec => []CloudTypeOK
<1>1. CloudInv => CloudTypeOK
      BY DEF CloudInv, CloudTypeInv, CloudTypeOK, Inv
<1> QED BY <1>1, CloudInvariance, PTL

\* So the outbox with this server still delivers at least once.
THEOREM CloudDelivers == CloudSpec => ImplementsAtLeastOnce
BY CloudImplementsOutbox, OutboxImplementsAtLeastOnce

\* An upsert that has left the outbox is on the server, whatever was lost, late,
\* repeated or interrupted, unless its row was saved over a commit that the saving
\* request had not seen.
THEOREM RemovedStaysStored == CloudSpec => []RemovedIsStored
<1>1. CloudInv => RemovedIsStored
      BY DEF CloudInv, StoreInv
<1> QED BY <1>1, CloudInvariance, PTL

\* However many requests overlap, only one that has read another version than it
\* overwrites sets a row back, and not below what it has read.
THEOREM FallsStale == CloudSpec => FallsAreStale
<1>1. CloudInv /\ [CloudNext]_allVars => [Falls]_allVars
      BY CloudNextInv
<1>2. [Falls]_allVars <=>
        [\A e \in Entity :
           version'[e] < version[e] =>
             \E x \in {own} \union {serving[h].context : h \in Handler} :
               x.read[e] # version[e] /\ x.read[e] < version'[e]]_allVars
      BY DEF Falls
<1> QED BY <1>1, <1>2, CloudInvariance, PTL DEF CloudSpec, FallsAreStale
=============================================================================
