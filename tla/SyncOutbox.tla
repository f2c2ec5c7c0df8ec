---------------------------- MODULE SyncOutbox -----------------------------
(***************************************************************************)
(* The outbox of the MAUI client and the background worker that drains it. *)
(*                                                                         *)
(* SyncLab.razor queues a change, SqliteSyncOutboxStore keeps one row per  *)
(* change, and SyncBackgroundWorker, on each tick of its PeriodicTimer,    *)
(* leases the oldest due rows, pushes them to the server and marks every   *)
(* row as succeeded (deleted) or failed (Pending again, with a backoff).   *)
(*                                                                         *)
(* The rows are in a SQLite file and survive a crash; the lease list, the  *)
(* response and the timer are in memory and do not.  The server is left    *)
(* open: it may accept any part of a batch, fail, or answer too late.      *)
(*                                                                         *)
(* Time is counted in poll periods (30 s): Tick is one tick of the timer.  *)
(* HttpClient gives up after 20 s, so at most one tick falls into a cycle, *)
(* and PeriodicTimer keeps it pending until the cycle is over.             *)
(***************************************************************************)
EXTENDS Naturals, FiniteSets

CONSTANTS Change,         \* the changes the user may make, one outbox row each
          PushBatchSize,  \* SyncClientOptions.PushBatchSize
          AttemptCap,     \* attempt count from which the backoff is constant
          Backoff(_),     \* poll periods a row waits after its n-th failure
          MaxFaults,      \* bound: crashes and store faults of a behaviour
          MaxLate         \* bound: changes in given-up requests at a time

ASSUME BatchAssumption == PushBatchSize \in Nat \ {0}
ASSUME CapAssumption == AttemptCap \in Nat \ {0}
ASSUME BackoffAssumption == \A n \in 1..AttemptCap : Backoff(n) \in Nat \ {0}
ASSUME FaultAssumption == MaxFaults \in Nat

VARIABLES
  \* OutboxItems, on disk
  status,        \* "None" before the INSERT, "Removed" after the DELETE
  attemptCount,
  wait,          \* poll periods until NextAttemptAtUtc
  createdAt,     \* rank of CreatedAtUtc
  clock,         \* rank of the newest CreatedAtUtc
  session,       \* token and user id are both in the secure storage
  \* SyncBackgroundWorker, in memory
  pc,
  due,           \* a timer tick is waiting for the worker
  leased,        \* the batch of the current cycle
  todo,          \* rows of the batch that still have to be marked
  accepted,      \* AcceptedItems of the response
  \* the network and the server
  late,          \* changes of given-up requests the server may still apply
  committed,     \* changes the server has committed
  faults

rowVars == <<status, attemptCount, wait, createdAt>>
workerVars == <<pc, due, leased, todo, accepted>>
serverVars == <<late, committed>>
vars == <<rowVars, clock, session, workerVars, serverVars, faults>>

Status == {"None", "Pending", "Processing", "Removed"}
WorkerState == {"stopped",    \* no process
                "dead",       \* the loop task ended in InitializeAsync
                "idle",       \* between two cycles
                "waiting",    \* the push is in flight
                "answered",   \* a response arrived, nothing is marked yet
                "rejecting",  \* accepted rows are deleted, rejected ones left
                "failing"}    \* in the catch block, failing the whole batch

TypeOK ==
  /\ status \in [Change -> Status]
  /\ attemptCount \in [Change -> 0..AttemptCap]
  /\ wait \in [Change -> Nat]
  /\ createdAt \in [Change -> Nat]
  /\ clock \in Nat
  /\ session \in BOOLEAN
  /\ pc \in WorkerState
  /\ due \in BOOLEAN
  /\ leased \subseteq Change
  /\ todo \subseteq Change
  /\ accepted \subseteq Change
  /\ late \subseteq Change
  /\ committed \subseteq Change
  /\ faults \in 0..MaxFaults

Init ==
  /\ status = [c \in Change |-> "None"]
  /\ attemptCount = [c \in Change |-> 0]
  /\ wait = [c \in Change |-> 0]
  /\ createdAt = [c \in Change |-> 0]
  /\ clock = 0
  /\ session = FALSE
  /\ pc = "stopped"
  /\ due = FALSE
  /\ leased = {}
  /\ todo = {}
  /\ accepted = {}
  /\ late = {}
  /\ committed = {}
  /\ faults = 0

Running == pc # "stopped"
Processing == {c \in Change : status[c] = "Processing"}
Due == {c \in Change : status[c] = "Pending" /\ wait[c] = 0}

\* c comes first in the order of CreatedAtUtc
IsOldest(c, S) == c \in S /\ \A d \in S : createdAt[c] <= createdAt[d]

Fault ==
  /\ faults < MaxFaults
  /\ faults' = faults + 1

NoBatch ==
  /\ leased' = {}
  /\ todo' = {}
  /\ accepted' = {}

-----------------------------------------------------------------------------
(* The user interface                                                      *)

Login ==
  /\ Running
  /\ session' = TRUE
  /\ UNCHANGED <<rowVars, clock, workerVars, serverVars, faults>>

Enqueue(c) ==
  /\ Running
  /\ session
  /\ status[c] = "None"
  /\ status' = [status EXCEPT ![c] = "Pending"]
  /\ clock' = clock + 1
  /\ createdAt' = [createdAt EXCEPT ![c] = clock + 1]
  /\ UNCHANGED <<attemptCount, wait, session, workerVars, serverVars, faults>>

-----------------------------------------------------------------------------
(* The life of the worker and of its timer                                 *)

Start ==
  /\ pc = "stopped"
  /\ pc' = "idle"
  /\ UNCHANGED <<rowVars, clock, session, due, leased, todo, accepted,
                 serverVars, faults>>

\* InitializeAsync throws: the loop ends and _started forbids another one.
StartFails ==
  /\ pc = "stopped"
  /\ Fault
  /\ pc' = "dead"
  /\ UNCHANGED <<rowVars, clock, session, due, leased, todo, accepted,
                 serverVars>>

\* The client stops listening: the server may still apply the batch.
GiveUp ==
  /\ pc = "waiting"
  /\ Cardinality(late \union leased) <= MaxLate
  /\ late' = late \union leased

\* The process dies or the worker is disposed, perhaps with a request on its way.
Crash ==
  /\ Running
  /\ Fault
  /\ pc' = "stopped"
  /\ due' = FALSE
  /\ GiveUp \/ UNCHANGED late
  /\ NoBatch
  /\ UNCHANGED <<rowVars, clock, session, committed>>

Tick ==
  /\ ~due
  /\ wait' = [c \in Change |-> IF wait[c] = 0 THEN 0 ELSE wait[c] - 1]
  /\ due' = (pc \notin {"stopped", "dead"})
  /\ UNCHANGED <<status, attemptCount, createdAt, clock, session, pc, leased,
                 todo, accepted, serverVars, faults>>

-----------------------------------------------------------------------------
(* RunCycleAsync up to the push                                            *)

\* No session, or no row is due.
PollNothing ==
  /\ pc = "idle"
  /\ due
  /\ ~session \/ Due = {}
  /\ due' = FALSE
  /\ UNCHANGED <<rowVars, clock, session, pc, leased, todo, accepted,
                 serverVars, faults>>

\* The lease transaction throws and is rolled back.
LeaseFails ==
  /\ pc = "idle"
  /\ due
  /\ session
  /\ Fault
  /\ due' = FALSE
  /\ UNCHANGED <<rowVars, clock, session, pc, leased, todo, accepted,
                 serverVars>>

\* One transaction: select the oldest due rows, at most PushBatchSize, and set
\* them to Processing.  The request leaves right after it.
Lease(batch) ==
  /\ pc = "idle"
  /\ due
  /\ session
  /\ batch # {}
  /\ batch \subseteq Due
  /\ Cardinality(batch) <= PushBatchSize
  /\ batch # Due => Cardinality(batch) = PushBatchSize
  /\ \A c \in batch, d \in Due \ batch : createdAt[c] <= createdAt[d]
  /\ status' = [c \in Change |-> IF c \in batch THEN "Processing" ELSE status[c]]
  /\ pc' = "waiting"
  /\ due' = FALSE
  /\ leased' = batch
  /\ todo' = batch
  /\ UNCHANGED <<attemptCount, wait, createdAt, clock, session, accepted,
                 serverVars, faults>>

-----------------------------------------------------------------------------
(* The exchange with the server                                            *)

\* The client's side of a response: the rest of the batch is rejected.  An
\* empty AcceptedItems skips MarkSucceededAsync.
Receive(acc) ==
  /\ pc = "waiting"
  /\ accepted' = acc
  /\ pc' = IF acc = {} THEN "rejecting" ELSE "answered"
  /\ UNCHANGED <<rowVars, clock, session, due, leased, todo, late, faults>>

Answer(acc) ==
  /\ acc \subseteq leased
  /\ Receive(acc)
  /\ committed' = committed \union acc

\* Variant: no catch block around the push.
RequestFailsUncaught ==
  /\ pc = "waiting"
  /\ pc' = "idle"
  /\ NoBatch
  /\ UNCHANGED <<rowVars, clock, session, due, serverVars, faults>>

\* Connection refused, or a status code that is not a success.
RequestFails ==
  /\ pc = "waiting"
  /\ pc' = "failing"
  /\ UNCHANGED <<rowVars, clock, session, due, leased, todo, accepted,
                 serverVars, faults>>

\* The response is lost, or does not come within HttpClient.Timeout, or the
\* server fails after its SaveChanges: the client cannot tell what happened.
RequestGivenUp ==
  /\ GiveUp
  /\ pc' = "failing"
  /\ UNCHANGED <<rowVars, clock, session, due, leased, todo, accepted,
                 committed, faults>>

LateServe(acc) ==
  /\ acc # {}
  /\ acc \subseteq late
  /\ late' = late \ acc
  /\ committed' = committed \union acc
  /\ UNCHANGED <<rowVars, clock, session, workerVars, faults>>

-----------------------------------------------------------------------------
(* Marking the rows                                                        *)

Saturated(n) == IF n < AttemptCap THEN n ELSE AttemptCap

\* Variant: a failed row gets the status OutboxStatus.Failed.
MarkFailedForGood(c) ==
  /\ status' = [status EXCEPT ![c] = "Failed"]
  /\ UNCHANGED <<attemptCount, wait>>

\* Variant: the attempt is not counted.
MarkFailedUncounted(c) ==
  IF status[c] = "Removed"
  THEN UNCHANGED <<status, attemptCount, wait>>
  ELSE /\ status' = [status EXCEPT ![c] = "Pending"]
       /\ wait' = [wait EXCEPT ![c] = Backoff(1)]
       /\ UNCHANGED attemptCount

\* MarkFailedAsync: a row that is gone is left alone.
MarkFailed(c) ==
  IF status[c] = "Removed"
  THEN UNCHANGED <<status, attemptCount, wait>>
  ELSE LET attempt == Saturated(attemptCount[c] + 1) IN
       /\ status' = [status EXCEPT ![c] = "Pending"]
       /\ attemptCount' = [attemptCount EXCEPT ![c] = attempt]
       /\ wait' = [wait EXCEPT ![c] = Backoff(attempt)]

\* Variant: the loop over the rows stops after its first step.
MarkedOnce(S, next) == pc' = "idle" /\ NoBatch

\* The cycle is over when no row of the batch is left to mark.
Marked(S, next) ==
  IF todo \subseteq S
  THEN pc' = "idle" /\ NoBatch
  ELSE pc' = next /\ todo' = todo \ S /\ UNCHANGED <<leased, accepted>>

\* Variant: every row of an answered batch is deleted.
MarkAllSucceeded ==
  /\ pc = "answered"
  /\ status' = [c \in Change |-> IF c \in leased THEN "Removed" ELSE status[c]]
  /\ Marked(leased, "rejecting")
  /\ UNCHANGED <<attemptCount, wait, createdAt, clock, session, due,
                 serverVars, faults>>

\* Variant: only one of the accepted rows is deleted.
MarkOneSucceeded ==
  /\ pc = "answered"
  /\ \E d \in accepted :
       /\ IsOldest(d, accepted)
       /\ status' = [status EXCEPT ![d] = "Removed"]
  /\ Marked(accepted, "rejecting")
  /\ UNCHANGED <<attemptCount, wait, createdAt, clock, session, due,
                 serverVars, faults>>

\* MarkSucceededAsync: one transaction deletes every accepted row.
MarkSucceeded ==
  /\ pc = "answered"
  /\ status' = [c \in Change |-> IF c \in accepted THEN "Removed" ELSE status[c]]
  /\ Marked(accepted, "rejecting")
  /\ UNCHANGED <<attemptCount, wait, createdAt, clock, session, due,
                 serverVars, faults>>

\* One RejectedItem, or one row of the catch block, in the order of the batch.
MarkNext(c) ==
  /\ pc \in {"rejecting", "failing"}
  /\ IsOldest(c, todo)
  /\ MarkFailed(c)
  /\ Marked({c}, pc)
  /\ UNCHANGED <<createdAt, clock, session, due, serverVars, faults>>

\* A mark throws inside the try block: the catch block fails the whole batch,
\* the rows that were marked before it included.
MarkThrows ==
  /\ pc \in {"answered", "rejecting"}
  /\ Fault
  /\ pc' = "failing"
  /\ todo' = leased
  /\ UNCHANGED <<rowVars, clock, session, due, leased, accepted, serverVars>>

\* A mark throws inside the catch block: the cycle ends, the rest is not marked.
CatchThrows ==
  /\ pc = "failing"
  /\ Fault
  /\ pc' = "idle"
  /\ NoBatch
  /\ UNCHANGED <<rowVars, clock, session, due, serverVars>>

-----------------------------------------------------------------------------
User == Login \/ \E c \in Change : Enqueue(c)
Poll == PollNothing \/ \E batch \in SUBSET Change : Lease(batch)
Exchange == (\E acc \in SUBSET Change : Answer(acc)) \/ RequestFails \/ RequestGivenUp
Mark == MarkSucceeded \/ \E c \in Change : MarkNext(c)
Failure == StartFails \/ Crash \/ LeaseFails \/ MarkThrows \/ CatchThrows

Next ==
  \/ User
  \/ Start
  \/ Tick
  \/ Poll
  \/ Exchange
  \/ \E acc \in SUBSET Change : LateServe(acc)
  \/ Mark
  \/ Failure

Spec == Init /\ [][Next]_vars

\* The timer ticks, the worker is scheduled, a request ends (HttpClient.Timeout)
\* and the user opens the app again.  Nothing is assumed of the server, of the
\* requests given up on, of the user's changes or of faults.
Fairness ==
  /\ WF_vars(Tick)
  /\ WF_vars(Start)
  /\ WF_vars(Poll)
  /\ WF_vars(Exchange)
  /\ WF_vars(Mark)

FairSpec == Spec /\ Fairness

-----------------------------------------------------------------------------
(* Properties                                                              *)

\* While an exchange is open its rows are on disk as Processing: nothing else
\* leases, deletes or re-arms them.  As long as nothing has failed, the rows in
\* Processing are exactly those the running cycle still has to mark.
LeaseAccounted ==
  /\ pc \in {"waiting", "answered"} => leased \subseteq Processing
  /\ faults = 0 => Processing = todo

\* A row the worker deletes was committed by the server, whatever was lost,
\* answered late, repeated or interrupted; only queued changes are committed.
Queue == INSTANCE AtLeastOnce WITH
           Item <- Change,
           queued <- {c \in Change : status[c] # "None"},
           delivered <- committed,
           removed <- {c \in Change : status[c] = "Removed"}

ImplementsAtLeastOnce == Queue!Spec

\* A leased row is marked in the end: it is deleted or becomes Pending again
\* (docs/sync-spec.md, processing rules 4 and 5).
LeasesEnd == \A c \in Change : status[c] = "Processing" ~> status[c] # "Processing"

\* A change the server reported as accepted leaves the outbox.
AcceptedLeaves ==
  \A c \in Change :
    pc = "answered" /\ c \in accepted ~> status[c] = "Removed"

\* Every queued change gets its turn, even if the older rows always fail: their
\* backoffs grow until the batches have room for the younger ones.  It needs
\* fewer than PushBatchSize * Backoff(AttemptCap) older rows (README).
EveryChangeIsTried ==
  \A c \in Change : status[c] = "Pending" ~> status[c] = "Processing"
=============================================================================
