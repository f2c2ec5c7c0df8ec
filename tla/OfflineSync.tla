---------------------------- MODULE OfflineSync -----------------------------
(***************************************************************************)
(* The client and the server together: SyncOutbox pushing to               *)
(* DbSyncService.PushAsync, with a second device that writes the same      *)
(* entities.  SyncOutbox leaves open what the server accepts; here the     *)
(* versions of its rows decide, and a batch it cannot save fails as a      *)
(* whole.                                                                  *)
(*                                                                         *)
(* A request asks for the row of each change, one query at a time, and     *)
(* saves at the end; other requests commit in between.  Of a row only its  *)
(* version is kept (DbSync has its columns).  SyncLab.razor stamps a       *)
(* change with the time at which it queues it.                             *)
(***************************************************************************)
EXTENDS SyncOutbox

CONSTANTS Entity,     \* ids of categories and transactions
          EntityOf,   \* the entity of each change
          Handler,    \* bound: the server's requests besides the client's open one
          MaxAhead    \* bound: how far the other device's clock may be ahead

ASSUME EntityAssumption == EntityOf \in [Change -> Entity]
ASSUME AheadAssumption == MaxAhead \in Nat

VARIABLES
  deletes,    \* the queued changes that are deletes; others are upserts
  version,    \* UpdatedAt of the row of an entity, 0 if there is none
  own,        \* the DbContext of the client's open request
  serving,    \* given-up requests and those of the other device
  overtaken   \* history: entities saved over a commit made since they were read

serverSide == <<version, own, serving, overtaken>>
cloudVars == <<deletes, serverSide>>
allVars == <<vars, cloudVars>>

\* The versions there may be by now; 0 is that of no row.
Time == 0..clock + 1 + MaxAhead

\* What a request has done, the version each row had when it was read and the
\* version it has in the DbContext; 0 where no row is tracked, or none was there.
Context == [done : SUBSET Change, accepted : SUBSET Change,
            read : [Entity -> Time], held : [Entity -> Time]]
Fresh == [done |-> {}, accepted |-> {},
          read |-> [e \in Entity |-> 0], held |-> [e \in Entity |-> 0]]

\* A request nobody waits for; the other device's has no batch of this client.
Request == [batch : SUBSET Change, context : Context]
Idle == [batch |-> {}, context |-> Fresh]

CloudTypeOK ==
  /\ TypeOK
  /\ deletes \subseteq Change
  /\ version \in [Entity -> Time]
  /\ own \in Context
  /\ serving \in [Handler -> Request]
  /\ overtaken \subseteq Entity

CloudInit ==
  /\ Init
  /\ deletes = {}
  /\ version = [e \in Entity |-> 0]
  /\ own = Fresh
  /\ serving = [h \in Handler |-> Idle]
  /\ overtaken = {}

-----------------------------------------------------------------------------
(* The server                                                              *)

\* Time 1 is left for what the other device has written before.
UpdatedAt(c) == createdAt[c] + 1

Absent(e) == version[e] = 0
Upsert(c) == c \notin deletes

\* A row the context tracks is found as it is there, not as it is now.
Tracked(x, e) == x.held[e] # 0
Found(x, e) ==
  IF Absent(e) THEN 0 ELSE IF Tracked(x, e) THEN x.held[e] ELSE version[e]

\* Variant: the row is overwritten whatever its version.
WinsAlways(t, found) == TRUE

\* CompareVersion; an entity without a row has no version to lose against.
Wins(t, found) == t > found

\* Variant: a delete of an entity without a row is a conflict.
AcceptsExisting(x, c) ==
  Wins(UpdatedAt(c), Found(x, EntityOf[c])) /\ (Absent(EntityOf[c]) => Upsert(c))

Accepts(x, c) == Wins(UpdatedAt(c), Found(x, EntityOf[c]))

\* The version of the row in the context after c: a delete of an entity without
\* a row is accepted, but leaves none.
HeldAfter(x, c) ==
  LET e == EntityOf[c] IN
  IF Absent(e) /\ ~Upsert(c) THEN x.held[e]
  ELSE IF Accepts(x, c) THEN UpdatedAt(c) ELSE Found(x, e)

\* The context after the query and the comparison of change c.
Applied(x, c) ==
  LET e == EntityOf[c] IN
  [done |-> x.done \union {c},
   accepted |-> IF Accepts(x, c) THEN x.accepted \union {c} ELSE x.accepted,
   read |-> [x.read EXCEPT ![e] =
               IF Tracked(x, e) \/ HeldAfter(x, c) = 0 THEN @ ELSE version[e]],
   held |-> [x.held EXCEPT ![e] = HeldAfter(x, c)]]

\* The query of the second upsert does not see the row the first one has added
\* to the context; Add throws for the key and the batch fails.
AddThrows(x, c) ==
  Upsert(c) /\ Absent(EntityOf[c]) /\ Tracked(x, EntityOf[c])

\* The changes are applied in the order of the outbox.
CanApply(x, batch, c) == IsOldest(c, batch \ x.done) /\ ~AddThrows(x, c)

\* No other request has inserted a row this one has added.
CanSave(x, batch) ==
  /\ x.done = batch
  /\ \A e \in Entity : Tracked(x, e) /\ ~Absent(e) => x.read[e] # 0

\* The request is answered with 500.
CannotSave(x, batch) ==
  \/ \E c \in Change : IsOldest(c, batch \ x.done) /\ AddThrows(x, c)
  \/ x.done = batch /\ ~CanSave(x, batch)

\* Variant: a saved row gets the time of the save.
SaveStampsNow(x) ==
  /\ version' = [e \in Entity |-> IF x.held[e] # x.read[e] THEN clock + 2 + MaxAhead ELSE version[e]]
  /\ overtaken' = overtaken

\* Variant: the rows a request has added are not written, as if Add were left out.
SaveModified(x) ==
  /\ version' = [e \in Entity |->
                   IF x.held[e] # x.read[e] /\ x.read[e] # 0 THEN x.held[e] ELSE version[e]]
  /\ overtaken' = overtaken

\* SaveChanges: the changed rows are written, whatever they have become since.
Save(x) ==
  LET written == {e \in Entity : x.held[e] # x.read[e]} IN
  /\ version' = [e \in Entity |-> IF e \in written THEN x.held[e] ELSE version[e]]
  /\ overtaken' = overtaken \union {e \in written : x.read[e] # version[e]}

-----------------------------------------------------------------------------
(* The client's open request                                               *)

Query(c) ==
  /\ pc = "waiting"
  /\ CanApply(own, leased, c)
  /\ own' = Applied(own, c)
  /\ UNCHANGED <<vars, deletes, version, serving, overtaken>>

Serve ==
  /\ CanSave(own, leased)
  /\ Answer(own.accepted)
  /\ Save(own)
  /\ own' = Fresh
  /\ UNCHANGED <<deletes, serving>>

\* Status 500 for a batch that cannot be saved, or any other failure before the
\* commit.
ServeFails ==
  /\ RequestFails
  /\ own' = Fresh
  /\ UNCHANGED <<deletes, version, serving, overtaken>>

\* The server goes on with a request whose client has left.
Abandon ==
  /\ GiveUp
  /\ \E h \in Handler :
       /\ serving[h] = Idle
       /\ serving' = [serving EXCEPT ![h] = [batch |-> leased, context |-> own]]

\* The answer does not reach the client; the server may have committed already.
ServeUnheard ==
  /\ RequestGivenUp
  /\ Abandon
  /\ own' = Fresh
  /\ UNCHANGED <<deletes, version, overtaken>>

CrashOffline ==
  /\ Crash
  /\ Abandon \/ UNCHANGED <<late, serving>>
  /\ own' = Fresh
  /\ UNCHANGED <<deletes, version, overtaken>>

-----------------------------------------------------------------------------
(* The other requests                                                      *)

LateQuery(h) ==
  LET r == serving[h] IN
  /\ \E c \in Change :
       /\ CanApply(r.context, r.batch, c)
       /\ serving' = [serving EXCEPT ![h].context = Applied(r.context, c)]
  /\ UNCHANGED <<vars, deletes, version, own, overtaken>>

LateSave(h) ==
  LET x == serving[h].context IN
  /\ serving[h] # Idle
  /\ CanSave(x, serving[h].batch)
  /\ Save(x)
  /\ serving' = [serving EXCEPT ![h] = Idle]
  /\ \/ LateServe(x.accepted \intersect late)
     \/ x.accepted \intersect late = {} /\ UNCHANGED vars
  /\ UNCHANGED <<deletes, own>>

\* Status 500, or the server notices that the client is gone (RequestAborted).
LateEnds(h) ==
  /\ serving[h] # Idle
  /\ serving' = [serving EXCEPT ![h] = Idle]
  /\ UNCHANGED <<vars, deletes, version, own, overtaken>>

\* Another device pushes a change that wins against the row it reads: its time
\* may lie before that of queued changes, or tie with the next one.
OtherReads(h, e) ==
  /\ serving[h] = Idle
  /\ \E t \in Time :
       /\ Wins(t, version[e])
       /\ serving' = [serving EXCEPT ![h].context.read[e] = version[e],
                                     ![h].context.held[e] = t]
  /\ UNCHANGED <<vars, deletes, version, own, overtaken>>

-----------------------------------------------------------------------------
\* The user queues an upsert or a delete.
EnqueueOperation(c) ==
  /\ Enqueue(c)
  /\ deletes' \in {deletes, deletes \union {c}}
  /\ UNCHANGED serverSide

\* What the client does on its own.
Client ==
  /\ \/ Login \/ Start \/ Tick \/ Poll \/ Mark
     \/ StartFails \/ LeaseFails \/ MarkThrows \/ CatchThrows
  /\ UNCHANGED cloudVars

CloudExchange ==
  (\E c \in Change : Query(c)) \/ Serve \/ ServeFails \/ ServeUnheard

Others(h) ==
  LateQuery(h) \/ LateSave(h) \/ LateEnds(h) \/ \E e \in Entity : OtherReads(h, e)

CloudNext ==
  \/ Client
  \/ \E c \in Change : EnqueueOperation(c)
  \/ CloudExchange
  \/ CrashOffline
  \/ \E h \in Handler : Others(h)

CloudSpec == CloudInit /\ [][CloudNext]_allVars

\* The server's own answer; a batch that cannot be saved is answered with 500.
Answered == Serve \/ (CannotSave(own, leased) /\ ServeFails)

\* The client as in SyncOutbox.  The network may lose any number of requests and
\* answers, but if a change is pushed again and again one push is answered.
CloudFairness ==
  /\ WF_allVars(Tick /\ UNCHANGED cloudVars)
  /\ WF_allVars(Start /\ UNCHANGED cloudVars)
  /\ WF_allVars(Poll /\ UNCHANGED cloudVars)
  /\ WF_allVars(Mark /\ UNCHANGED cloudVars)
  /\ WF_allVars(CloudExchange)
  /\ \A c \in Change :
       []<>(c \in leased) => []<><<c \in leased /\ Answered>>_allVars

FairCloudSpec == CloudSpec /\ CloudFairness

-----------------------------------------------------------------------------
(* Properties                                                              *)

\* What leaves the outbox is on the server: after a lost answer, a late request,
\* a crash or a retry, the row of a removed upsert has its version or a newer one,
\* unless a request has saved it over a commit it had not seen.
RemovedIsStored ==
  \A c \in Change \ deletes :
    status[c] = "Removed" /\ EntityOf[c] \notin overtaken =>
      version[EntityOf[c]] >= UpdatedAt(c)

\* A row is set back only by a request that read it before another one committed
\* (the client's retry against its own late request included), and never below
\* the version that request has read.
FallsAreStale ==
  [][\A e \in Entity :
       version'[e] < version[e] =>
         \E x \in {own} \union {serving[h].context : h \in Handler} :
           x.read[e] # version[e] /\ x.read[e] < version'[e]]_allVars

\* Two upserts of one entity without a row are in the outbox.
Clash ==
  \E c, d \in {b \in Change : Upsert(b) /\ status[b] \in {"Pending", "Processing"}} :
    c # d /\ EntityOf[c] = EntityOf[d] /\ Absent(EntityOf[c])

Settled(c) ==
  status[c] \in {"None", "Removed"} \/ version[EntityOf[c]] >= UpdatedAt(c)

\* Without faults of the client, every queued change leaves the outbox or finds
\* its entity on the server in the same or a newer version, and does so again if
\* the row is set back, unless two upserts of a new entity fail each other's
\* batches for ever.
Settles ==
  <>[](faults = 0) /\ []<>~Clash => \A c \in Change : []<>Settled(c)
=============================================================================
