------------------------------- MODULE DbSync -------------------------------
(***************************************************************************)
(* DbSyncService.PushAsync behind POST /api/sync/push.  A request applies  *)
(* its changes one after another to the rows its DbContext tracks, each    *)
(* after a query of its own, and saves all of them at the end.  Several    *)
(* requests may run at once; between two queries, and between the last one *)
(* and the save, other requests may commit.                                *)
(***************************************************************************)
EXTENDS FinanceStore, Sequences

CONSTANTS Change,   \* the changes clients push, see ChangeType
          Batch,    \* the Changes lists of the requests
          NoView,
          NoData

\* at is SyncChangeDto.UpdatedAt, createdAt and payloadAt are the times of the
\* payload, deletedAt is the time of the deletion (0 is null) and valid says
\* whether ValidateChange lets it pass.
ChangeType ==
  [id : Nat, entity : Entity, op : {"Upsert", "Delete"}, at : Nat \ {0},
   createdAt : Nat, payloadAt : Nat, isDeleted : BOOLEAN, deletedAt : Nat,
   data : Data \union {Bad}, valid : BOOLEAN]

ASSUME ChangeAssumption == Change \subseteq ChangeType
ASSUME BatchAssumption == Batch \subseteq Seq(Change)

\* Clients stamp a change and its payload alike (SyncLab.razor).
ASSUME StampAssumption ==
  \A c \in Change :
    /\ c.op = "Upsert" => c.payloadAt = c.at
    /\ c.deletedAt \in {0, c.at}

VARIABLES
  pc,        \* per request: "idle" or "applying"
  todo,      \* its changes that are not applied yet
  accepted,  \* its AcceptedItems so far
  rejected,  \* its RejectedItems so far
  written,   \* the accepted changes that changed a tracked row
  acked,     \* every change a response reported as accepted
  landed     \* every written change that was saved

requestVars == <<pc, todo, accepted, rejected, written>>
vars == <<storeVars, requestVars, acked, landed>>

TypeOK ==
  /\ StoreTypeOK
  /\ pc \in [Handler -> {"idle", "applying"}]
  /\ todo \in [Handler -> Seq(Change)]
  /\ accepted \in [Handler -> SUBSET Change]
  /\ rejected \in [Handler -> SUBSET Change]
  /\ written \in [Handler -> SUBSET Change]
  /\ acked \subseteq Change
  /\ landed \subseteq Change

Init ==
  /\ StoreInit
  /\ pc = [h \in Handler |-> "idle"]
  /\ todo = [h \in Handler |-> <<>>]
  /\ accepted = [h \in Handler |-> {}]
  /\ rejected = [h \in Handler |-> {}]
  /\ written = [h \in Handler |-> {}]
  /\ acked = {}
  /\ landed = {}

Begin(h, batch) ==
  /\ pc[h] = "idle"
  /\ pc' = [pc EXCEPT ![h] = "applying"]
  /\ todo' = [todo EXCEPT ![h] = batch]
  /\ UNCHANGED <<storeVars, accepted, rejected, written, acked, landed>>

\* Variant: one DbContext shared by all requests outlives them.
EndSharedContext(h) ==
  /\ pc' = [pc EXCEPT ![h] = "idle"]
  /\ todo' = [todo EXCEPT ![h] = <<>>]
  /\ accepted' = [accepted EXCEPT ![h] = {}]
  /\ rejected' = [rejected EXCEPT ![h] = {}]
  /\ written' = [written EXCEPT ![h] = {}]
  /\ UNCHANGED tracker

\* The request is over: its context and its lists are gone.
End(h) ==
  /\ pc' = [pc EXCEPT ![h] = "idle"]
  /\ todo' = [todo EXCEPT ![h] = <<>>]
  /\ accepted' = [accepted EXCEPT ![h] = {}]
  /\ rejected' = [rejected EXCEPT ![h] = {}]
  /\ written' = [written EXCEPT ![h] = {}]
  /\ DisposeContext(h)

-----------------------------------------------------------------------------
(* One change of the batch                                                 *)

OrElse(t, default) == IF t = 0 THEN default ELSE t

\* A row for a key the database does not hold.
InsertedRow(c) ==
  LET created == NewRow(c.data, c.createdAt)
      updated == IF c.payloadAt = c.createdAt
                 THEN created
                 ELSE Rewrite(created, c.data, c.payloadAt)
  IN IF c.isDeleted
     THEN SoftDelete(updated, OrElse(c.deletedAt, c.payloadAt))
     ELSE updated

\* Variant: an upsert does not bring a deleted row back.
ChangedRowNoRestore(c, row) ==
  IF c.op = "Delete"
  THEN SoftDelete(row, OrElse(c.deletedAt, c.at))
  ELSE Rewrite(row, c.data, c.payloadAt)

\* A newer change applied to an existing row.
ChangedRow(c, row) ==
  LET updated == Rewrite(row, c.data, c.payloadAt) IN
  IF c.op = "Delete"
  THEN SoftDelete(row, OrElse(c.deletedAt, c.at))
  ELSE IF c.isDeleted
  THEN SoftDelete(updated, OrElse(c.deletedAt, c.payloadAt))
  ELSE IF row.deleted THEN Restore(updated, c.payloadAt) ELSE updated

\* Variant: the row is overwritten whatever its version.
WinsAlways(c, row) == TRUE

\* CompareVersion: the ids are those of one entity, the timestamps decide.
Wins(c, row) == c.at > row.updatedAt

AcceptItem(h, c) ==
  /\ accepted' = [accepted EXCEPT ![h] = @ \union {c}]
  /\ UNCHANGED rejected

RejectItem(h, c) ==
  /\ rejected' = [rejected EXCEPT ![h] = @ \union {c}]
  /\ UNCHANGED <<accepted, written>>

AcceptWrite(h, c) ==
  /\ AcceptItem(h, c)
  /\ written' = [written EXCEPT ![h] = @ \union {c}]

Invalid(h, c) ==
  /\ ~c.valid
  /\ RejectItem(h, c)
  /\ UNCHANGED tracker

\* A delete of a key without a row is accepted and leaves nothing behind.
DeleteAbsent(h, c) ==
  /\ c.valid
  /\ Found(h, c.entity) = NoRow
  /\ c.op = "Delete"
  /\ AcceptItem(h, c)
  /\ UNCHANGED <<written, tracker>>

\* Variant: the payload is not checked.
InsertUnchecked(h, c) ==
  /\ c.valid
  /\ Found(h, c.entity) = NoRow
  /\ c.op = "Upsert"
  /\ CanAdd(h, c.entity)
  /\ TrackAdded(h, c.entity, InsertedRow(c))
  /\ AcceptWrite(h, c)

Insert(h, c) ==
  /\ c.valid
  /\ Found(h, c.entity) = NoRow
  /\ c.op = "Upsert"
  /\ InsertedRow(c) # Thrown
  /\ CanAdd(h, c.entity)
  /\ TrackAdded(h, c.entity, InsertedRow(c))
  /\ AcceptWrite(h, c)

Conflict(h, c) ==
  /\ c.valid
  /\ Found(h, c.entity) # NoRow
  /\ ~Wins(c, Found(h, c.entity))
  /\ Track(h, c.entity, Found(h, c.entity))
  /\ RejectItem(h, c)

Overwrite(h, c) ==
  /\ c.valid
  /\ Found(h, c.entity) # NoRow
  /\ Wins(c, Found(h, c.entity))
  /\ ChangedRow(c, Found(h, c.entity)) # Thrown
  /\ Track(h, c.entity, ChangedRow(c, Found(h, c.entity)))
  /\ AcceptWrite(h, c)

\* A domain method throws, or Add does for a key added earlier in the batch.
Throws(h, c) ==
  LET row == Found(h, c.entity) IN
  /\ c.valid
  /\ IF row = NoRow
     THEN c.op = "Upsert" /\ (InsertedRow(c) = Thrown \/ ~CanAdd(h, c.entity))
     ELSE Wins(c, row) /\ ChangedRow(c, row) = Thrown

ApplyNext(h) ==
  LET c == Head(todo[h]) IN
  /\ pc[h] = "applying"
  /\ todo[h] # <<>>
  /\ \/ Invalid(h, c)
     \/ DeleteAbsent(h, c)
     \/ Insert(h, c)
     \/ Conflict(h, c)
     \/ Overwrite(h, c)
  /\ todo' = [todo EXCEPT ![h] = Tail(@)]
  /\ UNCHANGED <<rows, pc, acked, landed>>

\* The exception answers the whole request with status 500.
ApplyThrows(h) ==
  /\ pc[h] = "applying"
  /\ todo[h] # <<>>
  /\ Throws(h, Head(todo[h]))
  /\ End(h)
  /\ UNCHANGED <<rows, acked, landed>>

-----------------------------------------------------------------------------
(* SaveChangesAsync and the response                                       *)

\* The response is lost if the client is gone, or BuildCurrentCursorAsync throws,
\* after the commit.
Save(h) ==
  /\ pc[h] = "applying"
  /\ todo[h] = <<>>
  /\ CanSave(h)
  /\ rows' = SavedRows(h)
  /\ landed' = landed \union written[h]
  /\ acked' = acked \union accepted[h] \/ UNCHANGED acked
  /\ End(h)

\* A constraint fails: status 500, nothing of the batch is saved.
SaveThrows(h) ==
  /\ pc[h] = "applying"
  /\ todo[h] = <<>>
  /\ ~CanSave(h)
  /\ End(h)
  /\ UNCHANGED <<rows, acked, landed>>

\* The client is gone (RequestAborted), or the database fails, before the commit.
Abort(h) ==
  /\ pc[h] = "applying"
  /\ End(h)
  /\ UNCHANGED <<rows, acked, landed>>

Next ==
  \E h \in Handler :
    \/ \E batch \in Batch : Begin(h, batch)
    \/ ApplyNext(h)
    \/ ApplyThrows(h)
    \/ Save(h)
    \/ SaveThrows(h)
    \/ Abort(h)

Spec == Init /\ [][Next]_vars

-----------------------------------------------------------------------------
(* Properties                                                              *)

\* What a change leaves of its entity, and what a row shows of it: the data of a
\* tombstone does not count.
IsTombstone(c) == c.op = "Delete" \/ c.isDeleted
DeletedAtOf(c) == IF IsTombstone(c) THEN c.at ELSE 0
ViewOf(c) ==
  [at |-> c.at, deleted |-> IsTombstone(c),
   data |-> IF IsTombstone(c) THEN NoData ELSE c.data]
ViewOfRow(row) ==
  IF row = NoRow THEN NoView
  ELSE [at |-> row.updatedAt, deleted |-> row.deleted,
        data |-> IF row.deleted THEN NoData ELSE row.data]

\* Requests that do not overlap keep the rows a last-writer-wins store: a batch
\* lands as a whole, every row is the payload of its newest landed change, and
\* neither a batch that fails nor a change that loses leaves a trace.
Lww == INSTANCE LwwStore WITH
         Write <- {[entity |-> c.entity, view |-> ViewOf(c)] : c \in Change},
         reg <- [e \in Entity |-> ViewOfRow(rows[e])],
         accepted <- {[entity |-> c.entity, view |-> ViewOf(c)] : c \in landed}

ImplementsLww == Lww!Spec

\* A row is never updated before it was created and a tombstone carries the time
\* of its last change, so that the deletion and the version agree.
AuditConsistent ==
  \A e \in {d \in Entity : rows[d] # NoRow} :
    /\ rows[e].createdAt <= rows[e].updatedAt
    /\ rows[e].deletedAt = IF rows[e].deleted THEN rows[e].updatedAt ELSE 0

\* Whatever overlaps, every column of a row was written by a change that landed,
\* and CreatedAt stays a lower bound of UpdatedAt: an aborted or failed request
\* leaves nothing in a table.
ColumnsFromLanded ==
  \A e \in {d \in Entity : rows[d] # NoRow} :
    LET mine == {c \in landed : c.entity = e} IN
    /\ rows[e].createdAt \in {c.createdAt : c \in mine}
    /\ rows[e].updatedAt \in {c.at : c \in mine}
    /\ rows[e].data \in {c.data : c \in mine}
    /\ rows[e].deletedAt \in {DeletedAtOf(c) : c \in mine}
    /\ \E c \in mine : rows[e].deleted <=> IsTombstone(c)
    /\ rows[e].createdAt <= rows[e].updatedAt

\* "Newer timestamp wins" (docs/sync-spec.md, Conflict resolution 2): a row never
\* goes back to an older version.
VersionsRise ==
  [][\A e \in Entity : rows[e] # NoRow => rows'[e].updatedAt >= rows[e].updatedAt]_vars

\* An upsert that was reported as accepted is stored, or replaced by a newer change,
\* as long as requests do not overlap: aborts, exceptions and lost responses of
\* this and of other requests take nothing of it back.
AckedUpsertsStay ==
  \A c \in acked :
    c.op = "Upsert" =>
      rows[c.entity] # NoRow /\ rows[c.entity].updatedAt >= c.at

\* The same rule for what the client was told: an entity never shows a version
\* older than a change that was reported as accepted.
AckedIsKept ==
  \A c \in acked :
    IF rows[c.entity] = NoRow
    THEN c.op = "Delete"
    ELSE rows[c.entity].updatedAt >= c.at
=============================================================================
