----------------------------- MODULE FinanceApi -----------------------------
(***************************************************************************)
(* The requests of the web client to /api/categories and                   *)
(* /api/transactions, overlapping with each other and with the pushes of   *)
(* DbSync on one database.  A request asks the database for what it needs, *)
(* one query at a time, changes its tracked row with the server's time,    *)
(* and saves; between any two of these steps other requests may commit.    *)
(*                                                                         *)
(* Requests that are refused after a query (400, 404, 409) change nothing. *)
(***************************************************************************)
EXTENDS DbSync

CONSTANTS Call,     \* the requests: [op, entity, data]
          NoCall,
          MaxTime,  \* bound on the server's clock
          MaxCalls  \* bound on the web requests

CallType == [op : {"Create", "Update", "Delete"}, entity : Entity,
             data : Data \union {Bad}]

ASSUME CallAssumption == Call \subseteq CallType /\ NoCall \notin Call
ASSUME BoundAssumption == MaxTime \in Nat \ {0} /\ MaxCalls \in Nat

VARIABLES now,    \* DateTime.UtcNow on the server
          call,   \* per handler: the web request it serves
          calls   \* how many there have been

apiVars == <<vars, now, call, calls>>

Asking == {"checking", "ready", "saving"}

\* A handler that serves nothing holds nothing.
ApiTypeOK ==
  /\ now \in 1..MaxTime
  /\ calls \in 0..MaxCalls
  /\ call \in [Handler -> Call \union {NoCall}]
  /\ \A h \in Handler :
       /\ pc[h] \in {"idle", "applying"} \union Asking
       /\ pc[h] \in Asking <=> call[h] # NoCall
       /\ pc[h] = "idle" => tracker[h] = EmptyContext

ApiInit ==
  /\ Init
  /\ now = 1
  /\ call = [h \in Handler |-> NoCall]
  /\ calls = 0

\* The requests' lists are those of pushes, and a web request has none.
NoLists == UNCHANGED <<todo, accepted, rejected, written, acked>>

Enter(h, w, state) ==
  /\ pc[h] = "idle"
  /\ calls < MaxCalls
  /\ calls' = calls + 1
  /\ pc' = [pc EXCEPT ![h] = state]
  /\ call' = [call EXCEPT ![h] = w]
  /\ NoLists
  /\ UNCHANGED <<rows, landed, now>>

Leave(h) ==
  /\ End(h)
  /\ call' = [call EXCEPT ![h] = NoCall]
  /\ UNCHANGED <<acked, now, calls>>

-----------------------------------------------------------------------------
(* Queries; the query filter hides what is soft-deleted                    *)

IsLive(e) == rows[e] # NoRow /\ ~rows[e].deleted

\* A Guid no row and no request has.
IsFresh(e) ==
  /\ rows[e] = NoRow
  /\ e \notin {call[h].entity : h \in {g \in Handler : call[g] # NoCall}}

\* POST /api/categories goes on if no live category has the name.
AskName(h, w) ==
  /\ w.op = "Create" /\ w.entity \in Category /\ IsFresh(w.entity)
  /\ \A c \in Category : IsLive(c) => rows[c].data # w.data
  /\ Enter(h, w, "ready")
  /\ UNCHANGED tracker

\* POST /api/transactions only checks the category, if it has one.
AskNothing(h, w) ==
  /\ w.op = "Create" /\ w.entity \in Transaction /\ IsFresh(w.entity)
  /\ Enter(h, w, IF w.data \in Category THEN "checking" ELSE "ready")
  /\ UNCHANGED tracker

\* PUT and DELETE start from the live row.
AskRow(h, w) ==
  /\ w.op \in {"Update", "Delete"}
  /\ IsLive(w.entity)
  /\ Enter(h, w, IF w.op = "Update" /\ w.data \in Category THEN "checking" ELSE "ready")
  /\ Track(h, w.entity, rows[w.entity])

\* The category of a transaction is live when it is looked up.
AskCategory(h) ==
  /\ pc[h] = "checking"
  /\ IsLive(call[h].data)
  /\ pc' = [pc EXCEPT ![h] = "ready"]
  /\ NoLists
  /\ UNCHANGED <<storeVars, landed, now, call, calls>>

CategoryMissing(h) ==
  /\ pc[h] = "checking"
  /\ ~IsLive(call[h].data)
  /\ Leave(h)
  /\ UNCHANGED <<rows, landed>>

-----------------------------------------------------------------------------
(* The change and the save                                                 *)

Edited(h) ==
  LET w == call[h] IN
  IF w.op = "Create" THEN NewRow(w.data, now)
  ELSE LET row == tracker[h][w.entity].current IN
       IF w.op = "Update" THEN Rewrite(row, w.data, now) ELSE SoftDelete(row, now)

Edit(h) ==
  /\ pc[h] = "ready"
  /\ Edited(h) # Thrown
  /\ IF call[h].op = "Create"
     THEN TrackAdded(h, call[h].entity, Edited(h))
     ELSE Track(h, call[h].entity, Edited(h))
  /\ pc' = [pc EXCEPT ![h] = "saving"]
  /\ NoLists
  /\ UNCHANGED <<rows, landed, now, call, calls>>

\* A name, an amount or a time the domain refuses.
EditThrows(h) ==
  /\ pc[h] = "ready"
  /\ Edited(h) = Thrown
  /\ Leave(h)
  /\ UNCHANGED <<rows, landed>>

\* What a request has written, as a change.
AsChange(h) ==
  LET w == call[h]
      at == tracker[h][w.entity].current.updatedAt
  IN [id |-> 0, entity |-> w.entity,
      op |-> IF w.op = "Delete" THEN "Delete" ELSE "Upsert", at |-> at,
      createdAt |-> IF w.op = "Create" THEN at ELSE 0,
      payloadAt |-> at, isDeleted |-> FALSE, deletedAt |-> 0,
      data |-> IF w.op = "Delete" THEN NoCategory ELSE w.data, valid |-> TRUE]

WebSave(h) ==
  /\ pc[h] = "saving"
  /\ CanSave(h)
  /\ rows' = SavedRows(h)
  /\ landed' = landed \union {AsChange(h)}
  /\ Leave(h)

WebSaveThrows(h) ==
  /\ pc[h] = "saving"
  /\ ~CanSave(h)
  /\ Leave(h)
  /\ UNCHANGED <<rows, landed>>

\* The client is gone (RequestAborted), or the database fails.
WebAbort(h) ==
  /\ pc[h] \in Asking
  /\ Leave(h)
  /\ UNCHANGED <<rows, landed>>

WebStep(h) ==
  \/ \E w \in Call : AskName(h, w) \/ AskNothing(h, w) \/ AskRow(h, w)
  \/ AskCategory(h)
  \/ CategoryMissing(h)
  \/ Edit(h)
  \/ EditThrows(h)
  \/ WebSave(h)
  \/ WebSaveThrows(h)
  \/ WebAbort(h)

Tick ==
  /\ now < MaxTime
  /\ now' = now + 1
  /\ UNCHANGED <<vars, call, calls>>

\* What clients are told of their pushes plays no part here: acked is not kept.
ApiNext ==
  \/ Next /\ UNCHANGED <<now, call, calls, acked>>
  \/ \E h \in Handler : WebStep(h)
  \/ Tick

ApiSpec == ApiInit /\ [][ApiNext]_apiVars

-----------------------------------------------------------------------------
(* Properties                                                              *)

\* Only a pushed upsert brings a deleted row back: an edit that read the row
\* before the deletion was committed does not undo it, although it is saved after.
OnlyPushesRestore ==
  [][\A e \in Entity :
       rows[e] # NoRow /\ rows[e].deleted /\ ~rows'[e].deleted =>
         \E h \in Handler : \E c \in written[h] :
           c.entity = e /\ ~IsTombstone(c) /\ rows'[e].updatedAt = c.at]_apiVars

ReadBefore(h, e) == tracker[h][e] # NotTracked /\ tracker[h][e].original # NoRow

\* A row's version falls only to a push that read an older version than the one it
\* overwrites, or to a web edit, which carries the time of a server whose clock may
\* be behind the devices'.  A push never takes a row below the version it has read.
FallsAreExplained ==
  [][\A e \in Entity :
       rows[e] # NoRow /\ rows'[e].updatedAt < rows[e].updatedAt =>
         \E h \in Handler :
           /\ pc'[h] = "idle"
           /\ \/ /\ pc[h] = "applying" /\ ReadBefore(h, e)
                 /\ tracker[h][e].original.updatedAt < rows'[e].updatedAt
              \/ /\ pc[h] = "saving" /\ call[h].entity = e
                 /\ rows'[e].updatedAt <= now]_apiVars

\* A row is created once: of two requests that both found no row only one is saved,
\* and neither a push, which brings a CreatedAt of its own, nor an edit replaces
\* the identity of a row that is there.
CreatedOnce ==
  [][\A e \in Entity :
       rows[e] # NoRow =>
         rows'[e] # NoRow /\ rows'[e].createdAt = rows[e].createdAt]_apiVars
=============================================================================
