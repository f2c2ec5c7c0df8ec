---------------------------- MODULE DbSyncProofs ----------------------------
(***************************************************************************)
(* Proofs about DbSync: the domain methods, the types for any number of    *)
(* requests, and for one request at a time that the tables are a           *)
(* last-writer-wins store with consistent audit columns, that versions     *)
(* rise and that what was acknowledged stays.                              *)
(***************************************************************************)
EXTENDS DbSync, TLAPS

\* AuditConsistent, of one row.
RowConsistent(row) ==
  /\ row.createdAt <= row.updatedAt
  /\ row.deletedAt = IF row.deleted THEN row.updatedAt ELSE 0

-----------------------------------------------------------------------------
(* The domain methods                                                      *)

LEMMA NewRowFacts ==
  ASSUME NEW data \in Data \union {Bad}, NEW at \in Nat, NewRow(data, at) # Thrown
  PROVE  LET r == NewRow(data, at) IN
         /\ r \in Row /\ r.createdAt = at /\ r.updatedAt = at
         /\ r.data = data /\ ~r.deleted /\ r.deletedAt = 0
BY DEF NewRow, Row

LEMMA RewriteFacts ==
  ASSUME NEW row \in Row, NEW data \in Data \union {Bad}, NEW at \in Nat,
         Rewrite(row, data, at) # Thrown
  PROVE  LET r == Rewrite(row, data, at) IN
         /\ r \in Row /\ r.createdAt = row.createdAt /\ r.updatedAt = at
         /\ r.data = data /\ r.deleted = row.deleted /\ r.deletedAt = row.deletedAt
         /\ row.createdAt <= at
BY DEF Rewrite, Mutate, Row, Column

LEMMA SoftDeleteFacts ==
  ASSUME NEW row \in Row, NEW at \in Nat, SoftDelete(row, at) # Thrown
  PROVE  LET r == SoftDelete(row, at) IN
         /\ r \in Row /\ r.createdAt = row.createdAt /\ r.updatedAt = at
         /\ r.data = row.data /\ r.deleted /\ r.deletedAt = at
         /\ row.createdAt <= at
<1> DEFINE r == SoftDelete(row, at)
<1>1. /\ row.createdAt <= at
      /\ r = [f \in Column |-> IF f \in {"deleted", "deletedAt"}
                               THEN [deleted |-> TRUE, deletedAt |-> at][f]
                               ELSE IF f = "updatedAt" THEN at ELSE row[f]]
      BY DEF SoftDelete, Mutate, Row
<1> HIDE DEF r
<1>2. /\ r.createdAt = row.createdAt /\ r.updatedAt = at /\ r.data = row.data
      /\ r.deleted /\ r.deletedAt = at
      BY <1>1 DEF Column
<1>3. r \in Row
      BY <1>1 DEF Row, Column
<1> QED BY <1>1, <1>2, <1>3 DEF r

LEMMA RestoreFacts ==
  ASSUME NEW row \in Row, NEW at \in Nat, Restore(row, at) # Thrown
  PROVE  LET r == Restore(row, at) IN
         /\ r \in Row /\ r.createdAt = row.createdAt /\ r.updatedAt = at
         /\ r.data = row.data /\ ~r.deleted /\ r.deletedAt = 0
         /\ row.createdAt <= at
<1> DEFINE r == Restore(row, at)
<1>1. /\ row.createdAt <= at
      /\ r = [f \in Column |-> IF f \in {"deleted", "deletedAt"}
                               THEN [deleted |-> FALSE, deletedAt |-> 0][f]
                               ELSE IF f = "updatedAt" THEN at ELSE row[f]]
      BY DEF Restore, Mutate, Row
<1> HIDE DEF r
<1>2. /\ r.createdAt = row.createdAt /\ r.updatedAt = at /\ r.data = row.data
      /\ ~r.deleted /\ r.deletedAt = 0
      BY <1>1 DEF Column
<1>3. r \in Row
      BY <1>1 DEF Row, Column
<1> QED BY <1>1, <1>2, <1>3 DEF r

LEMMA ThrownStaysThrown ==
  ASSUME NEW data, NEW at
  PROVE  /\ Rewrite(Thrown, data, at) = Thrown
         /\ SoftDelete(Thrown, at) = Thrown
         /\ Restore(Thrown, at) = Thrown
BY DEF Rewrite, SoftDelete, Restore, Mutate

LEMMA ChangeFacts ==
  ASSUME NEW c \in Change
  PROVE  /\ c.at \in Nat /\ c.createdAt \in Nat /\ c.entity \in Entity
         /\ c.data \in Data \union {Bad} /\ c.isDeleted \in BOOLEAN
         /\ c.op \in {"Upsert", "Delete"}
         /\ c.op = "Upsert" => c.payloadAt = c.at
         /\ OrElse(c.deletedAt, c.at) = c.at
BY ChangeAssumption, StampAssumption DEF ChangeType, OrElse

LEMMA InsertedFacts ==
  ASSUME NEW c \in Change, c.op = "Upsert", InsertedRow(c) # Thrown
  PROVE  LET r == InsertedRow(c) IN
         /\ r \in Row /\ r.createdAt = c.createdAt /\ r.updatedAt = c.at
         /\ r.data = c.data /\ (r.deleted <=> IsTombstone(c)) /\ RowConsistent(r)
<1> DEFINE created == NewRow(c.data, c.createdAt)
           updated == IF c.at = c.createdAt THEN created ELSE Rewrite(created, c.data, c.at)
           inserted == IF c.isDeleted THEN SoftDelete(updated, c.at) ELSE updated
<1>1. InsertedRow(c) = inserted
      BY ChangeFacts DEF InsertedRow
<1>2. updated # Thrown /\ created # Thrown
      BY <1>1, ThrownStaysThrown
<1>3. /\ created \in Row /\ created.createdAt = c.createdAt
      /\ created.updatedAt = c.createdAt /\ created.data = c.data /\ ~created.deleted
      /\ created.deletedAt = 0
      BY <1>2, NewRowFacts, ChangeFacts
<1> HIDE DEF created
<1>4. /\ updated \in Row /\ updated.createdAt = c.createdAt
      /\ updated.updatedAt = c.at /\ updated.data = c.data /\ ~updated.deleted
      /\ updated.deletedAt = 0 /\ c.createdAt <= c.at
  <2>1. CASE c.at = c.createdAt
        BY <1>3, <2>1, ChangeFacts
  <2>2. CASE c.at # c.createdAt
    <3>1. updated = Rewrite(created, c.data, c.at)
          BY <2>2
    <3> QED BY <1>2, <1>3, <3>1, RewriteFacts, ChangeFacts
  <2> QED BY <2>1, <2>2
<1> HIDE DEF updated
<1>5. CASE c.isDeleted
  <2>1. inserted = SoftDelete(updated, c.at)
        BY <1>5
  <2>2. /\ inserted \in Row /\ inserted.createdAt = c.createdAt
        /\ inserted.updatedAt = c.at /\ inserted.data = c.data
        /\ inserted.deleted /\ inserted.deletedAt = c.at
        BY <1>1, <1>4, <2>1, SoftDeleteFacts, ChangeFacts
  <2> QED BY <1>1, <1>4, <1>5, <2>2 DEF RowConsistent, IsTombstone
<1>6. CASE ~c.isDeleted
      BY <1>1, <1>4, <1>6 DEF RowConsistent, IsTombstone
<1> QED BY <1>5, <1>6

LEMMA ChangedFacts ==
  ASSUME NEW c \in Change, NEW row \in Row, ChangedRow(c, row) # Thrown
  PROVE  LET r == ChangedRow(c, row) IN
         /\ r \in Row /\ r.createdAt = row.createdAt /\ r.updatedAt = c.at
         /\ r.data \in {row.data, c.data} /\ row.createdAt <= c.at
         /\ IsTombstone(c) \/ r.data = c.data
         /\ r.deleted <=> IsTombstone(c)
         /\ r.deletedAt \in {row.deletedAt, DeletedAtOf(c)}
         /\ RowConsistent(row) => RowConsistent(r)
<1> USE DEF DeletedAtOf
<1> DEFINE updated == Rewrite(row, c.data, c.at)
           r == ChangedRow(c, row)
<1>1. CASE c.op = "Delete"
  <2>1. r = SoftDelete(row, c.at)
        BY <1>1, ChangeFacts DEF ChangedRow
  <2> QED BY <1>1, <2>1, SoftDeleteFacts, ChangeFacts DEF IsTombstone, RowConsistent
<1>2. CASE c.op = "Upsert"
  <2>1. r = IF c.isDeleted THEN SoftDelete(updated, c.at)
            ELSE IF row.deleted THEN Restore(updated, c.at) ELSE updated
        BY <1>2, ChangeFacts DEF ChangedRow
  <2>2. updated # Thrown
        BY <2>1, ThrownStaysThrown
  <2>3. /\ updated \in Row /\ updated.createdAt = row.createdAt
        /\ updated.updatedAt = c.at /\ updated.data = c.data
        /\ updated.deleted = row.deleted /\ updated.deletedAt = row.deletedAt
        /\ row.createdAt <= c.at
        BY <2>2, RewriteFacts, ChangeFacts
  <2> HIDE DEF updated
  <2>4. CASE c.isDeleted
    <3>1. r = SoftDelete(updated, c.at)
          BY <2>1, <2>4
    <3> QED BY <2>3, <2>4, <3>1, SoftDeleteFacts, ChangeFacts DEF IsTombstone, RowConsistent
  <2>5. CASE ~c.isDeleted /\ row.deleted
    <3>1. r = Restore(updated, c.at)
          BY <2>1, <2>5
    <3> QED BY <1>2, <2>3, <2>5, <3>1, RestoreFacts, ChangeFacts DEF IsTombstone, RowConsistent
  <2>6. CASE ~c.isDeleted /\ ~row.deleted
        BY <1>2, <2>1, <2>3, <2>6 DEF IsTombstone, RowConsistent
  <2> QED BY <2>4, <2>5, <2>6, ChangeFacts
<1> QED BY <1>1, <1>2, ChangeFacts
-----------------------------------------------------------------------------
(* Types, for any number of requests                                       *)

\* A row that was read stays in its table, so that a save finds it.
KeysStay ==
  \A h \in Handler, e \in Entity :
    tracker[h][e] # NotTracked /\ tracker[h][e].original # NoRow => rows[e] # NoRow

\* The inductive invariant of the types.
TypeInv == TypeOK /\ KeysStay

LEMMA ReadTyped ==
  ASSUME TypeInv, NEW h \in Handler, NEW e \in Entity
  PROVE  /\ rows[e] \in Row \union {NoRow}
         /\ tracker[h][e] # NotTracked => tracker[h][e] \in Entry
         /\ Found(h, e) \in Row \union {NoRow}
         /\ Found(h, e) # NoRow => rows[e] # NoRow
BY DEF TypeInv, TypeOK, StoreTypeOK, Found, Entry

LEMMA ReadNat ==
  ASSUME TypeInv, NEW e \in Entity, rows[e] # NoRow
  PROVE  rows[e].updatedAt \in Nat
BY DEF TypeInv, TypeOK, StoreTypeOK, Row

LEMMA SavedTyped ==
  ASSUME TypeInv, NEW h \in Handler, NEW e \in Entity
  PROVE  /\ SavedRows(h)[e] = Saved(rows[e], tracker[h][e])
         /\ SavedRows(h)[e] \in Row \union {NoRow}
         /\ rows[e] # NoRow => SavedRows(h)[e] # NoRow
<1> DEFINE t == tracker[h][e]
           saved == SavedRows(h)[e]
<1>1. saved = Saved(rows[e], t) /\ rows[e] \in Row \union {NoRow}
      BY ReadTyped DEF SavedRows
<1>2. CASE t = NotTracked
      BY <1>1, <1>2 DEF Saved
<1>3. CASE t # NotTracked /\ t.original = NoRow
      BY <1>1, <1>3, ReadTyped, DistinctAssumption DEF Saved, Entry
<1>4. CASE t # NotTracked /\ t.original # NoRow
  <2>1. saved = [f \in Column |-> IF t.current[f] = t.original[f]
                                 THEN rows[e][f] ELSE t.current[f]]
        BY <1>1, <1>4 DEF Saved
  <2>2. t.current \in Row /\ rows[e] \in Row
        BY <1>1, <1>4, ReadTyped DEF Entry, TypeInv, KeysStay
  <2> HIDE DEF saved
  <2>3. saved \in Row
        BY <2>1, <2>2 DEF Row, Column
  <2> QED BY <1>1, <2>3, DistinctAssumption DEF saved
<1> QED BY <1>2, <1>3, <1>4

LEMMA TrackTyped ==
  ASSUME TypeInv, NEW h \in Handler, NEW e \in Entity, NEW row \in Row,
         UNCHANGED rows,
         \/ Track(h, e, row) /\ rows[e] # NoRow
         \/ TrackAdded(h, e, row)
  PROVE  StoreTypeOK' /\ KeysStay'
<1>1. PICK original \in Row \union {NoRow} :
        /\ tracker' = [tracker EXCEPT ![h][e] = [original |-> original, current |-> row]]
        /\ original # NoRow => rows[e] # NoRow
  <2>1. CASE TrackAdded(h, e, row)
        BY <2>1 DEF TrackAdded
  <2>2. CASE Track(h, e, row) /\ rows[e] # NoRow
    <3> DEFINE original == IF tracker[h][e] = NotTracked
                           THEN rows[e] ELSE tracker[h][e].original
    <3>1. original \in Row \union {NoRow}
          BY ReadTyped DEF Entry
    <3>2. tracker' = [tracker EXCEPT ![h][e] = [original |-> original, current |-> row]]
          BY <2>2 DEF Track, TypeInv, TypeOK, StoreTypeOK
    <3> QED BY <2>2, <3>1, <3>2
  <2> QED BY <2>1, <2>2
<1> DEFINE t == [original |-> original, current |-> row]
<1>2. t \in Entry /\ t.original = original
      BY DEF Entry
<1> HIDE DEF t
<1>3. \A g \in Handler, d \in Entity :
        tracker'[g][d] = IF g = h /\ d = e THEN t ELSE tracker[g][d]
      BY <1>1 DEF TypeInv, TypeOK, StoreTypeOK, t
<1>4. StoreTypeOK'
      BY <1>1, <1>2 DEF TypeInv, TypeOK, StoreTypeOK, t
<1>5. KeysStay'
      BY <1>1, <1>2, <1>3 DEF TypeInv, KeysStay
<1> QED BY <1>4, <1>5

LEMMA HeadTail ==
  ASSUME TypeInv, NEW h \in Handler, todo[h] # <<>>
  PROVE  Head(todo[h]) \in Change /\ Tail(todo[h]) \in Seq(Change)
BY DEF TypeInv, TypeOK

LEMMA ApplyTyped ==
  ASSUME TypeInv, NEW h \in Handler, ApplyNext(h)
  PROVE  TypeInv'
<1> DEFINE c == Head(todo[h])
<1>1. /\ c \in Change /\ Tail(todo[h]) \in Seq(Change) /\ c.entity \in Entity
      /\ UNCHANGED <<rows, pc, acked, landed>>
      /\ todo' = [todo EXCEPT ![h] = Tail(@)]
      BY HeadTail, ChangeFacts DEF ApplyNext
<1> HIDE DEF c
<1>2. /\ accepted' \in [Handler -> SUBSET Change]
      /\ rejected' \in [Handler -> SUBSET Change]
      /\ written' \in [Handler -> SUBSET Change]
  <2>1. /\ accepted' \in {accepted, [accepted EXCEPT ![h] = @ \union {c}]}
        /\ rejected' \in {rejected, [rejected EXCEPT ![h] = @ \union {c}]}
        /\ written' \in {written, [written EXCEPT ![h] = @ \union {c}]}
        BY DEF ApplyNext, Invalid, DeleteAbsent, Insert, Conflict, Overwrite,
               AcceptItem, AcceptWrite, RejectItem, c
  <2>2. \A f \in [Handler -> SUBSET Change] :
          [f EXCEPT ![h] = @ \union {c}] \in [Handler -> SUBSET Change]
        BY <1>1
  <2> QED BY <2>1, <2>2 DEF TypeInv, TypeOK
<1>3. StoreTypeOK' /\ KeysStay'
  <2>1. CASE Invalid(h, c) \/ DeleteAbsent(h, c)
        BY <1>1, <2>1 DEF Invalid, DeleteAbsent, TypeInv, TypeOK, StoreTypeOK, KeysStay
  <2>2. CASE Insert(h, c)
        BY <1>1, <2>2, InsertedFacts, TrackTyped DEF Insert
  <2>3. CASE Conflict(h, c)
        BY <1>1, <2>3, ReadTyped, TrackTyped DEF Conflict
  <2>4. CASE Overwrite(h, c)
        BY <1>1, <2>4, ReadTyped, ChangedFacts, TrackTyped DEF Overwrite
  <2> QED BY <2>1, <2>2, <2>3, <2>4 DEF ApplyNext, c
<1> QED BY <1>1, <1>2, <1>3 DEF TypeInv, TypeOK

LEMMA EndTyped ==
  ASSUME TypeInv, NEW h \in Handler, End(h), rows' \in {rows, SavedRows(h)},
         landed' \subseteq Change, acked' \subseteq Change
  PROVE  TypeInv'
<1>1. /\ rows' \in [Entity -> Row \union {NoRow}]
      /\ \A e \in Entity : rows[e] # NoRow => rows'[e] # NoRow
  <2>1. CASE rows' = rows
        BY <2>1 DEF TypeInv, TypeOK, StoreTypeOK
  <2>2. CASE rows' = SavedRows(h)
    <3>1. \A e \in Entity : /\ rows'[e] \in Row \union {NoRow}
                            /\ rows[e] # NoRow => rows'[e] # NoRow
          BY <2>2, SavedTyped
    <3> QED BY <2>2, <3>1 DEF SavedRows
  <2> QED BY <2>1, <2>2
<1>2. /\ tracker' = [tracker EXCEPT ![h] = EmptyContext]
      /\ EmptyContext \in [Entity -> Entry \union {NotTracked}]
      BY DEF End, DisposeContext, EmptyContext
<1>3. \A g \in Handler : tracker'[g] = IF g = h THEN EmptyContext ELSE tracker[g]
      BY <1>2 DEF TypeInv, TypeOK, StoreTypeOK
<1>4. StoreTypeOK'
      BY <1>1, <1>2 DEF TypeInv, TypeOK, StoreTypeOK
<1>5. KeysStay'
      BY <1>1, <1>3 DEF TypeInv, KeysStay, EmptyContext
<1>6. /\ pc' \in [Handler -> {"idle", "applying"}]
      /\ todo' \in [Handler -> Seq(Change)]
      /\ accepted' \in [Handler -> SUBSET Change]
      /\ rejected' \in [Handler -> SUBSET Change]
      /\ written' \in [Handler -> SUBSET Change]
  <2>1. <<>> \in Seq(Change) /\ {} \in SUBSET Change
        OBVIOUS
  <2> QED BY <2>1 DEF End, TypeInv, TypeOK
<1> QED BY <1>4, <1>5, <1>6 DEF TypeInv, TypeOK

LEMMA SaveTyped ==
  ASSUME TypeInv, NEW h \in Handler, Save(h)
  PROVE  TypeInv'
<1>1. landed' \subseteq Change /\ acked' \subseteq Change
      BY DEF Save, TypeInv, TypeOK
<1> QED BY <1>1, EndTyped DEF Save

LEMMA TypeInit == Init => TypeInv
<1>1. <<>> \in Seq(Change)
      OBVIOUS
<1> QED BY <1>1 DEF Init, StoreInit, EmptyContext, TypeInv, TypeOK, StoreTypeOK, KeysStay

LEMMA TypeNext == TypeInv /\ [Next]_vars => TypeInv'
<1> SUFFICES ASSUME TypeInv, [Next]_vars PROVE TypeInv'
    OBVIOUS
<1>1. ASSUME NEW h \in Handler, NEW batch \in Batch, Begin(h, batch) PROVE TypeInv'
      BY <1>1, BatchAssumption
      DEF Begin, storeVars, TypeInv, TypeOK, StoreTypeOK, KeysStay
<1>2. ASSUME NEW h \in Handler, ApplyThrows(h) \/ SaveThrows(h) \/ Abort(h)
      PROVE  TypeInv'
      BY <1>2, EndTyped DEF ApplyThrows, SaveThrows, Abort, TypeInv, TypeOK
<1>3. CASE UNCHANGED vars
      BY <1>3 DEF vars, storeVars, requestVars, TypeInv, TypeOK, StoreTypeOK, KeysStay
<1> QED BY <1>1, <1>2, <1>3, ApplyTyped, SaveTyped DEF Next

\* For any number of overlapping requests: the tables, the contexts and the lists
\* of the requests have their types; a save never meets a row that is gone.
THEOREM DbTypeCorrect == Spec => []TypeOK
<1>1. TypeInv => TypeOK
      BY DEF TypeInv
<1> QED BY <1>1, TypeInit, TypeNext, PTL DEF Spec

-----------------------------------------------------------------------------
(* Requests that do not overlap                                            *)

SingleHandler == \A g, h \in Handler : g = h

ChangesOf(S, e) == {c \in S : c.entity = e}

\* row shows c, and every other change of S is older.
ShowsNewest(row, c, S) ==
  /\ c \in S
  /\ ViewOfRow(row) = ViewOf(c)
  /\ \A d \in S : d = c \/ d.at < c.at

\* A row of the request's context differs from the one in the table by the changes
\* the request has written, all of them newer than that one.
ContextOK(h, e) ==
  LET t == tracker[h][e]
      mine == ChangesOf(written[h], e)
  IN
  /\ t = NotTracked => mine = {}
  /\ t # NotTracked =>
       /\ t.original = rows[e]
       /\ RowConsistent(t.current)
       /\ IF mine = {} THEN t.current = rows[e]
          ELSE \E c \in mine : ShowsNewest(t.current, c, mine)
  /\ rows[e] # NoRow => \A c \in mine : rows[e].updatedAt < c.at

\* The inductive invariant of requests that do not overlap.
SerialInv ==
  /\ TypeInv
  /\ \A e \in Entity : rows[e] # NoRow => RowConsistent(rows[e])
  /\ \A h \in Handler :
       /\ pc[h] = "idle" => tracker[h] = EmptyContext /\ written[h] = {}
       /\ \A e \in Entity : ContextOK(h, e)

\* What a query and a written change leave of the one entity they touch.
LEMMA EntityStep ==
  ASSUME SingleHandler, SerialInv, TypeInv', NEW h \in Handler, NEW x \in Entity,
         pc[h] = "applying", UNCHANGED <<rows, pc>>,
         \A e \in Entity \ {x} :
           tracker'[h][e] = tracker[h][e] /\
           ChangesOf(written'[h], e) = ChangesOf(written[h], e),
         ContextOK(h, x)'
  PROVE  SerialInv'
<1>1. \A e \in Entity : ContextOK(h, e)'
  <2> SUFFICES ASSUME NEW e \in Entity \ {x} PROVE ContextOK(h, e)'
      OBVIOUS
  <2>1. ContextOK(h, e)
        BY DEF SerialInv
  <2> QED BY <2>1 DEF ContextOK
<1> QED BY <1>1 DEF SerialInv, SingleHandler

\* The row a newer change makes shows that change and is newer than all before it.
LEMMA NewestStep ==
  ASSUME NEW S \in SUBSET Change, NEW c \in Change, NEW row \in Row,
         ViewOfRow(row) = ViewOf(c), \A d \in S : d.at < c.at
  PROVE  ShowsNewest(row, c, S \union {c})
BY DEF ShowsNewest

LEMMA RowViewFacts ==
  ASSUME NEW c \in Change, NEW row \in Row, row.updatedAt = c.at,
         row.deleted <=> IsTombstone(c), IsTombstone(c) \/ row.data = c.data
  PROVE  ViewOfRow(row) = ViewOf(c)
<1>1. row # NoRow /\ row.deleted \in BOOLEAN /\ IsTombstone(c) \in BOOLEAN
      BY DistinctAssumption, ChangeFacts DEF Row, IsTombstone
<1> QED BY <1>1 DEF ViewOfRow, ViewOf

LEMMA WrittenTyped ==
  ASSUME SerialInv, NEW h \in Handler, NEW e \in Entity
  PROVE  ChangesOf(written[h], e) \in SUBSET Change
BY DEF SerialInv, TypeInv, TypeOK, ChangesOf

LEMMA WriteFacts ==
  ASSUME SerialInv, NEW h \in Handler, NEW c \in Change,
         written' = [written EXCEPT ![h] = @ \union {c}]
  PROVE  /\ ChangesOf(written'[h], c.entity) = ChangesOf(written[h], c.entity) \union {c}
         /\ \A e \in Entity \ {c.entity} :
              ChangesOf(written'[h], e) = ChangesOf(written[h], e)
<1>1. written'[h] = written[h] \union {c}
      BY DEF SerialInv, TypeInv, TypeOK
<1> QED BY <1>1 DEF ChangesOf

LEMMA InsertSerial ==
  ASSUME SingleHandler, SerialInv, TypeInv', NEW h \in Handler, NEW c \in Change,
         pc[h] = "applying", UNCHANGED <<rows, pc>>, Insert(h, c)
  PROVE  SerialInv'
<1> DEFINE x == c.entity
           r == InsertedRow(c)
           mine == ChangesOf(written[h], x)
<1>1. x \in Entity /\ rows[x] = NoRow /\ tracker[h][x] = NotTracked /\ mine = {}
  <2>1. x \in Entity /\ tracker[h][x] = NotTracked
        BY ChangeFacts DEF Insert, CanAdd
  <2>2. rows[x] = NoRow
        BY <2>1 DEF Insert, Found
  <2> QED BY <2>1, <2>2 DEF SerialInv, ContextOK
<1>2. r \in Row /\ RowConsistent(r) /\ ViewOfRow(r) = ViewOf(c)
      BY InsertedFacts, RowViewFacts DEF Insert
<1>3. /\ tracker'[h][x] = [original |-> NoRow, current |-> r]
      /\ \A e \in Entity \ {x} : tracker'[h][e] = tracker[h][e]
      BY <1>1 DEF Insert, TrackAdded, SerialInv, TypeInv, TypeOK, StoreTypeOK
<1>4. /\ ChangesOf(written'[h], x) = mine \union {c}
      /\ \A e \in Entity \ {x} : ChangesOf(written'[h], e) = ChangesOf(written[h], e)
      BY WriteFacts DEF Insert, AcceptWrite
<1> HIDE DEF r, x
<1>5. ShowsNewest(r, c, mine \union {c})
      BY <1>1, <1>2, NewestStep
<1>6. ContextOK(h, x)'
  <2>1. tracker'[h][x] # NotTracked
        BY <1>2, <1>3, DistinctAssumption DEF Entry
  <2>2. ShowsNewest(r, c, ChangesOf(written'[h], x))
        BY <1>4, <1>5
  <2> QED BY <1>1, <1>2, <1>3, <1>4, <2>1, <2>2 DEF ContextOK, ShowsNewest
<1> QED BY <1>1, <1>3, <1>4, <1>6, EntityStep

LEMMA ConflictSerial ==
  ASSUME SingleHandler, SerialInv, TypeInv', NEW h \in Handler, NEW c \in Change,
         pc[h] = "applying", UNCHANGED <<rows, pc>>, Conflict(h, c)
  PROVE  SerialInv'
<1> DEFINE x == c.entity
           t == tracker[h][x]
           row == Found(h, x)
<1>1. x \in Entity /\ row # NoRow /\ rows[x] # NoRow /\ UNCHANGED written
      BY ChangeFacts, ReadTyped DEF Conflict, RejectItem, SerialInv
<1>2. ContextOK(h, x)
      BY <1>1 DEF SerialInv
<1>3. /\ tracker'[h][x] = [original |-> rows[x], current |-> row]
      /\ \A e \in Entity \ {x} : tracker'[h][e] = tracker[h][e]
      BY <1>1, <1>2 DEF Conflict, Track, ContextOK, SerialInv, TypeInv, TypeOK, StoreTypeOK
<1>4. tracker'[h][x] # NotTracked
      BY <1>1, <1>3, ReadTyped, DistinctAssumption DEF SerialInv, Entry
<1>5. ContextOK(h, x)'
  <2>1. CASE t = NotTracked
    <3>1. row = rows[x]
          BY <1>1, <2>1 DEF Found
    <3> QED BY <1>1, <1>2, <1>3, <1>4, <2>1, <3>1 DEF ContextOK, SerialInv
  <2>2. CASE t # NotTracked
    <3>1. row = t.current
          BY <1>1, <2>2 DEF Found
    <3> QED BY <1>1, <1>2, <1>3, <1>4, <2>2, <3>1 DEF ContextOK
  <2> QED BY <2>1, <2>2
<1> QED BY <1>1, <1>3, <1>5, EntityStep

LEMMA OverwriteSerial ==
  ASSUME SingleHandler, SerialInv, TypeInv', NEW h \in Handler, NEW c \in Change,
         pc[h] = "applying", UNCHANGED <<rows, pc>>, Overwrite(h, c)
  PROVE  SerialInv'
<1> DEFINE x == c.entity
           t == tracker[h][x]
           row == Found(h, x)
           r == ChangedRow(c, row)
           mine == ChangesOf(written[h], x)
<1>1. /\ x \in Entity /\ row \in Row /\ rows[x] \in Row /\ rows[x] # NoRow
      /\ row.updatedAt < c.at /\ r # Thrown /\ mine \in SUBSET Change
      /\ row.updatedAt \in Nat /\ rows[x].updatedAt \in Nat /\ c.at \in Nat
      BY ChangeFacts, ReadTyped, WrittenTyped DEF Overwrite, Wins, SerialInv, Row
<1>2. ContextOK(h, x)
      BY <1>1 DEF SerialInv
<1>3. /\ RowConsistent(row) /\ rows[x].updatedAt <= row.updatedAt
      /\ \A d \in mine : d.at \in Nat /\ d.at <= row.updatedAt
  <2>0. \A d \in mine : d.at \in Nat
        BY <1>1, ChangeFacts
  <2>1. CASE t = NotTracked
    <3>1. row = rows[x] /\ mine = {}
          BY <1>1, <1>2, <2>1 DEF Found, ContextOK
    <3> QED BY <1>1, <3>1 DEF SerialInv
  <2>2. CASE t # NotTracked
    <3>1. row = t.current /\ RowConsistent(row)
          BY <1>1, <1>2, <2>2 DEF Found, ContextOK
    <3>2. CASE mine = {}
          BY <1>1, <1>2, <2>2, <3>1, <3>2 DEF ContextOK
    <3>3. CASE mine # {}
      <4>1. PICK d \in mine : ShowsNewest(row, d, mine)
            BY <1>2, <2>2, <3>1, <3>3 DEF ContextOK
      <4>2. row.updatedAt = d.at
            BY <1>1, <4>1, DistinctAssumption DEF ShowsNewest, ViewOfRow, ViewOf
      <4>3. \A b \in mine : b.at <= row.updatedAt
            BY <2>0, <4>1, <4>2 DEF ShowsNewest
      <4>4. rows[x].updatedAt < d.at
            BY <1>1, <1>2, <4>1 DEF ContextOK
      <4> QED BY <1>1, <2>0, <3>1, <4>2, <4>3, <4>4
    <3> QED BY <3>2, <3>3
  <2> QED BY <2>1, <2>2
<1>4. r \in Row /\ RowConsistent(r) /\ ViewOfRow(r) = ViewOf(c)
      BY <1>1, <1>3, ChangedFacts, RowViewFacts
<1>5. /\ tracker'[h][x] = [original |-> rows[x], current |-> r]
      /\ \A e \in Entity \ {x} : tracker'[h][e] = tracker[h][e]
      BY <1>1, <1>2 DEF Overwrite, Track, ContextOK, SerialInv, TypeInv, TypeOK, StoreTypeOK
<1>6. /\ ChangesOf(written'[h], x) = mine \union {c}
      /\ \A e \in Entity \ {x} : ChangesOf(written'[h], e) = ChangesOf(written[h], e)
      BY WriteFacts DEF Overwrite, AcceptWrite
<1> HIDE DEF r, x, row, mine
<1>7. ShowsNewest(r, c, mine \union {c})
  <2>1. \A d \in mine : d.at < c.at
        BY <1>1, <1>3
  <2> QED BY <1>1, <1>4, <2>1, NewestStep
<1>8. \A d \in mine \union {c} : rows[x].updatedAt < d.at
      BY <1>1, <1>2, <1>3 DEF ContextOK, mine, x
<1>9. ContextOK(h, x)'
  <2>1. tracker'[h][x] # NotTracked
        BY <1>1, <1>4, <1>5, DistinctAssumption DEF Entry
  <2>2. c \in ChangesOf(written'[h], x) /\ ShowsNewest(r, c, ChangesOf(written'[h], x))
        BY <1>6, <1>7
  <2>3. \A d \in ChangesOf(written'[h], x) : rows[x].updatedAt < d.at
        BY <1>6, <1>8
  <2> QED BY <1>4, <1>5, <2>1, <2>2, <2>3 DEF ContextOK, ShowsNewest
<1> QED BY <1>1, <1>5, <1>6, <1>9, EntityStep

LEMMA ApplySerial ==
  ASSUME SingleHandler, SerialInv, NEW h \in Handler, ApplyNext(h)
  PROVE  SerialInv'
<1>1. PICK c \in Change : c = Head(todo[h])
      BY HeadTail DEF ApplyNext, SerialInv
<1>2. /\ c.entity \in Entity /\ pc[h] = "applying"
      /\ UNCHANGED <<rows, pc>> /\ TypeInv'
      BY ChangeFacts, ApplyTyped DEF ApplyNext, SerialInv
<1>3. CASE UNCHANGED <<tracker, written>>
  <2>1. ContextOK(h, c.entity)
        BY <1>2 DEF SerialInv
  <2>2. ContextOK(h, c.entity)'
        BY <1>2, <1>3, <2>1 DEF ContextOK
  <2> QED BY <1>2, <1>3, <2>2, EntityStep
<1>4. CASE Insert(h, c) \/ Conflict(h, c) \/ Overwrite(h, c)
      BY <1>2, <1>4, InsertSerial, ConflictSerial, OverwriteSerial
<1>5. Invalid(h, c) \/ DeleteAbsent(h, c) => UNCHANGED <<tracker, written>>
      BY DEF Invalid, DeleteAbsent, RejectItem
<1> QED BY <1>1, <1>3, <1>4, <1>5 DEF ApplyNext

\* A save leaves in the table the row of the context as a whole.
LEMMA SavedSerial ==
  ASSUME SerialInv, NEW h \in Handler, NEW e \in Entity
  PROVE  LET saved == SavedRows(h)[e]
             mine == ChangesOf(written[h], e)
         IN
         /\ saved # NoRow => RowConsistent(saved)
         /\ mine = {} => saved = rows[e]
         /\ mine # {} => \E c \in mine : ShowsNewest(saved, c, mine)
<1> DEFINE t == tracker[h][e]
           saved == SavedRows(h)[e]
<1>1. /\ saved = Saved(rows[e], t) /\ rows[e] \in Row \union {NoRow}
      /\ t # NotTracked => t.current \in Row
      /\ ContextOK(h, e) /\ (rows[e] # NoRow => RowConsistent(rows[e]))
      BY SavedTyped, ReadTyped DEF SerialInv, Entry
<1>2. CASE t = NotTracked
      BY <1>1, <1>2 DEF Saved, ContextOK
<1>3. CASE t # NotTracked
  <2>1. saved = t.current
    <3>1. CASE rows[e] = NoRow
          BY <1>1, <1>3, <3>1 DEF Saved, ContextOK
    <3>2. CASE rows[e] # NoRow
      <4>1. saved = [f \in Column |-> IF t.current[f] = rows[e][f]
                                     THEN rows[e][f] ELSE t.current[f]]
            BY <1>1, <1>3, <3>2 DEF Saved, ContextOK
      <4>2. t.current \in Row
            BY <1>1, <1>3
      <4> HIDE DEF saved, t
      <4>3. saved = [f \in Column |-> t.current[f]]
            BY <4>1
      <4> QED BY <4>2, <4>3 DEF Row, Column
    <3> QED BY <3>1, <3>2
  <2> QED BY <1>1, <1>3, <2>1 DEF ContextOK
<1> QED BY <1>2, <1>3

LEMMA EndSerial ==
  ASSUME SingleHandler, SerialInv, TypeInv', NEW h \in Handler, End(h),
         rows' \in {rows, SavedRows(h)}
  PROVE  SerialInv'
<1>1. \A e \in Entity : rows'[e] # NoRow => RowConsistent(rows'[e])
      BY SavedSerial DEF SerialInv
<1>2. tracker'[h] = EmptyContext /\ written'[h] = {}
      BY DEF End, DisposeContext, SerialInv, TypeInv, TypeOK, StoreTypeOK
<1>3. \A e \in Entity : ContextOK(h, e)'
      BY <1>2 DEF ContextOK, EmptyContext, ChangesOf
<1> QED BY <1>1, <1>2, <1>3 DEF SerialInv, SingleHandler

LEMMA SerialInit == Init => SerialInv
BY TypeInit DEF Init, StoreInit, EmptyContext, SerialInv, ContextOK, ChangesOf

LEMMA SerialNext == SingleHandler /\ SerialInv /\ [Next]_vars => SerialInv'
<1> SUFFICES ASSUME SingleHandler, SerialInv, [Next]_vars PROVE SerialInv'
    OBVIOUS
<1>1. TypeInv'
      BY TypeNext DEF SerialInv
<1>2. ASSUME NEW h \in Handler, NEW batch \in Batch, Begin(h, batch) PROVE SerialInv'
  <2>1. UNCHANGED <<rows, tracker, written>> /\ pc'[h] = "applying"
        BY <1>2 DEF Begin, storeVars, SerialInv, TypeInv, TypeOK
  <2>2. \A e \in Entity : ContextOK(h, e) => ContextOK(h, e)'
        BY <2>1 DEF ContextOK
  <2> QED BY <1>1, <2>1, <2>2 DEF SerialInv, SingleHandler
<1>3. ASSUME NEW h \in Handler,
             ApplyThrows(h) \/ Save(h) \/ SaveThrows(h) \/ Abort(h)
      PROVE  SerialInv'
      BY <1>1, <1>3, EndSerial DEF ApplyThrows, Save, SaveThrows, Abort
<1>4. CASE UNCHANGED vars
  <2>1. \A h \in Handler, e \in Entity : ContextOK(h, e) => ContextOK(h, e)'
        BY <1>4 DEF vars, storeVars, requestVars, ContextOK
  <2> QED BY <1>1, <1>4, <2>1 DEF vars, storeVars, requestVars, SerialInv
<1> QED BY <1>2, <1>3, <1>4, ApplySerial DEF Next

LEMMA SerialInvariance ==
  ASSUME SingleHandler
  PROVE  Spec => []SerialInv
BY SerialInit, SerialNext, PTL DEF Spec

\* AuditConsistent for any changes, batches and entities: as long as requests do not
\* overlap, no row is updated before it was created, and a tombstone carries the
\* time of its last change.
THEOREM SerialAudit ==
  ASSUME SingleHandler
  PROVE  Spec => []AuditConsistent
<1>1. SerialInv => AuditConsistent
      BY DEF SerialInv, AuditConsistent, RowConsistent
<1> QED BY <1>1, SerialInvariance, PTL

-----------------------------------------------------------------------------
(* Versions                                                                *)

\* A save leaves no row older, and every change it has written stored.
LEMMA SaveKeeps ==
  ASSUME SerialInv, NEW h \in Handler, Save(h), NEW e \in Entity
  PROVE  /\ rows[e] # NoRow =>
              rows'[e] # NoRow /\ rows'[e].updatedAt >= rows[e].updatedAt
         /\ \A d \in ChangesOf(written[h], e) :
              rows'[e] # NoRow /\ rows'[e].updatedAt >= d.at
<1> DEFINE mine == ChangesOf(written[h], e)
<1>1. /\ rows'[e] = SavedRows(h)[e]
      /\ rows[e] # NoRow => rows'[e] # NoRow /\ rows[e] \in Row
      BY SavedTyped, ReadTyped DEF Save, SerialInv
<1>2. CASE mine = {}
  <2>1. rows'[e] = rows[e]
        BY <1>1, <1>2, SavedSerial
  <2> QED BY <1>1, <1>2, <2>1 DEF Row
<1>3. CASE mine # {}
  <2>1. PICK c \in mine : ShowsNewest(rows'[e], c, mine)
        BY <1>1, <1>3, SavedSerial
  <2>2. \A d \in mine : d.at \in Nat
        BY WrittenTyped, ChangeFacts
  <2>3. rows[e] # NoRow => rows[e].updatedAt < c.at /\ rows[e].updatedAt \in Nat
        BY <1>1, <2>1 DEF SerialInv, ContextOK, Row
  <2>4. rows'[e] # NoRow
    <3>1. tracker[h][e] # NotTracked /\ ContextOK(h, e)
          BY <1>3 DEF SerialInv, ContextOK
    <3>2. CASE rows[e] = NoRow
      <4>1. rows'[e] = tracker[h][e].current /\ tracker[h][e] \in Entry
            BY <1>1, <3>1, <3>2, SavedTyped, ReadTyped DEF ContextOK, Saved, SerialInv
      <4> QED BY <4>1, DistinctAssumption DEF Entry
    <3>3. CASE rows[e] # NoRow
          BY <1>1, <3>3
    <3> QED BY <3>2, <3>3
  <2>5. rows'[e].updatedAt = c.at
    <3>1. ViewOfRow(rows'[e]) = ViewOf(c)
          BY <2>1 DEF ShowsNewest
    <3> QED BY <2>4, <3>1 DEF ViewOfRow, ViewOf
  <2>6. \A d \in mine : d.at <= c.at
        BY <2>1, <2>2 DEF ShowsNewest
  <2> QED BY <2>1, <2>2, <2>3, <2>4, <2>5, <2>6
<1> QED BY <1>2, <1>3

\* Only a save changes the tables.
LEMMA TablesChange ==
  ASSUME [Next]_vars
  PROVE  (\E h \in Handler : Save(h)) \/ UNCHANGED <<rows, landed, acked>>
BY DEF Next, Begin, ApplyNext, ApplyThrows, SaveThrows, Abort, vars, storeVars

\* VersionsRise for any changes, batches and entities: the race of dbsync_race
\* needs two requests that overlap.
THEOREM SerialVersionsRise ==
  ASSUME SingleHandler
  PROVE  Spec => VersionsRise
<1> DEFINE Rise ==
      \A e \in Entity : rows[e] # NoRow => rows'[e].updatedAt >= rows[e].updatedAt
<1>1. ASSUME SerialInv, [Next]_vars
      PROVE  Rise
  <2>1. CASE \E h \in Handler : Save(h)
        BY <1>1, <2>1, SaveKeeps
  <2>2. CASE rows' = rows
        BY <1>1, <2>2, ReadNat DEF SerialInv
  <2> QED BY <1>1, <2>1, <2>2, TablesChange
<1> QED BY <1>1, SerialInvariance, PTL DEF Spec, VersionsRise

\* What was saved is stored or replaced, and an upsert is accepted when written.
LandedStays ==
  \A c \in landed : rows[c.entity] # NoRow /\ rows[c.entity].updatedAt >= c.at
UpsertsWritten ==
  /\ \A h \in Handler : \A c \in accepted[h] : c.op = "Upsert" => c \in written[h]
  /\ \A c \in acked : c.op = "Upsert" => c \in landed

LEMMA AcceptedStep ==
  ASSUME TypeInv, UpsertsWritten, [Next]_vars
  PROVE  UpsertsWritten'
<1>1. ASSUME NEW h \in Handler, ApplyNext(h)
      PROVE  UpsertsWritten'
  <2> DEFINE c == Head(todo[h])
  <2>1. UNCHANGED <<acked, landed>>
        BY <1>1 DEF ApplyNext
  <2>2. \/ UNCHANGED accepted /\ UNCHANGED written
        \/ /\ accepted' = [accepted EXCEPT ![h] = @ \union {c}]
           /\ \/ c.op = "Delete" /\ UNCHANGED written
              \/ written' = [written EXCEPT ![h] = @ \union {c}]
        BY <1>1 DEF ApplyNext, Invalid, DeleteAbsent, Insert, Conflict, Overwrite,
           AcceptItem, AcceptWrite, RejectItem
  <2> HIDE DEF c
  <2>3. \A g \in Handler : \A d \in accepted'[g] : d.op = "Upsert" => d \in written'[g]
        BY <2>2 DEF UpsertsWritten, TypeInv, TypeOK
  <2> QED BY <2>1, <2>3 DEF UpsertsWritten
<1>2. ASSUME NEW h \in Handler, End(h), landed \subseteq landed',
             \/ UNCHANGED acked
             \/ acked' = acked \union accepted[h] /\ landed' = landed \union written[h]
      PROVE  UpsertsWritten'
  <2>1. \A g \in Handler : \A d \in accepted'[g] : d.op = "Upsert" => d \in written'[g]
        BY <1>2 DEF End, UpsertsWritten, TypeInv, TypeOK
  <2>2. \A d \in acked' : d.op = "Upsert" => d \in landed'
        BY <1>2 DEF UpsertsWritten
  <2> QED BY <2>1, <2>2 DEF UpsertsWritten
<1>3. ASSUME NEW h \in Handler, ApplyThrows(h) \/ Save(h) \/ SaveThrows(h) \/ Abort(h)
      PROVE  UpsertsWritten'
      BY <1>2, <1>3 DEF ApplyThrows, Save, SaveThrows, Abort
<1>4. CASE UNCHANGED <<accepted, written, acked, landed>>
      BY <1>4 DEF UpsertsWritten
<1> QED BY <1>1, <1>3, <1>4 DEF Next, Begin, vars, requestVars

LEMMA LandedStep ==
  ASSUME SerialInv, LandedStays, [Next]_vars
  PROVE  LandedStays'
<1>1. landed \subseteq Change
      BY DEF SerialInv, TypeInv, TypeOK
<1>2. ASSUME NEW h \in Handler, Save(h)
      PROVE  LandedStays'
  <2> SUFFICES ASSUME NEW c \in landed'
               PROVE  rows'[c.entity] # NoRow /\ rows'[c.entity].updatedAt >= c.at
      BY DEF LandedStays
  <2>1. CASE c \in landed
    <3>1. /\ c.entity \in Entity /\ c.at \in Nat /\ rows[c.entity] # NoRow
          /\ rows[c.entity].updatedAt >= c.at
          BY <1>1, <2>1, ChangeFacts DEF LandedStays
    <3>2. /\ rows'[c.entity] # NoRow
          /\ rows'[c.entity].updatedAt >= rows[c.entity].updatedAt
          BY <1>2, <3>1, SaveKeeps
    <3>3. rows[c.entity].updatedAt \in Nat /\ rows'[c.entity].updatedAt \in Nat
          BY <1>2, <3>1, <3>2, SaveTyped, ReadNat DEF SerialInv, TypeInv, TypeOK, StoreTypeOK, Row
    <3> QED BY <3>1, <3>2, <3>3
  <2>2. CASE c \in written[h]
    <3>1. c \in Change /\ c.entity \in Entity /\ c \in ChangesOf(written[h], c.entity)
          BY <2>2, ChangeFacts DEF SerialInv, TypeInv, TypeOK, ChangesOf
    <3> QED BY <1>2, <3>1, SaveKeeps
  <2> QED BY <1>2, <2>1, <2>2 DEF Save
<1>3. CASE UNCHANGED <<rows, landed>>
      BY <1>3 DEF LandedStays
<1> QED BY <1>2, <1>3, TablesChange

\* AckedUpsertsStay for any changes, batches and entities.
THEOREM SerialAcksStay ==
  ASSUME SingleHandler
  PROVE  Spec => []AckedUpsertsStay
<1> DEFINE AckInv == SerialInv /\ UpsertsWritten /\ LandedStays
<1>1. Init => AckInv
      BY SerialInit DEF Init, UpsertsWritten, LandedStays
<1>2. AckInv /\ [Next]_vars => AckInv'
      BY SerialNext, AcceptedStep, LandedStep DEF SerialInv
<1>3. AckInv => AckedUpsertsStay
      BY DEF UpsertsWritten, LandedStays, AckedUpsertsStay
<1> HIDE DEF AckInv
<1> QED BY <1>1, <1>2, <1>3, PTL DEF Spec

-----------------------------------------------------------------------------
(* Refinement                                                              *)

WriteOf(c) == [entity |-> c.entity, view |-> ViewOf(c)]

\* A save is one batch of the last-writer-wins store: the changes it has written.
LEMMA SaveRefines ==
  ASSUME SerialInv, NEW h \in Handler, Save(h)
  PROVE  Lww!Next
<1>0. PICK W \in SUBSET Change : W = written[h]
      BY DEF SerialInv, TypeInv, TypeOK
<1> DEFINE S == {WriteOf(c) : c \in W}
           Newest(e) == CHOOSE w \in S : w.entity = e /\ Lww!IsNewestOf(w, S)
<1>1. S \in SUBSET {[entity |-> d.entity, view |-> ViewOf(d)] : d \in Change}
      BY <1>0 DEF WriteOf
<1>2. ASSUME NEW c \in W
      PROVE  /\ c \in Change /\ c.entity \in Entity /\ c.at \in Nat
             /\ c \in ChangesOf(W, c.entity)
             /\ WriteOf(c).entity = c.entity /\ WriteOf(c).view.at = c.at
             /\ WriteOf(c).view = ViewOf(c)
      BY <1>0, ChangeFacts DEF ChangesOf, WriteOf, ViewOf
<1>3. ASSUME NEW w \in S
      PROVE  Lww!IsNewer(w)
  <2>1. PICK c \in W : w = WriteOf(c)
        OBVIOUS
  <2>2. rows[c.entity] # NoRow => rows[c.entity].updatedAt < c.at
        BY <1>0, <1>2 DEF SerialInv, ContextOK
  <2> QED BY <1>2, <2>1, <2>2 DEF Lww!IsNewer, ViewOfRow
<1>4. ASSUME NEW e \in Entity, NEW c \in ChangesOf(W, e),
             NEW row, ShowsNewest(row, c, ChangesOf(W, e))
      PROVE  /\ WriteOf(c) \in S /\ WriteOf(c).entity = e
             /\ Lww!IsNewestOf(WriteOf(c), S)
             /\ \A w \in S : w.entity = e /\ Lww!IsNewestOf(w, S) => w = WriteOf(c)
  <2>1. c \in W /\ c.entity = e
        BY DEF ChangesOf
  <2>2. \A d \in W : d.entity = e => d = c \/ d.at < c.at
        BY <1>4 DEF ShowsNewest, ChangesOf
  <2>3. Lww!IsNewestOf(WriteOf(c), S)
        BY <1>2, <2>1, <2>2 DEF Lww!IsNewestOf
  <2>4. ASSUME NEW w \in S, w.entity = e, Lww!IsNewestOf(w, S)
        PROVE  w = WriteOf(c)
    <3>1. WriteOf(c) = w \/ WriteOf(c).view.at < w.view.at
          BY <1>2, <2>1, <2>4 DEF Lww!IsNewestOf
    <3>2. w = WriteOf(c) \/ w.view.at < WriteOf(c).view.at
          BY <1>2, <2>1, <2>3, <2>4 DEF Lww!IsNewestOf
    <3>3. PICK d \in W : w = WriteOf(d)
          OBVIOUS
    <3> QED BY <1>2, <2>1, <3>1, <3>2, <3>3
  <2> QED BY <1>2, <2>1, <2>3, <2>4
<1>5. ASSUME NEW e \in Entity
      PROVE  ViewOfRow(rows'[e]) = IF \E w \in S : w.entity = e
                                   THEN Newest(e).view ELSE ViewOfRow(rows[e])
  <2> DEFINE mine == ChangesOf(W, e)
  <2>1. (\E w \in S : w.entity = e) <=> mine # {}
        BY <1>2 DEF ChangesOf
  <2>2. CASE mine = {}
        BY <1>0, <2>1, <2>2, SavedSerial DEF Save
  <2>3. CASE mine # {}
    <3>1. PICK c \in mine : ShowsNewest(rows'[e], c, mine)
          BY <1>0, <2>3, SavedSerial DEF Save
    <3>2. Newest(e) = WriteOf(c)
          BY <1>4, <3>1
    <3>3. Newest(e).view = ViewOf(c)
          BY <1>2, <3>2 DEF ChangesOf
    <3> QED BY <2>1, <2>3, <3>1, <3>3 DEF ShowsNewest
  <2> QED BY <2>2, <2>3
<1>6. \A w \in S : \E v \in S : v.entity = w.entity /\ Lww!IsNewestOf(v, S)
  <2> SUFFICES ASSUME NEW c \in W
               PROVE  \E v \in S : v.entity = c.entity /\ Lww!IsNewestOf(v, S)
      BY <1>2
  <2>1. PICK d \in ChangesOf(W, c.entity) :
          ShowsNewest(rows'[c.entity], d, ChangesOf(W, c.entity))
        BY <1>0, <1>2, SavedSerial DEF Save
  <2> QED BY <1>2, <1>4, <2>1
<1>7. {WriteOf(c) : c \in landed'} = {WriteOf(c) : c \in landed} \union S
      BY <1>0 DEF Save
<1>8. Lww!Accept(S)
  <2> HIDE DEF S, Newest
  <2> QED BY <1>3, <1>5, <1>6, <1>7 DEF Lww!Accept, WriteOf, Newest
<1> QED BY <1>1, <1>8 DEF Lww!Next

LEMMA SerialStepRefines == SerialInv /\ [Next]_vars => [Lww!Next]_(Lww!vars)
<1> SUFFICES ASSUME SerialInv, [Next]_vars PROVE [Lww!Next]_(Lww!vars)
    OBVIOUS
<1>1. CASE \E h \in Handler : Save(h)
      BY <1>1, SaveRefines
<1>2. CASE UNCHANGED <<rows, landed>>
      BY <1>2 DEF Lww!vars
<1>3. (\E h \in Handler : Save(h)) \/ UNCHANGED <<rows, landed>>
      BY DEF Next, Begin, ApplyNext, ApplyThrows, SaveThrows, Abort, vars, storeVars
<1> QED BY <1>1, <1>2, <1>3

\* ImplementsLww for any changes, batches and entities: requests that do not overlap
\* make DbSyncService a last-writer-wins store whose batches land as a whole.
THEOREM SerialImplementsLww ==
  ASSUME SingleHandler
  PROVE  Spec => ImplementsLww
<1>1. Init => Lww!Init
      BY DEF Init, StoreInit, ViewOfRow, Lww!Init
<1> QED BY <1>1, SerialStepRefines, SerialInvariance, PTL
        DEF Spec, ImplementsLww, Lww!Spec
=============================================================================
