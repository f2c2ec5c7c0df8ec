-------------------------- MODULE FinanceApiProofs --------------------------
(***************************************************************************)
(* Proofs about FinanceApi, for any number of handlers, pushes and web     *)
(* requests: what overlapping requests leave in the tables, when versions  *)
(* fall, and for one request at a time that the audit columns agree.       *)
(***************************************************************************)
EXTENDS FinanceApi, DbSyncProofs

\* Every column of a row was written by one of the changes S, and CreatedAt is a
\* lower bound of UpdatedAt.
From(row, S) ==
  /\ row.createdAt \in {c.createdAt : c \in S}
  /\ row.updatedAt \in {c.at : c \in S}
  /\ row.data \in {c.data : c \in S}
  /\ row.deletedAt \in {DeletedAtOf(c) : c \in S}
  /\ \E c \in S : row.deleted <=> IsTombstone(c)
  /\ row.createdAt <= row.updatedAt

\* What a request will have landed once it has saved.
Pending(h) == IF pc[h] = "saving" THEN written[h] \union {AsChange(h)} ELSE written[h]

RowsFrom == \A e \in Entity : rows[e] # NoRow => From(rows[e], ChangesOf(landed, e))

\* A request brings a row back by an upsert, which also raises its version.
RestoredBy(h, e, t) ==
  \E c \in written[h] :
    /\ c.entity = e /\ ~IsTombstone(c)
    /\ t.current.updatedAt = c.at /\ t.original.updatedAt < c.at

\* A tracked row: its columns are landed or pending, the row it was read from is
\* still there, and CreatedAt has not changed.
EntryOK(h, e) ==
  LET t == tracker[h][e] IN
  t # NotTracked =>
    /\ From(t.current, ChangesOf(landed \union Pending(h), e))
    /\ t.original # NoRow =>
         /\ rows[e] # NoRow
         /\ t.original.createdAt = rows[e].createdAt
         /\ t.current.createdAt = rows[e].createdAt
         /\ t.original.deleted /\ ~t.current.deleted => RestoredBy(h, e, t)
         /\ pc[h] = "applying" => t.original.updatedAt <= t.current.updatedAt

HandlerOK(h) ==
  /\ pc[h] # "applying" => written[h] = {}
  /\ pc[h] \in {"checking", "ready"} /\ call[h].op # "Create" =>
       tracker[h][call[h].entity] # NotTracked
  /\ \A e \in Entity : EntryOK(h, e)

RequestTypeOK ==
  /\ pc \in [Handler -> {"idle", "applying"} \union Asking]
  /\ todo \in [Handler -> Seq(Change)]
  /\ written \in [Handler -> SUBSET Change]

\* The inductive invariant.
Inv ==
  /\ ApiTypeOK
  /\ StoreTypeOK
  /\ RequestTypeOK
  /\ RowsFrom
  /\ \A h \in Handler : HandlerOK(h)

-----------------------------------------------------------------------------
(* What a step does to its own handler, to the others and to the tables    *)

Types == ApiTypeOK /\ StoreTypeOK /\ RequestTypeOK

OthersKept(h) ==
  \A g \in Handler \ {h} :
    /\ tracker'[g] = tracker[g] /\ written'[g] = written[g]
    /\ pc'[g] = pc[g] /\ call'[g] = call[g]

\* Rows are never removed, and their CreatedAt stays.
RowsKept ==
  /\ landed \subseteq landed'
  /\ \A e \in Entity :
       rows[e] # NoRow => rows'[e] # NoRow /\ rows'[e].createdAt = rows[e].createdAt

LEMMA FromGrows ==
  ASSUME NEW row, NEW S, NEW T, S \subseteq T, From(row, S)
  PROVE  From(row, T)
BY DEF From

LEMMA HandlerKept ==
  ASSUME NEW h \in Handler, HandlerOK(h), RowsKept,
         tracker'[h] = tracker[h], written'[h] = written[h],
         pc'[h] = pc[h], call'[h] = call[h]
  PROVE  HandlerOK(h)'
<1>1. Pending(h)' = Pending(h)
      BY DEF Pending, AsChange
<1>2. ASSUME NEW e \in Entity
      PROVE  EntryOK(h, e)'
  <2> DEFINE t == tracker[h][e]
  <2>1. CASE t # NotTracked
    <3>1. EntryOK(h, e)
          BY DEF HandlerOK
    <3>2. From(t.current, ChangesOf(landed' \union Pending(h), e))
      <4>1. ChangesOf(landed \union Pending(h), e) \subseteq
              ChangesOf(landed' \union Pending(h), e)
            BY DEF RowsKept, ChangesOf
      <4>2. From(t.current, ChangesOf(landed \union Pending(h), e))
            BY <2>1, <3>1 DEF EntryOK
      <4> QED BY <4>1, <4>2, FromGrows
    <3>3. From(t.current, ChangesOf(landed \union Pending(h), e))'
          BY <1>1, <3>2 DEF From, ChangesOf
    <3>4. RestoredBy(h, e, t) => RestoredBy(h, e, t)'
          BY DEF RestoredBy
    <3> QED BY <2>1, <3>1, <3>3, <3>4 DEF EntryOK, RowsKept
  <2>2. CASE t = NotTracked
        BY <2>2 DEF EntryOK
  <2> QED BY <2>1, <2>2
<1> QED BY <1>2 DEF HandlerOK

LEMMA StepTogether ==
  ASSUME Inv, NEW h \in Handler, Types', RowsFrom', RowsKept, OthersKept(h),
         HandlerOK(h)'
  PROVE  Inv'
<1>1. \A g \in Handler : HandlerOK(g)'
  <2> SUFFICES ASSUME NEW g \in Handler, g # h PROVE HandlerOK(g)'
      OBVIOUS
  <2> QED BY HandlerKept DEF Inv, OthersKept
<1> QED BY <1>1 DEF Inv, Types

\* A handler that has nothing tracked and nothing written.
LEMMA NothingHeld ==
  ASSUME NEW h \in Handler, tracker'[h] = EmptyContext, written'[h] = {},
         pc'[h] \in {"checking", "ready"} => call'[h].op = "Create"
  PROVE  HandlerOK(h)'
BY DEF HandlerOK, EntryOK, EmptyContext

LEMMA TablesUntouched ==
  ASSUME Inv, UNCHANGED <<rows, landed>>
  PROVE  RowsFrom' /\ RowsKept
BY DEF Inv, RowsFrom, RowsKept, From, ChangesOf

\* The end of a request, whether it has saved or not.
LEMMA EndStep ==
  ASSUME Inv, NEW h \in Handler, End(h), call' = [call EXCEPT ![h] = NoCall],
         UNCHANGED <<now, calls>>, RowsFrom', RowsKept,
         rows' \in [Entity -> Row \union {NoRow}]
  PROVE  Inv'
<1> USE DEF Inv, ApiTypeOK, StoreTypeOK, RequestTypeOK
<1>1. /\ pc' = [pc EXCEPT ![h] = "idle"]
      /\ todo' = [todo EXCEPT ![h] = <<>>]
      /\ written' = [written EXCEPT ![h] = {}]
      /\ tracker' = [tracker EXCEPT ![h] = EmptyContext]
      BY DEF End, DisposeContext
<1>2. EmptyContext \in [Entity -> Entry \union {NotTracked}]
      BY DEF EmptyContext
<1>3. OthersKept(h)
      BY <1>1 DEF OthersKept
<1>4. StoreTypeOK' /\ RequestTypeOK'
      BY <1>1, <1>2
<1>5. ApiTypeOK'
      BY <1>1, <1>4 DEF Asking
<1>6. HandlerOK(h)'
      BY <1>1, NothingHeld
<1> QED BY <1>3, <1>4, <1>5, <1>6, StepTogether DEF Types

-----------------------------------------------------------------------------
(* Pushes                                                                  *)

\* The row a request changes, as original and current row.
Origin(h, e) == IF tracker[h][e] = NotTracked THEN rows[e] ELSE tracker[h][e].original

LEMMA FoundFacts ==
  ASSUME Inv, NEW h \in Handler, NEW e \in Entity, pc[h] = "applying",
         Found(h, e) # NoRow
  PROVE  /\ Found(h, e) \in Row
         /\ Origin(h, e) \in Row \union {NoRow}
         /\ From(Found(h, e), ChangesOf(landed \union written[h], e))
         /\ Origin(h, e) # NoRow =>
              /\ rows[e] # NoRow
              /\ Origin(h, e).createdAt = rows[e].createdAt
              /\ Found(h, e).createdAt = rows[e].createdAt
              /\ Origin(h, e).updatedAt <= Found(h, e).updatedAt
              /\ Origin(h, e).deleted /\ ~Found(h, e).deleted =>
                   RestoredBy(h, e, [original |-> Origin(h, e), current |-> Found(h, e)])
<1>1. rows[e] \in Row \union {NoRow} /\ rows[e] # NoRow
      BY DEF Inv, StoreTypeOK, Found
<1>2. CASE tracker[h][e] = NotTracked
  <2>1. Found(h, e) = rows[e] /\ Origin(h, e) = rows[e]
        BY <1>1, <1>2 DEF Found, Origin
  <2>2. From(rows[e], ChangesOf(landed, e))
        BY <1>1 DEF Inv, RowsFrom
  <2>3. From(rows[e], ChangesOf(landed \union written[h], e))
    <3>1. ChangesOf(landed, e) \subseteq ChangesOf(landed \union written[h], e)
          BY DEF ChangesOf
    <3> QED BY <2>2, <3>1, FromGrows
  <2> QED BY <1>1, <2>1, <2>3 DEF Row
<1>3. CASE tracker[h][e] # NotTracked
  <2>1. tracker[h][e] \in Entry
        BY <1>3 DEF Inv, StoreTypeOK
  <2>2. Found(h, e) = tracker[h][e].current /\ Origin(h, e) = tracker[h][e].original
        BY <1>1, <1>3 DEF Found, Origin
  <2>3. tracker[h][e] = [original |-> Origin(h, e), current |-> Found(h, e)]
        BY <2>1, <2>2 DEF Entry
  <2>4. EntryOK(h, e) /\ Pending(h) = written[h]
        BY DEF Inv, HandlerOK, Pending
  <2> QED BY <1>3, <2>1, <2>2, <2>3, <2>4 DEF EntryOK, Entry
<1> QED BY <1>2, <1>3

LEMMA PushEntry ==
  ASSUME Inv, NEW h \in Handler, NEW x \in Entity, pc[h] = "applying",
         UNCHANGED <<rows, landed, pc, call>>, written[h] \subseteq written'[h],
         \A e \in Entity \ {x} : tracker'[h][e] = tracker[h][e],
         EntryOK(h, x)'
  PROVE  HandlerOK(h)'
<1>1. Pending(h) = written[h] /\ Pending(h)' = written'[h]
      BY DEF Pending
<1>2. ASSUME NEW e \in Entity \ {x}
      PROVE  EntryOK(h, e)'
  <2> DEFINE t == tracker[h][e]
  <2>1. EntryOK(h, e)
        BY DEF Inv, HandlerOK
  <2>2. ChangesOf(landed \union Pending(h), e) \subseteq
          ChangesOf(landed \union written'[h], e)
        BY <1>1 DEF ChangesOf
  <2>3. From(t.current, ChangesOf(landed \union Pending(h), e)) =>
          From(t.current, ChangesOf(landed \union written'[h], e))
        BY <2>2, FromGrows
  <2>4. From(t.current, ChangesOf(landed \union Pending(h), e)) =>
          From(t.current, ChangesOf(landed \union Pending(h), e))'
        BY <1>1, <2>3 DEF From, ChangesOf
  <2>5. RestoredBy(h, e, t) => RestoredBy(h, e, t)'
        BY DEF RestoredBy
  <2> QED BY <2>1, <2>4, <2>5 DEF EntryOK
<1> QED BY <1>2 DEF Inv, HandlerOK

\* What is common to the steps that apply a change.
Applying(h, c) ==
  /\ pc[h] = "applying"
  /\ todo' = [todo EXCEPT ![h] = Tail(@)]
  /\ todo[h] # <<>>
  /\ c = Head(todo[h])
  /\ UNCHANGED <<rows, landed, pc, now, call, calls>>

\* A change that sets the entry t2 of its entity.
LEMMA ApplyEntry ==
  ASSUME Inv, NEW h \in Handler, NEW c \in Change, Applying(h, c),
         NEW t2 \in Entry, tracker' = [tracker EXCEPT ![h][c.entity] = t2],
         \/ written' = written
         \/ written' = [written EXCEPT ![h] = @ \union {c}],
         EntryOK(h, c.entity)'
  PROVE  Inv'
<1>1. c.entity \in Entity
      BY ChangeFacts
<1>2. StoreTypeOK'
      BY <1>1 DEF Inv, StoreTypeOK, Applying
<1>3. RequestTypeOK'
  <2>1. Tail(todo[h]) \in Seq(Change)
        BY DEF Inv, RequestTypeOK, Applying
  <2>2. todo' \in [Handler -> Seq(Change)]
        BY <2>1 DEF Inv, RequestTypeOK, Applying
  <2>3. written' \in [Handler -> SUBSET Change]
        BY DEF Inv, RequestTypeOK
  <2> QED BY <2>2, <2>3 DEF Inv, RequestTypeOK, Applying
<1>4. ApiTypeOK'
      BY DEF Inv, ApiTypeOK, RequestTypeOK, StoreTypeOK, Applying
<1>5. OthersKept(h)
      BY DEF Inv, StoreTypeOK, RequestTypeOK, OthersKept, Applying
<1>6. /\ written[h] \subseteq written'[h]
      /\ \A e \in Entity \ {c.entity} : tracker'[h][e] = tracker[h][e]
      BY DEF Inv, StoreTypeOK, RequestTypeOK
<1>7. HandlerOK(h)'
      BY <1>1, <1>6, PushEntry DEF Applying
<1>8. RowsFrom' /\ RowsKept
      BY TablesUntouched DEF Applying
<1> QED BY <1>2, <1>3, <1>4, <1>5, <1>7, <1>8, StepTogether DEF Types

LEMMA InsertStep ==
  ASSUME Inv, NEW h \in Handler, NEW c \in Change, Applying(h, c), Insert(h, c)
  PROVE  Inv'
<1> DEFINE x == c.entity
           t2 == [original |-> NoRow, current |-> InsertedRow(c)]
<1>1. x \in Entity /\ InsertedRow(c) \in Row /\ From(InsertedRow(c), {c})
      BY ChangeFacts, InsertedFacts DEF Insert, From, RowConsistent, DeletedAtOf
<1>2. /\ tracker' = [tracker EXCEPT ![h][x] = t2]
      /\ written' = [written EXCEPT ![h] = @ \union {c}]
      BY DEF Insert, TrackAdded, AcceptWrite
<1>3. tracker'[h][x] = t2 /\ c \in written'[h] /\ Pending(h)' = written'[h]
      BY <1>1, <1>2 DEF Inv, StoreTypeOK, RequestTypeOK, Pending, Applying
<1>4. From(InsertedRow(c), ChangesOf(landed' \union written'[h], x))
  <2>1. {c} \subseteq ChangesOf(landed' \union written'[h], x)
        BY <1>3 DEF ChangesOf
  <2> QED BY <1>1, <2>1, FromGrows
<1>5. EntryOK(h, x)'
      BY <1>3, <1>4 DEF EntryOK, From, ChangesOf
<1>6. t2 \in Entry
      BY <1>1 DEF Entry
<1> QED BY <1>2, <1>5, <1>6, ApplyEntry

\* The entry of a row that was found and is now r.
LEMMA TrackedEntry ==
  ASSUME Inv, NEW h \in Handler, NEW x \in Entity, pc[h] = "applying",
         Found(h, x) # NoRow, NEW r \in Row, Track(h, x, r)
  PROVE  LET t2 == [original |-> Origin(h, x), current |-> r] IN
         /\ t2 \in Entry
         /\ tracker' = [tracker EXCEPT ![h][x] = t2]
         /\ tracker'[h][x] = t2
BY FoundFacts DEF Track, Origin, Entry, Inv, StoreTypeOK

LEMMA ConflictStep ==
  ASSUME Inv, NEW h \in Handler, NEW c \in Change, Applying(h, c), Conflict(h, c)
  PROVE  Inv'
<1> DEFINE x == c.entity
           t2 == [original |-> Origin(h, x), current |-> Found(h, x)]
<1>1. x \in Entity /\ pc[h] = "applying" /\ Found(h, x) # NoRow
      BY ChangeFacts DEF Conflict, Applying
<1>2. written' = written /\ Track(h, x, Found(h, x))
      BY DEF Conflict, RejectItem
<1>3. Found(h, x) \in Row
      BY <1>1, FoundFacts
<1>4. /\ t2 \in Entry
      /\ tracker' = [tracker EXCEPT ![h][x] = t2]
      /\ tracker'[h][x] = t2
      BY <1>1, <1>2, <1>3, TrackedEntry
<1>5. Pending(h)' = written[h] /\ landed' = landed /\ rows' = rows
      BY <1>2 DEF Pending, Applying
<1>6. From(Found(h, x), ChangesOf(landed' \union Pending(h)', x))
      BY <1>1, <1>5, FoundFacts
<1>7. RestoredBy(h, x, t2) => RestoredBy(h, x, tracker[h][x])'
      BY <1>2, <1>4 DEF RestoredBy
<1>8. EntryOK(h, x)'
      BY <1>1, <1>4, <1>5, <1>6, <1>7, FoundFacts DEF EntryOK, From, ChangesOf
<1> QED BY <1>2, <1>4, <1>8, ApplyEntry

LEMMA OverwriteStep ==
  ASSUME Inv, NEW h \in Handler, NEW c \in Change, Applying(h, c), Overwrite(h, c)
  PROVE  Inv'
<1> DEFINE x == c.entity
           row == Found(h, x)
           r == ChangedRow(c, row)
           t2 == [original |-> Origin(h, x), current |-> r]
<1>1. x \in Entity /\ pc[h] = "applying" /\ row # NoRow
      BY ChangeFacts DEF Overwrite, Applying
<1>2. /\ written' = [written EXCEPT ![h] = @ \union {c}]
      /\ Track(h, x, r) /\ r # Thrown /\ c.at > row.updatedAt
      BY DEF Overwrite, AcceptWrite, Wins
<1>3. row \in Row /\ From(row, ChangesOf(landed \union written[h], x))
      BY <1>1, FoundFacts
<1>4. /\ r \in Row /\ r.createdAt = row.createdAt /\ r.updatedAt = c.at
      /\ r.data \in {row.data, c.data} /\ row.createdAt <= c.at
      /\ r.deleted <=> IsTombstone(c)
      /\ r.deletedAt \in {row.deletedAt, DeletedAtOf(c)}
      BY <1>2, <1>3, ChangedFacts
<1> HIDE DEF r
<1>5. /\ t2 \in Entry
      /\ tracker' = [tracker EXCEPT ![h][x] = t2]
      /\ tracker'[h][x] = t2
      BY <1>1, <1>2, <1>4, TrackedEntry
<1>6. /\ Pending(h)' = written'[h] /\ written'[h] = written[h] \union {c}
      /\ landed' = landed /\ rows' = rows
      BY <1>2 DEF Pending, Applying, Inv, RequestTypeOK
<1>7. From(r, ChangesOf(landed \union written'[h], x))
  <2>1. ChangesOf(landed \union written[h], x) \subseteq
          ChangesOf(landed \union written'[h], x)
        /\ c \in ChangesOf(landed \union written'[h], x)
        BY <1>6 DEF ChangesOf
  <2>2. From(row, ChangesOf(landed \union written'[h], x))
        BY <1>3, <2>1, FromGrows
  <2> QED BY <1>4, <2>1, <2>2 DEF From
<1>8. From(tracker[h][x].current, ChangesOf(landed \union Pending(h), x))'
      BY <1>5, <1>6, <1>7 DEF From, ChangesOf
<1>9. Origin(h, x) # NoRow =>
        /\ rows[x] # NoRow
        /\ Origin(h, x).createdAt = rows[x].createdAt
        /\ r.createdAt = rows[x].createdAt
        /\ Origin(h, x).updatedAt < c.at
  <2>1. HAVE Origin(h, x) # NoRow
  <2>2. /\ Origin(h, x) \in Row
        /\ rows[x] # NoRow
        /\ Origin(h, x).createdAt = rows[x].createdAt
        /\ row.createdAt = rows[x].createdAt
        /\ Origin(h, x).updatedAt <= row.updatedAt
        BY <1>1, <2>1, FoundFacts
  <2>3. Origin(h, x).updatedAt \in Nat /\ row.updatedAt \in Nat /\ c.at \in Nat
        BY <1>3, <2>2, ChangeFacts DEF Row
  <2> QED BY <1>2, <1>4, <2>2, <2>3
<1>10. Origin(h, x) # NoRow /\ ~r.deleted => RestoredBy(h, x, tracker[h][x])'
      BY <1>4, <1>5, <1>6, <1>9 DEF RestoredBy
<1>11. Origin(h, x) # NoRow => Origin(h, x).updatedAt <= r.updatedAt
  <2>1. HAVE Origin(h, x) # NoRow
  <2>2. Origin(h, x) \in Row
        BY <1>1, <2>1, FoundFacts
  <2> QED BY <1>4, <1>9, <2>1, <2>2, ChangeFacts DEF Row
<1>12. EntryOK(h, x)'
  <2>1. tracker'[h][x].original = Origin(h, x) /\ tracker'[h][x].current = r
        BY <1>5
  <2> QED BY <1>6, <1>8, <1>9, <1>10, <1>11, <2>1 DEF EntryOK
<1> QED BY <1>2, <1>5, <1>12, ApplyEntry

-----------------------------------------------------------------------------
(* SaveChanges                                                             *)

\* The row of an entity after a save.
LEMMA SavedFacts ==
  ASSUME Inv, NEW h \in Handler, NEW e \in Entity, CanSave(h)
  PROVE  LET saved == SavedRows(h)[e] IN
         /\ saved \in Row \union {NoRow}
         /\ saved # NoRow => From(saved, ChangesOf(landed \union Pending(h), e))
         /\ rows[e] # NoRow => saved # NoRow /\ saved.createdAt = rows[e].createdAt
<1> DEFINE t == tracker[h][e]
           saved == SavedRows(h)[e]
           S == ChangesOf(landed \union Pending(h), e)
<1>1. /\ saved = Saved(rows[e], t)
      /\ rows[e] \in Row \union {NoRow}
      /\ t \in Entry \union {NotTracked}
      BY DEF SavedRows, Inv, StoreTypeOK
<1>2. rows[e] # NoRow => From(rows[e], S)
  <2>1. ChangesOf(landed, e) \subseteq S
        BY DEF ChangesOf
  <2> QED BY <2>1, FromGrows DEF Inv, RowsFrom
<1>3. CASE t = NotTracked
      BY <1>1, <1>2, <1>3 DEF Saved
<1>4. CASE t # NotTracked
  <2>1. t \in Entry /\ t.current \in Row /\ t.original \in Row \union {NoRow}
        BY <1>1, <1>4 DEF Entry
  <2>2. /\ From(t.current, S)
        /\ t.original # NoRow =>
             /\ rows[e] # NoRow
             /\ t.original.createdAt = rows[e].createdAt
             /\ t.current.createdAt = rows[e].createdAt
        BY <1>4 DEF Inv, HandlerOK, EntryOK
  <2>3. CASE t.original = NoRow
    <3>1. saved = t.current /\ rows[e] = NoRow
          BY <1>1, <1>4, <2>3 DEF Saved, CanSave, KeysAreFree
    <3> QED BY <2>1, <2>2, <3>1
  <2>4. CASE t.original # NoRow
    <3> HIDE DEF S, saved
    <3>1. saved = [f \in Column |-> IF t.current[f] = t.original[f]
                                   THEN rows[e][f] ELSE t.current[f]]
          BY <1>1, <1>4, <2>4 DEF Saved
    <3>2. rows[e] \in Row /\ From(rows[e], S)
          BY <1>1, <1>2, <2>2, <2>4
    <3>3. saved \in Row
          BY <2>1, <3>1, <3>2 DEF Row, Column
    <3>4. /\ saved.createdAt = rows[e].createdAt
          /\ saved.updatedAt \in {rows[e].updatedAt, t.current.updatedAt}
          /\ saved.data \in {rows[e].data, t.current.data}
          /\ saved.deleted \in {rows[e].deleted, t.current.deleted}
          /\ saved.deletedAt \in {rows[e].deletedAt, t.current.deletedAt}
          BY <2>2, <2>4, <3>1 DEF Column
    <3>5. From(saved, S)
          BY <2>2, <2>4, <3>2, <3>4 DEF From
    <3> QED BY <3>3, <3>4, <3>5, DistinctAssumption DEF saved, S
  <2> QED BY <2>3, <2>4
<1> QED BY <1>3, <1>4

LEMMA TablesSaved ==
  ASSUME Inv, NEW h \in Handler, CanSave(h), rows' = SavedRows(h),
         landed' = landed \union Pending(h)
  PROVE  RowsFrom' /\ RowsKept /\ rows' \in [Entity -> Row \union {NoRow}]
<1>1. rows' = [e \in Entity |-> rows'[e]]
      BY DEF SavedRows
<1>2. \A e \in Entity : rows'[e] \in Row \union {NoRow}
      BY SavedFacts
<1>3. RowsFrom'
      BY SavedFacts DEF RowsFrom, From, ChangesOf
<1>4. RowsKept
      BY SavedFacts DEF RowsKept
<1> QED BY <1>1, <1>2, <1>3, <1>4

\* A save that brings a deleted row back.
LEMMA OnlyRestored ==
  ASSUME Inv, NEW h \in Handler, NEW e \in Entity, CanSave(h),
         rows' = SavedRows(h), rows[e] # NoRow, rows[e].deleted, ~rows'[e].deleted
  PROVE  \E c \in written[h] :
           c.entity = e /\ ~IsTombstone(c) /\ rows'[e].updatedAt = c.at
<1> DEFINE t == tracker[h][e]
<1>1. /\ rows'[e] = Saved(rows[e], t) /\ rows[e] \in Row
      /\ t \in Entry \union {NotTracked}
      BY DEF SavedRows, Inv, StoreTypeOK
<1>2. t # NotTracked
      BY <1>1 DEF Saved
<1>3. t.original # NoRow
      BY <1>2 DEF CanSave, KeysAreFree
<1>4. t.original \in Row /\ t.current \in Row
      BY <1>1, <1>2, <1>3 DEF Entry
<1>5. rows'[e] = [f \in Column |-> IF t.current[f] = t.original[f]
                                  THEN rows[e][f] ELSE t.current[f]]
      BY <1>1, <1>2, <1>3 DEF Saved
<1>6. t.original.deleted /\ ~t.current.deleted
  <2>1. rows'[e].deleted = IF t.current.deleted = t.original.deleted
                           THEN rows[e].deleted ELSE t.current.deleted
        BY <1>5 DEF Column
  <2> QED BY <1>4, <2>1 DEF Row
<1>7. PICK c \in written[h] :
        /\ c.entity = e /\ ~IsTombstone(c)
        /\ t.current.updatedAt = c.at /\ t.original.updatedAt < c.at
      BY <1>2, <1>3, <1>6 DEF Inv, HandlerOK, EntryOK, RestoredBy
<1>8. t.current.updatedAt # t.original.updatedAt
      BY <1>4, <1>7 DEF Row
<1>9. rows'[e].updatedAt = t.current.updatedAt
      BY <1>5, <1>8 DEF Column
<1> QED BY <1>7, <1>9

-----------------------------------------------------------------------------
(* The steps of a push                                                     *)

LEMMA BeginStep ==
  ASSUME Inv, NEW h \in Handler, NEW batch \in Batch, Begin(h, batch),
         UNCHANGED <<now, call, calls>>
  PROVE  Inv'
<1>1. StoreTypeOK'
      BY DEF Inv, StoreTypeOK, Begin, storeVars
<1>2. RequestTypeOK'
      BY BatchAssumption DEF Inv, RequestTypeOK, Begin
<1>3. ApiTypeOK'
      BY <1>2 DEF Inv, ApiTypeOK, RequestTypeOK, Begin, storeVars, Asking
<1>4. OthersKept(h)
      BY DEF Inv, RequestTypeOK, OthersKept, Begin, storeVars
<1>5. HandlerOK(h)'
  <2>1. tracker'[h] = EmptyContext /\ written'[h] = {} /\ pc'[h] = "applying"
        BY DEF Inv, ApiTypeOK, RequestTypeOK, HandlerOK, Begin, storeVars
  <2> QED BY <2>1, NothingHeld
<1>6. RowsFrom' /\ RowsKept
      BY TablesUntouched DEF Begin, storeVars
<1> QED BY <1>1, <1>2, <1>3, <1>4, <1>5, <1>6, StepTogether DEF Types

LEMMA ApplyStep ==
  ASSUME Inv, NEW h \in Handler, ApplyNext(h), UNCHANGED <<now, call, calls>>
  PROVE  Inv'
<1> DEFINE c == Head(todo[h])
<1>1. c \in Change /\ Applying(h, c)
      BY DEF Inv, RequestTypeOK, ApplyNext, Applying
<1> HIDE DEF c
<1>2. \/ Invalid(h, c) \/ DeleteAbsent(h, c) \/ Insert(h, c)
      \/ Conflict(h, c) \/ Overwrite(h, c)
      BY DEF ApplyNext, c
<1>3. CASE Invalid(h, c) \/ DeleteAbsent(h, c)
  <2>1. UNCHANGED <<tracker, written, rows, landed, pc, now, call, calls>>
        BY <1>1, <1>3 DEF Invalid, DeleteAbsent, RejectItem, Applying
  <2>2. todo' \in [Handler -> Seq(Change)]
    <3>1. Tail(todo[h]) \in Seq(Change)
          BY <1>1 DEF Inv, RequestTypeOK, Applying
    <3> QED BY <1>1, <3>1 DEF Inv, RequestTypeOK, Applying
  <2>3. Types'
        BY <2>1, <2>2 DEF Inv, Types, ApiTypeOK, StoreTypeOK, RequestTypeOK
  <2>4. RowsFrom' /\ RowsKept /\ OthersKept(h)
        BY <2>1, TablesUntouched DEF OthersKept
  <2>5. HandlerOK(h)'
        BY <2>1, <2>4, HandlerKept DEF Inv
  <2> QED BY <2>3, <2>4, <2>5, StepTogether
<1> QED BY <1>1, <1>2, <1>3, InsertStep, ConflictStep, OverwriteStep

LEMMA PushStep ==
  ASSUME Inv, NEW h \in Handler, UNCHANGED <<now, call, calls>>,
         \/ \E batch \in Batch : Begin(h, batch)
         \/ ApplyNext(h) \/ ApplyThrows(h) \/ Save(h) \/ SaveThrows(h) \/ Abort(h)
  PROVE  Inv'
<1>1. pc[h] = "applying" => call' = [call EXCEPT ![h] = NoCall]
      BY DEF Inv, ApiTypeOK, Asking
<1>2. CASE Save(h)
  <2>1. Pending(h) = written[h] /\ pc[h] = "applying"
        BY <1>2 DEF Save, Pending
  <2>2. RowsFrom' /\ RowsKept /\ rows' \in [Entity -> Row \union {NoRow}]
        BY <1>2, <2>1, TablesSaved DEF Save
  <2> QED BY <1>1, <1>2, <2>1, <2>2, EndStep DEF Save
<1>3. CASE ApplyThrows(h) \/ SaveThrows(h) \/ Abort(h)
  <2>1. End(h) /\ pc[h] = "applying" /\ UNCHANGED <<rows, landed>>
        BY <1>3 DEF ApplyThrows, SaveThrows, Abort
  <2>2. RowsFrom' /\ RowsKept /\ rows' \in [Entity -> Row \union {NoRow}]
        BY <2>1, TablesUntouched DEF Inv, StoreTypeOK
  <2> QED BY <1>1, <2>1, <2>2, EndStep
<1> QED BY <1>2, <1>3, BeginStep, ApplyStep

-----------------------------------------------------------------------------
(* The steps of a web request                                              *)

LEMMA CallFacts ==
  ASSUME NEW w \in Call
  PROVE  /\ w # NoCall /\ w.entity \in Entity /\ w.data \in Data \union {Bad}
         /\ w.op \in {"Create", "Update", "Delete"}
BY CallAssumption DEF CallType

\* A request that enters with tracker' for its context.
LEMMA EnterStep ==
  ASSUME Inv, NEW h \in Handler, NEW w \in Call, NEW state \in {"checking", "ready"},
         Enter(h, w, state), StoreTypeOK',
         \A g \in Handler \ {h} : tracker'[g] = tracker[g],
         HandlerOK(h)'
  PROVE  Inv'
<1>1. /\ pc' = [pc EXCEPT ![h] = state] /\ call' = [call EXCEPT ![h] = w]
      /\ calls' = calls + 1 /\ calls < MaxCalls
      /\ UNCHANGED <<todo, written, rows, landed, now>>
      BY DEF Enter, NoLists
<1>2. RequestTypeOK'
      BY <1>1 DEF Inv, RequestTypeOK, Asking
<1>3. calls' \in 0..MaxCalls
      BY <1>1, BoundAssumption DEF Inv, ApiTypeOK
<1>4. ApiTypeOK'
      BY <1>1, <1>2, <1>3, CallFacts DEF Inv, ApiTypeOK, RequestTypeOK, Asking
<1>5. OthersKept(h)
      BY <1>1 DEF Inv, ApiTypeOK, RequestTypeOK, OthersKept
<1>6. RowsFrom' /\ RowsKept
      BY <1>1, TablesUntouched
<1> QED BY <1>2, <1>4, <1>5, <1>6, StepTogether DEF Types

LEMMA AskCreateStep ==
  ASSUME Inv, NEW h \in Handler, NEW w \in Call, AskName(h, w) \/ AskNothing(h, w)
  PROVE  Inv'
<1>1. PICK state \in {"checking", "ready"} : Enter(h, w, state)
      BY DEF AskName, AskNothing
<1>2. w.op = "Create" /\ tracker' = tracker /\ rows' = rows
      BY <1>1 DEF AskName, AskNothing, Enter
<1>3. HandlerOK(h)'
  <2>1. tracker'[h] = EmptyContext /\ written'[h] = {} /\ call'[h] = w
        BY <1>1, <1>2 DEF Enter, NoLists, Inv, ApiTypeOK, HandlerOK
  <2> QED BY <1>2, <2>1, NothingHeld
<1> QED BY <1>1, <1>2, <1>3, EnterStep DEF Inv, StoreTypeOK

LEMMA AskRowStep ==
  ASSUME Inv, NEW h \in Handler, NEW w \in Call, AskRow(h, w)
  PROVE  Inv'
<1> DEFINE x == w.entity
           t2 == [original |-> rows[x], current |-> rows[x]]
<1>1. PICK state \in {"checking", "ready"} : Enter(h, w, state)
      BY DEF AskRow
<1>2. x \in Entity /\ rows[x] \in Row /\ rows[x] # NoRow
      BY CallFacts DEF AskRow, IsLive, Inv, StoreTypeOK
<1>3. /\ tracker[h] = EmptyContext /\ written'[h] = {} /\ call'[h] = w
      /\ pc'[h] = state /\ UNCHANGED <<rows, landed>>
      BY <1>1 DEF Enter, NoLists, Inv, ApiTypeOK, RequestTypeOK, HandlerOK
<1>4. tracker' = [tracker EXCEPT ![h][x] = t2] /\ t2 \in Entry
      BY <1>2, <1>3 DEF AskRow, Track, EmptyContext, Inv, StoreTypeOK, Entry
<1>5. StoreTypeOK' /\ \A g \in Handler \ {h} : tracker'[g] = tracker[g]
      BY <1>2, <1>3, <1>4 DEF Inv, StoreTypeOK
<1>6. /\ tracker'[h][x] = t2
      /\ \A e \in Entity \ {x} : tracker'[h][e] = NotTracked
      BY <1>2, <1>3, <1>4 DEF Inv, StoreTypeOK, EmptyContext
<1>7. EntryOK(h, x)'
  <2>1. From(rows[x], ChangesOf(landed, x)) /\ Pending(h)' = {}
        BY <1>2, <1>3 DEF Inv, RowsFrom, Pending
  <2>2. ChangesOf(landed, x) \subseteq ChangesOf(landed \union Pending(h)', x)
        BY DEF ChangesOf
  <2>3. From(rows[x], ChangesOf(landed \union Pending(h)', x))
        BY <2>1, <2>2, FromGrows
  <2>4. From(tracker[h][x].current, ChangesOf(landed \union Pending(h), x))'
        BY <1>3, <1>6, <2>3 DEF From, ChangesOf
  <2> QED BY <1>2, <1>3, <1>6, <2>4 DEF EntryOK
<1>8. HandlerOK(h)'
  <2>1. t2 # NotTracked
        BY <1>4, DistinctAssumption
  <2> QED BY <1>3, <1>6, <1>7, <2>1 DEF HandlerOK, EntryOK
<1> QED BY <1>1, <1>5, <1>8, EnterStep

LEMMA AskCategoryStep ==
  ASSUME Inv, NEW h \in Handler, AskCategory(h)
  PROVE  Inv'
<1>1. /\ pc[h] = "checking" /\ pc' = [pc EXCEPT ![h] = "ready"]
      /\ UNCHANGED <<todo, written, rows, tracker, landed, now, call, calls>>
      BY DEF AskCategory, NoLists, storeVars
<1>2. Types'
      BY <1>1 DEF Inv, Types, ApiTypeOK, StoreTypeOK, RequestTypeOK, Asking
<1>3. RowsFrom' /\ RowsKept /\ OthersKept(h)
      BY <1>1, TablesUntouched DEF OthersKept, Inv, RequestTypeOK
<1>4. HandlerOK(h)'
  <2>1. /\ pc'[h] = "ready" /\ written[h] = {} /\ HandlerOK(h)
        /\ Pending(h) = {} /\ Pending(h)' = {}
        BY <1>1 DEF Inv, RequestTypeOK, HandlerOK, Pending
  <2>2. \A e \in Entity : EntryOK(h, e)'
        BY <1>1, <2>1 DEF HandlerOK, EntryOK, RestoredBy, From, ChangesOf
  <2> QED BY <1>1, <2>1, <2>2 DEF HandlerOK
<1> QED BY <1>2, <1>3, <1>4, StepTogether

\* The end of a web request that has saved nothing.
LEMMA LeaveStep ==
  ASSUME Inv, NEW h \in Handler, Leave(h), UNCHANGED <<rows, landed>>
  PROVE  Inv'
BY TablesUntouched, EndStep DEF Leave, Inv, StoreTypeOK

LEMMA WebSaveStep ==
  ASSUME Inv, NEW h \in Handler, WebSave(h)
  PROVE  Inv'
<1>1. Pending(h) = {AsChange(h)}
      BY DEF WebSave, Pending, Inv, HandlerOK
<1>2. RowsFrom' /\ RowsKept /\ rows' \in [Entity -> Row \union {NoRow}]
      BY <1>1, TablesSaved DEF WebSave
<1> QED BY <1>2, EndStep DEF WebSave, Leave

\* The row a web request makes has the columns of what it was and of the change.
LEMMA EditedFacts ==
  ASSUME Inv, NEW h \in Handler, Edit(h)
  PROVE  LET x == call[h].entity
             r == Edited(h)
             a == AsChange(h)'
         IN
         /\ x \in Entity /\ r \in Row /\ a.entity = x
         /\ tracker'[h][x].current = r
         /\ From(r, ChangesOf(landed \union {a}, x))
         /\ \/ tracker'[h][x].original = NoRow
            \/ /\ tracker[h][x] # NotTracked
               /\ tracker'[h][x].original = tracker[h][x].original
               /\ r.createdAt = tracker[h][x].current.createdAt
               /\ tracker[h][x].current.deleted => r.deleted
         /\ tracker' = [tracker EXCEPT ![h][x] =
                          [original |-> tracker'[h][x].original, current |-> r]]
         /\ tracker'[h][x].original \in Row \union {NoRow}
<1> DEFINE w == call[h]
           x == w.entity
           r == Edited(h)
           a == AsChange(h)'
           row == tracker[h][x].current
<1>1. /\ w \in Call /\ x \in Entity /\ w.data \in Data \union {Bad}
      /\ w.op \in {"Create", "Update", "Delete"} /\ now \in Nat
      /\ call' = call /\ r # Thrown
      BY CallFacts, BoundAssumption DEF Edit, Inv, ApiTypeOK, Asking
<1>2. CASE w.op = "Create"
  <2>1. r = NewRow(w.data, now)
        BY <1>2 DEF Edited
  <2>2. /\ r \in Row /\ r.createdAt = now /\ r.updatedAt = now
        /\ r.data = w.data /\ ~r.deleted /\ r.deletedAt = 0
        BY <1>1, <2>1, NewRowFacts
  <2>3. /\ tracker' = [tracker EXCEPT ![h][x] = [original |-> NoRow, current |-> r]]
        /\ tracker'[h][x] = [original |-> NoRow, current |-> r]
        BY <1>1, <1>2 DEF Edit, TrackAdded, Inv, StoreTypeOK
  <2>4. /\ a.entity = x /\ a.createdAt = now /\ a.at = now /\ a.data = w.data
        /\ ~IsTombstone(a) /\ DeletedAtOf(a) = 0
        BY <1>1, <1>2, <2>2, <2>3 DEF AsChange, IsTombstone, DeletedAtOf
  <2>5. From(r, {a})
        BY <1>1, <2>2, <2>4 DEF From
  <2>6. {a} \subseteq ChangesOf(landed \union {a}, x)
        BY <2>4 DEF ChangesOf
  <2>7. From(r, ChangesOf(landed \union {a}, x))
        BY <2>5, <2>6, FromGrows
  <2>8. tracker'[h][x].original = NoRow /\ tracker'[h][x].current = r
        BY <2>3
  <2> QED BY <1>1, <2>2, <2>3, <2>4, <2>7, <2>8
<1>3. CASE w.op # "Create"
  <2>1. /\ tracker[h][x] # NotTracked /\ tracker[h][x] \in Entry
        /\ row \in Row /\ tracker[h][x].original \in Row \union {NoRow}
        /\ From(row, ChangesOf(landed, x))
    <3>1. HandlerOK(h) /\ pc[h] = "ready" /\ written[h] = {}
          BY DEF Inv, HandlerOK, Edit
    <3>2. tracker[h][x] # NotTracked
          BY <1>3, <3>1 DEF HandlerOK
    <3>3. tracker[h][x] \in Entry
          BY <1>1, <3>2 DEF Inv, StoreTypeOK
    <3>4. EntryOK(h, x) /\ landed \union Pending(h) = landed
          BY <1>1, <3>1 DEF HandlerOK, Pending
    <3>5. From(row, ChangesOf(landed, x))
          BY <3>2, <3>4 DEF EntryOK
    <3> QED BY <3>2, <3>3, <3>5 DEF Entry
  <2>2. r = IF w.op = "Update" THEN Rewrite(row, w.data, now) ELSE SoftDelete(row, now)
        BY <1>3 DEF Edited
  <2>3. /\ r \in Row /\ r.createdAt = row.createdAt /\ r.updatedAt = now
        /\ r.data = IF w.op = "Update" THEN w.data ELSE row.data
        /\ r.deleted = IF w.op = "Update" THEN row.deleted ELSE TRUE
        /\ r.deletedAt = IF w.op = "Update" THEN row.deletedAt ELSE now
        /\ row.createdAt <= now
    <3>1. CASE w.op = "Update"
      <4>1. r = Rewrite(row, w.data, now)
            BY <2>2, <3>1
      <4>2. /\ r \in Row /\ r.createdAt = row.createdAt /\ r.updatedAt = now
            /\ r.data = w.data /\ r.deleted = row.deleted /\ row.createdAt <= now
            /\ r.deletedAt = row.deletedAt
        <5>1. Rewrite(row, w.data, now) # Thrown /\ w.data \in Data \union {Bad} /\ now \in Nat
              BY <1>1, <4>1
        <5> HIDE DEF row, r
        <5> QED BY <2>1, <4>1, <5>1, RewriteFacts
      <4> QED BY <3>1, <4>2
    <3>2. CASE w.op = "Delete"
      <4>1. r = SoftDelete(row, now)
            BY <2>2, <3>2
      <4>2. /\ r \in Row /\ r.createdAt = row.createdAt /\ r.updatedAt = now
            /\ r.data = row.data /\ r.deleted /\ row.createdAt <= now
            /\ r.deletedAt = now
            BY <1>1, <2>1, <4>1, SoftDeleteFacts
      <4>3. r.deleted = TRUE
            BY <4>2 DEF Row
      <4> QED BY <3>2, <4>2, <4>3
    <3> QED BY <1>1, <1>3, <3>1, <3>2
  <2> DEFINE t2 == [original |-> tracker[h][x].original, current |-> r]
  <2>4. tracker' = [tracker EXCEPT ![h][x] = t2] /\ tracker'[h][x] = t2
        BY <1>1, <1>3, <2>1 DEF Edit, Track, Inv, StoreTypeOK
  <2>5. /\ a.entity = x /\ a.at = now /\ a.isDeleted = FALSE
        /\ w.op = "Update" => a.data = w.data
        /\ w.op = "Delete" => IsTombstone(a) /\ DeletedAtOf(a) = now
        BY <1>1, <1>3, <2>3, <2>4 DEF AsChange, IsTombstone, DeletedAtOf
  <2>6. ChangesOf(landed, x) \subseteq ChangesOf(landed \union {a}, x)
        /\ a \in ChangesOf(landed \union {a}, x)
        BY <2>5 DEF ChangesOf
  <2>7. From(row, ChangesOf(landed \union {a}, x))
        BY <2>1, <2>6, FromGrows
  <2>8. From(r, ChangesOf(landed \union {a}, x))
    <3>1. r.data \in {c.data : c \in ChangesOf(landed \union {a}, x)}
          BY <1>1, <1>3, <2>3, <2>5, <2>6, <2>7 DEF From
    <3>2. \E c \in ChangesOf(landed \union {a}, x) : r.deleted <=> IsTombstone(c)
          BY <1>1, <1>3, <2>3, <2>5, <2>6, <2>7 DEF From
    <3>3. r.deletedAt \in {DeletedAtOf(c) : c \in ChangesOf(landed \union {a}, x)}
          BY <1>1, <1>3, <2>3, <2>5, <2>6, <2>7 DEF From
    <3> QED BY <2>3, <2>5, <2>6, <2>7, <3>1, <3>2, <3>3 DEF From
  <2>9. /\ tracker'[h][x].original = tracker[h][x].original
        /\ tracker'[h][x].current = r
        BY <2>4
  <2>10. row.deleted => r.deleted
        BY <2>3
  <2> QED BY <1>1, <2>1, <2>3, <2>4, <2>5, <2>8, <2>9, <2>10
<1> QED BY <1>2, <1>3

LEMMA EditStep ==
  ASSUME Inv, NEW h \in Handler, Edit(h)
  PROVE  Inv'
<1> DEFINE x == call[h].entity
           r == Edited(h)
           a == AsChange(h)'
<1>1. /\ pc[h] = "ready" /\ pc' = [pc EXCEPT ![h] = "saving"]
      /\ UNCHANGED <<todo, written, rows, landed, now, call, calls>>
      BY DEF Edit, NoLists
<1>2. /\ pc'[h] = "saving" /\ written[h] = {} /\ HandlerOK(h)
      /\ Pending(h) = {} /\ Pending(h)' = {a}
      BY <1>1 DEF Inv, RequestTypeOK, HandlerOK, Pending
<1> DEFINE t2 == [original |-> tracker'[h][x].original, current |-> r]
<1>3. t2 \in Entry /\ x \in Entity /\ tracker' = [tracker EXCEPT ![h][x] = t2]
      BY EditedFacts DEF Entry
<1> HIDE DEF t2
<1>4. /\ StoreTypeOK'
      /\ \A g \in Handler \ {h} : tracker'[g] = tracker[g]
      /\ \A e \in Entity \ {x} : tracker'[h][e] = tracker[h][e]
      BY <1>1, <1>3 DEF Inv, StoreTypeOK
<1>5. RequestTypeOK' /\ ApiTypeOK' /\ OthersKept(h)
      BY <1>1, <1>4 DEF Inv, RequestTypeOK, ApiTypeOK, Asking, OthersKept
<1>6. RowsFrom' /\ RowsKept
      BY <1>1, TablesUntouched
<1>7. EntryOK(h, x)'
  <2>1. /\ x \in Entity /\ tracker'[h][x].current = r
        /\ From(r, ChangesOf(landed \union {a}, x))
        BY EditedFacts
  <2>2. From(tracker[h][x].current, ChangesOf(landed \union Pending(h), x))'
        BY <1>1, <1>2, <2>1 DEF From, ChangesOf
  <2>3. tracker'[h][x].original # NoRow =>
          /\ tracker[h][x] # NotTracked
          /\ tracker'[h][x].original = tracker[h][x].original
          /\ r.createdAt = tracker[h][x].current.createdAt
          /\ tracker[h][x].current.deleted => r.deleted
        BY EditedFacts
  <2>4. EntryOK(h, x) /\ ~RestoredBy(h, x, tracker[h][x])
        BY <1>2, <2>1 DEF HandlerOK, RestoredBy
  <2> HIDE DEF r, a
  <2> QED BY <1>1, <1>2, <2>1, <2>2, <2>3, <2>4 DEF EntryOK
<1>8. ASSUME NEW e \in Entity \ {x}
      PROVE  EntryOK(h, e)'
  <2> DEFINE t == tracker[h][e]
  <2>1. EntryOK(h, e) /\ tracker'[h][e] = t
        BY <1>2, <1>4 DEF HandlerOK
  <2>2. ChangesOf(landed \union Pending(h), e) \subseteq
          ChangesOf(landed' \union Pending(h)', e)
        BY <1>1, <1>2 DEF ChangesOf
  <2>3. From(t.current, ChangesOf(landed \union Pending(h), e)) =>
          From(t.current, ChangesOf(landed' \union Pending(h)', e))
        BY <2>2, FromGrows
  <2>4. From(t.current, ChangesOf(landed \union Pending(h), e)) =>
          From(tracker[h][e].current, ChangesOf(landed \union Pending(h), e))'
        BY <2>1, <2>3 DEF From, ChangesOf
  <2>5. ~RestoredBy(h, e, t)
        BY <1>2 DEF RestoredBy
  <2> QED BY <1>1, <1>2, <2>1, <2>4, <2>5 DEF EntryOK
<1>9. HandlerOK(h)'
      BY <1>1, <1>2, <1>7, <1>8 DEF HandlerOK
<1> QED BY <1>4, <1>5, <1>6, <1>9, StepTogether DEF Types

-----------------------------------------------------------------------------
(* Which steps change the tables                                           *)

LEMMA OnlySavesChange ==
  ASSUME Inv, [ApiNext]_apiVars, rows' # rows
  PROVE  \E h \in Handler :
           /\ Save(h) \/ WebSave(h)
           /\ CanSave(h) /\ rows' = SavedRows(h) /\ landed' = landed \union Pending(h)
           /\ pc'[h] = "idle" /\ tracker'[h] = EmptyContext
<1>1. PICK h \in Handler : Save(h) \/ WebSave(h)
  <2>1. CASE Next
        BY <2>1 DEF Next, Begin, ApplyNext, ApplyThrows, SaveThrows, Abort, storeVars
  <2>2. ASSUME NEW h \in Handler, WebStep(h)
        PROVE  WebSave(h)
        BY <2>2 DEF WebStep, AskName, AskNothing, AskRow, Enter, AskCategory,
           CategoryMissing, Edit, EditThrows, WebSaveThrows, WebAbort, storeVars
  <2>3. ~Tick /\ ~UNCHANGED apiVars
        BY DEF Tick, apiVars, vars, storeVars
  <2> QED BY <2>1, <2>2, <2>3 DEF ApiNext
<1>2. /\ CanSave(h) /\ rows' = SavedRows(h) /\ End(h)
      /\ landed' = landed \union Pending(h)
      BY <1>1 DEF Save, WebSave, Leave, Pending, Inv, HandlerOK
<1>3. pc'[h] = "idle" /\ tracker'[h] = EmptyContext
      BY <1>2 DEF End, DisposeContext, Inv, RequestTypeOK, StoreTypeOK
<1> QED BY <1>1, <1>2, <1>3

-----------------------------------------------------------------------------
LEMMA InitInv == ApiInit => Inv
<1> SUFFICES ASSUME ApiInit PROVE Inv
    OBVIOUS
<1>1. ApiTypeOK /\ StoreTypeOK /\ RequestTypeOK
      BY BoundAssumption DEF ApiInit, Init, StoreInit, EmptyContext, ApiTypeOK,
         StoreTypeOK, RequestTypeOK, Asking
<1>2. RowsFrom /\ \A h \in Handler : HandlerOK(h)
      BY DEF ApiInit, Init, StoreInit, EmptyContext, RowsFrom, HandlerOK, EntryOK
<1> QED BY <1>1, <1>2 DEF Inv

LEMMA NextInv ==
  ASSUME Inv, [ApiNext]_apiVars
  PROVE  Inv'
<1>1. CASE Next /\ UNCHANGED <<now, call, calls, acked>>
      BY <1>1, PushStep DEF Next
<1>2. ASSUME NEW h \in Handler, WebStep(h)
      PROVE  Inv'
  <2>1. CASE \E w \in Call : AskName(h, w) \/ AskNothing(h, w) \/ AskRow(h, w)
        BY <2>1, AskCreateStep, AskRowStep
  <2>2. CASE CategoryMissing(h) \/ EditThrows(h) \/ WebSaveThrows(h) \/ WebAbort(h)
        BY <2>2, LeaveStep DEF CategoryMissing, EditThrows, WebSaveThrows, WebAbort
  <2> QED BY <1>2, <2>1, <2>2, AskCategoryStep, EditStep, WebSaveStep DEF WebStep
<1>3. CASE Tick \/ UNCHANGED apiVars
  <2>1. UNCHANGED <<rows, tracker, pc, todo, written, landed, call, calls>>
        BY <1>3 DEF Tick, apiVars, vars, storeVars, requestVars
  <2>2. now' \in 1..MaxTime
        BY <1>3, BoundAssumption DEF Tick, apiVars, Inv, ApiTypeOK
  <2>3. Types'
        BY <2>1, <2>2 DEF Inv, Types, ApiTypeOK, StoreTypeOK, RequestTypeOK
  <2>4. RowsFrom' /\ RowsKept
        BY <2>1, TablesUntouched
  <2>5. \A h \in Handler : HandlerOK(h)'
        BY <2>1, <2>4, HandlerKept DEF Inv
  <2> QED BY <2>3, <2>4, <2>5 DEF Inv, Types
<1> QED BY <1>1, <1>2, <1>3 DEF ApiNext

THEOREM InvHolds == ApiSpec => []Inv
BY InitInv, NextInv, PTL DEF ApiSpec

\* Handlers, the clock and the requests keep their types, and a handler that
\* serves nothing holds nothing.
THEOREM TypeCorrect == ApiSpec => []ApiTypeOK
<1>1. Inv => ApiTypeOK
      BY DEF Inv
<1> QED BY <1>1, InvHolds, PTL

\* However many pushes and web requests overlap, every column of every row comes
\* from a change that landed.
THEOREM ColumnsLanded == ApiSpec => []ColumnsFromLanded
<1>1. Inv => ColumnsFromLanded
      BY DEF Inv, RowsFrom, From, ChangesOf, ColumnsFromLanded
<1> QED BY <1>1, InvHolds, PTL

\* Only a pushed upsert brings a deleted row back, whatever overlaps with it.
THEOREM OnlyUpsertsRestore == ApiSpec => OnlyPushesRestore
<1> DEFINE Restores ==
      \A e \in Entity :
        rows[e] # NoRow /\ rows[e].deleted /\ ~rows'[e].deleted =>
          \E h \in Handler : \E c \in written[h] :
            c.entity = e /\ ~IsTombstone(c) /\ rows'[e].updatedAt = c.at
<1>1. ASSUME Inv, [ApiNext]_apiVars
      PROVE  Restores
  <2> SUFFICES ASSUME NEW e \in Entity,
                      rows[e] # NoRow, rows[e].deleted, ~rows'[e].deleted
               PROVE  \E h \in Handler : \E c \in written[h] :
                        c.entity = e /\ ~IsTombstone(c) /\ rows'[e].updatedAt = c.at
      OBVIOUS
  <2>1. PICK h \in Handler : CanSave(h) /\ rows' = SavedRows(h)
    <3>1. rows' # rows
          OBVIOUS
    <3> QED BY <1>1, <3>1, OnlySavesChange
  <2> QED BY <1>1, <2>1, OnlyRestored
<1>2. Inv /\ [ApiNext]_apiVars => [Restores]_apiVars
      BY <1>1
<1> QED BY <1>2, InvHolds, PTL DEF ApiSpec, OnlyPushesRestore

-----------------------------------------------------------------------------
(* A row's identity and its versions                                       *)

\* A row is created once, and keeps its CreatedAt.
THEOREM CreatedOnceHolds == ApiSpec => CreatedOnce
<1> DEFINE Stays ==
      \A e \in Entity :
        rows[e] # NoRow => rows'[e] # NoRow /\ rows'[e].createdAt = rows[e].createdAt
<1>1. ASSUME Inv, [ApiNext]_apiVars
      PROVE  Stays
  <2>1. CASE rows' = rows
        BY <2>1
  <2>2. CASE rows' # rows
    <3>1. RowsKept
          BY <1>1, <2>2, OnlySavesChange, TablesSaved
    <3> QED BY <3>1 DEF RowsKept
  <2> QED BY <2>1, <2>2
<1>2. Inv /\ [ApiNext]_apiVars => [Stays]_apiVars
      BY <1>1
<1> QED BY <1>2, InvHolds, PTL DEF ApiSpec, CreatedOnce

-----------------------------------------------------------------------------
(* What a web request holds                                                *)

\* It tracks its own row only, which was live when it was read, and writes a time
\* of the server that has passed.
WebOK(h) ==
  LET x == call[h].entity IN
  /\ pc[h] \in Asking => \A e \in Entity \ {x} : tracker[h][e] = NotTracked
  /\ pc[h] \in {"checking", "ready"} /\ call[h].op # "Create" =>
       ~tracker[h][x].current.deleted
  /\ pc[h] = "saving" => tracker[h][x].current.updatedAt \in 0..now

WebInv == \A h \in Handler : WebOK(h)

\* One handler acts at a time.
LEMMA OneActs ==
  ASSUME Inv, ApiNext, ~Tick
  PROVE  \E h \in Handler :
           /\ OthersKept(h) /\ now' = now
           /\ pc'[h] \in Asking => WebStep(h)
<1> USE DEF Inv, ApiTypeOK, RequestTypeOK, StoreTypeOK
<1>1. CASE Next /\ UNCHANGED <<now, call, calls, acked>>
  <2>1. PICK h \in Handler :
          \/ \E batch \in Batch : Begin(h, batch)
          \/ ApplyNext(h)
          \/ ApplyThrows(h) \/ Save(h) \/ SaveThrows(h) \/ Abort(h)
        BY <1>1 DEF Next
  <2>2. /\ pc'[h] \in {"applying", "idle"}
        /\ \A g \in Handler \ {h} : pc'[g] = pc[g]
        BY <2>1 DEF Begin, ApplyNext, ApplyThrows, Save, SaveThrows, Abort, End
  <2>3. \A g \in Handler \ {h} : written'[g] = written[g]
    <3>1. CASE ApplyNext(h)
          BY <3>1 DEF ApplyNext, Invalid, DeleteAbsent, Insert, Conflict, Overwrite,
             AcceptWrite, AcceptItem, RejectItem
    <3> QED BY <2>1, <3>1 DEF Begin, ApplyThrows, Save, SaveThrows, Abort, End
  <2>4. \A g \in Handler \ {h} : tracker'[g] = tracker[g]
    <3>1. CASE ApplyNext(h)
          BY <3>1 DEF ApplyNext, Invalid, DeleteAbsent, Insert, Conflict, Overwrite,
             Track, TrackAdded
    <3> QED BY <2>1, <3>1 DEF Begin, storeVars, ApplyThrows, Save, SaveThrows, Abort,
            End, DisposeContext
  <2> QED BY <1>1, <2>2, <2>3, <2>4 DEF OthersKept, Asking
<1>2. ASSUME NEW h \in Handler, WebStep(h)
      PROVE  OthersKept(h) /\ now' = now
  <2>1. CASE \E w \in Call : AskName(h, w) \/ AskNothing(h, w) \/ AskRow(h, w)
        BY <2>1 DEF AskName, AskNothing, AskRow, Enter, NoLists, Track, OthersKept
  <2>2. CASE AskCategory(h) \/ Edit(h)
        BY <2>2 DEF AskCategory, Edit, NoLists, storeVars, Track, TrackAdded, OthersKept
  <2>3. CASE CategoryMissing(h) \/ EditThrows(h) \/ WebSave(h) \/ WebSaveThrows(h)
             \/ WebAbort(h)
        BY <2>3 DEF CategoryMissing, EditThrows, WebSave, WebSaveThrows, WebAbort,
           Leave, End, DisposeContext, OthersKept
  <2> QED BY <1>2, <2>1, <2>2, <2>3 DEF WebStep
<1> QED BY <1>1, <1>2 DEF ApiNext

LEMMA WebKept ==
  ASSUME NEW h \in Handler, WebOK(h), tracker'[h] = tracker[h], pc'[h] = pc[h],
         call'[h] = call[h], now \in Nat, now' \in {now, now + 1}
  PROVE  WebOK(h)'
BY DEF WebOK

LEMMA WebStepKept ==
  ASSUME Inv, NEW h \in Handler, WebOK(h), WebStep(h)
  PROVE  WebOK(h)'
<1> USE DEF Inv, ApiTypeOK, RequestTypeOK, StoreTypeOK
<1>1. ASSUME NEW w \in Call, AskName(h, w) \/ AskNothing(h, w)
      PROVE  WebOK(h)'
  <2>1. /\ pc'[h] \in {"checking", "ready"} /\ call'[h] = w /\ w.op = "Create"
        /\ tracker'[h] = EmptyContext
        BY <1>1 DEF AskName, AskNothing, Enter
  <2> QED BY <2>1 DEF WebOK, EmptyContext
<1>2. ASSUME NEW w \in Call, AskRow(h, w)
      PROVE  WebOK(h)'
  <2> DEFINE x == w.entity
             t2 == [original |-> rows[x], current |-> rows[x]]
  <2>1. /\ pc'[h] \in {"checking", "ready"} /\ call'[h] = w /\ x \in Entity
        /\ tracker[h] = EmptyContext
        BY <1>2, CallFacts DEF AskRow, Enter
  <2>2. tracker'[h] = [EmptyContext EXCEPT ![x] = t2] /\ ~rows[x].deleted
        BY <1>2, <2>1 DEF AskRow, Track, EmptyContext, IsLive
  <2>3. tracker'[h][x].current = rows[x]
        BY <2>1, <2>2 DEF EmptyContext
  <2> QED BY <2>1, <2>2, <2>3 DEF WebOK, EmptyContext
<1>3. CASE AskCategory(h)
  <2>1. pc[h] = "checking" /\ pc'[h] = "ready" /\ UNCHANGED <<tracker, call>>
        BY <1>3 DEF AskCategory, storeVars
  <2> QED BY <2>1 DEF WebOK, Asking
<1>4. CASE Edit(h)
  <2> DEFINE x == call[h].entity
             r == Edited(h)
             w == call[h]
             row == tracker[h][x].current
  <2>1. /\ pc[h] = "ready" /\ pc'[h] = "saving" /\ UNCHANGED <<call, now>>
        /\ w \in Call /\ x \in Entity /\ now \in Nat /\ r # Thrown
        BY <1>4, BoundAssumption, CallFacts DEF Edit, Asking
  <2>2. tracker'[h][x].current = r
        BY <1>4, EditedFacts
  <2>3. \A e \in Entity \ {x} : tracker'[h][e] = tracker[h][e]
        BY <1>4 DEF Edit, Track, TrackAdded
  <2>4. r.updatedAt = now
    <3>1. CASE w.op = "Create"
          BY <2>1, <3>1 DEF Edited, NewRow
    <3>2. CASE w.op = "Update"
      <4>1. r = Rewrite(row, w.data, now)
            BY <3>2 DEF Edited
      <4>2. Rewrite(row, w.data, now).updatedAt = now
        <5>1. Rewrite(row, w.data, now) # Thrown
              BY <2>1, <4>1
        <5> HIDE DEF row
        <5> QED BY <5>1 DEF Rewrite, Mutate, Column
      <4> QED BY <4>1, <4>2
    <3>3. CASE w.op = "Delete"
      <4>1. r = SoftDelete(row, now)
            BY <3>3 DEF Edited
      <4>2. SoftDelete(row, now).updatedAt = now
        <5>1. SoftDelete(row, now) # Thrown
              BY <2>1, <4>1
        <5> HIDE DEF row
        <5> QED BY <5>1 DEF SoftDelete, Mutate, Column
      <4> QED BY <4>1, <4>2
    <3> QED BY <2>1, <3>1, <3>2, <3>3, CallFacts
  <2> HIDE DEF r
  <2>5. tracker'[h][x].current.updatedAt \in 0..now
        BY <2>1, <2>2, <2>4
  <2> QED BY <2>1, <2>3, <2>5 DEF WebOK, Asking
<1>5. CASE CategoryMissing(h) \/ EditThrows(h) \/ WebSave(h) \/ WebSaveThrows(h)
           \/ WebAbort(h)
  <2>1. pc'[h] = "idle"
        BY <1>5 DEF CategoryMissing, EditThrows, WebSave, WebSaveThrows, WebAbort,
           Leave, End
  <2> QED BY <2>1 DEF WebOK, Asking
<1> QED BY <1>1, <1>2, <1>3, <1>4, <1>5 DEF WebStep

LEMMA WebNext ==
  ASSUME Inv, WebInv, [ApiNext]_apiVars
  PROVE  WebInv'
<1>0. now \in Nat
      BY BoundAssumption DEF Inv, ApiTypeOK
<1>1. CASE UNCHANGED apiVars \/ Tick
  <2>1. UNCHANGED <<tracker, pc, call>> /\ now' \in {now, now + 1}
        BY <1>1 DEF apiVars, vars, storeVars, requestVars, Tick
  <2> QED BY <1>0, <2>1, WebKept DEF WebInv
<1>2. CASE ApiNext /\ ~Tick
  <2>1. PICK h \in Handler :
          /\ OthersKept(h) /\ now' = now
          /\ pc'[h] \in Asking => WebStep(h)
        BY <1>2, OneActs
  <2>2. WebOK(h)'
    <3>1. CASE pc'[h] \in Asking
          BY <2>1, <3>1, WebStepKept DEF WebInv
    <3>2. CASE pc'[h] \notin Asking
          BY <3>2 DEF WebOK, Asking
    <3> QED BY <3>1, <3>2
  <2>3. ASSUME NEW g \in Handler, g # h
        PROVE  WebOK(g)'
        BY <1>0, <2>1, <2>3, WebKept DEF WebInv, OthersKept
  <2> QED BY <2>2, <2>3 DEF WebInv
<1> QED BY <1>1, <1>2

THEOREM WebInvHolds == ApiSpec => []WebInv
<1>1. ApiInit => WebInv
      BY DEF ApiInit, Init, WebInv, WebOK, Asking
<1>2. Inv /\ WebInv /\ [ApiNext]_apiVars => WebInv'
      BY WebNext
<1> QED BY <1>1, <1>2, InvHolds, PTL DEF ApiSpec

\* A save that lowers the version of a row writes the version it has tracked.
LEMMA LoweredFacts ==
  ASSUME Inv, NEW h \in Handler, NEW e \in Entity, CanSave(h), rows' = SavedRows(h),
         rows[e] # NoRow, rows'[e].updatedAt < rows[e].updatedAt
  PROVE  LET t == tracker[h][e] IN
         /\ t \in Entry /\ t # NotTracked /\ t.original \in Row /\ t.original # NoRow
         /\ rows'[e].updatedAt = t.current.updatedAt
         /\ t.current.updatedAt # t.original.updatedAt
<1> DEFINE t == tracker[h][e]
<1>1. /\ rows'[e] = Saved(rows[e], t) /\ rows[e] \in Row
      /\ t \in Entry \union {NotTracked}
      BY DEF SavedRows, Inv, StoreTypeOK
<1>2. rows'[e].updatedAt # rows[e].updatedAt
      BY <1>1 DEF Row
<1>3. t # NotTracked
      BY <1>1, <1>2 DEF Saved
<1>4. t.original # NoRow
      BY <1>3 DEF CanSave, KeysAreFree
<1>5. t.original \in Row
      BY <1>1, <1>3, <1>4 DEF Entry
<1>6. rows'[e] = [f \in Column |-> IF t.current[f] = t.original[f]
                                  THEN rows[e][f] ELSE t.current[f]]
      BY <1>1, <1>3, <1>4 DEF Saved
<1>7. rows'[e].updatedAt = IF t.current.updatedAt = t.original.updatedAt
                           THEN rows[e].updatedAt ELSE t.current.updatedAt
      BY <1>6 DEF Column
<1> QED BY <1>1, <1>2, <1>3, <1>4, <1>5, <1>7

\* A version falls only to a push that read an older one, or to the server's clock.
THEOREM FallsExplained == ApiSpec => FallsAreExplained
<1> DEFINE Explained ==
      \A e \in Entity :
        rows[e] # NoRow /\ rows'[e].updatedAt < rows[e].updatedAt =>
          \E h \in Handler :
            /\ pc'[h] = "idle"
            /\ \/ /\ pc[h] = "applying" /\ ReadBefore(h, e)
                  /\ tracker[h][e].original.updatedAt < rows'[e].updatedAt
               \/ /\ pc[h] = "saving" /\ call[h].entity = e
                  /\ rows'[e].updatedAt <= now
<1>1. ASSUME Inv, WebInv, [ApiNext]_apiVars
      PROVE  Explained
  <2> SUFFICES ASSUME NEW e \in Entity, rows[e] # NoRow,
                      rows'[e].updatedAt < rows[e].updatedAt
               PROVE  \E h \in Handler :
                        /\ pc'[h] = "idle"
                        /\ \/ /\ pc[h] = "applying" /\ ReadBefore(h, e)
                              /\ tracker[h][e].original.updatedAt < rows'[e].updatedAt
                           \/ /\ pc[h] = "saving" /\ call[h].entity = e
                              /\ rows'[e].updatedAt <= now
      OBVIOUS
  <2>1. rows' # rows
    <3>1. rows[e].updatedAt \in Nat
          BY <1>1 DEF Inv, StoreTypeOK, Row
    <3> QED BY <3>1
  <2>2. PICK h \in Handler :
          /\ Save(h) \/ WebSave(h)
          /\ CanSave(h) /\ rows' = SavedRows(h) /\ pc'[h] = "idle"
        BY <1>1, <2>1, OnlySavesChange
  <2> DEFINE t == tracker[h][e]
  <2>3. /\ t \in Entry /\ t # NotTracked /\ t.original \in Row /\ t.original # NoRow
        /\ rows'[e].updatedAt = t.current.updatedAt
        /\ t.current.updatedAt # t.original.updatedAt
        BY <1>1, <2>2, LoweredFacts
  <2>4. CASE Save(h)
    <3>1. pc[h] = "applying"
          BY <2>4 DEF Save
    <3>2. t.original.updatedAt <= t.current.updatedAt
          BY <1>1, <2>3, <3>1 DEF Inv, HandlerOK, EntryOK
    <3>3. t.original.updatedAt \in Nat /\ t.current.updatedAt \in Nat
          BY <2>3 DEF Entry, Row
    <3>4. t.original.updatedAt < rows'[e].updatedAt
          BY <2>3, <3>2, <3>3
    <3> QED BY <2>2, <2>3, <3>1, <3>4 DEF ReadBefore
  <2>5. CASE WebSave(h)
    <3>1. pc[h] = "saving" /\ WebOK(h)
          BY <1>1, <2>5 DEF WebSave, WebInv
    <3>2. call[h].entity = e
          BY <2>3, <3>1 DEF WebOK, Asking
    <3>3. rows'[e].updatedAt \in 0..now
          BY <2>3, <3>1, <3>2 DEF WebOK
    <3>4. now \in Nat
          BY <1>1, BoundAssumption DEF Inv, ApiTypeOK
    <3> QED BY <2>2, <3>1, <3>2, <3>3, <3>4
  <2> QED BY <2>2, <2>4, <2>5
<1>2. Inv /\ WebInv /\ [ApiNext]_apiVars => [Explained]_apiVars
      BY <1>1
<1> QED BY <1>2, InvHolds, WebInvHolds, PTL DEF ApiSpec, FallsAreExplained

-----------------------------------------------------------------------------
(* One request at a time: the audit columns                                *)

\* A tracked row is consistent, and the row it was read from is as it was.
ContextCurrent(h, e) ==
  LET t == tracker[h][e] IN
  t # NotTracked =>
    /\ RowConsistent(t.current)
    /\ t.original # NoRow => t.original = rows[e]

\* What is added to Inv and WebInv for the audit columns.
AuditInv ==
  /\ \A e \in Entity : rows[e] # NoRow => RowConsistent(rows[e])
  /\ \A h \in Handler, e \in Entity : ContextCurrent(h, e)

LEMMA FoundConsistent ==
  ASSUME Inv, AuditInv, NEW h \in Handler, NEW e \in Entity, Found(h, e) # NoRow
  PROVE  RowConsistent(Found(h, e))
BY DEF AuditInv, ContextCurrent, Found

LEMMA AuditTrack ==
  ASSUME Inv, AuditInv, NEW h \in Handler, NEW x \in Entity, rows' = rows,
         NEW t2, tracker' = [tracker EXCEPT ![h][x] = t2],
         RowConsistent(t2.current), t2.original \in {NoRow, Origin(h, x)}
  PROVE  AuditInv'
<1>1. ASSUME NEW g \in Handler, NEW e \in Entity
      PROVE  ContextCurrent(g, e)'
  <2>1. ContextCurrent(g, e) /\ ContextCurrent(h, x)
        BY DEF AuditInv
  <2>2. CASE g = h /\ e = x
    <3>1. tracker'[g][e] = t2
          BY <2>2 DEF Inv, StoreTypeOK
    <3>2. t2.original # NoRow => t2.original = rows[x]
          BY <2>1 DEF ContextCurrent, Origin
    <3> QED BY <2>2, <3>1, <3>2 DEF ContextCurrent, RowConsistent
  <2>3. CASE ~(g = h /\ e = x)
    <3>1. tracker'[g][e] = tracker[g][e]
          BY <2>3 DEF Inv, StoreTypeOK
    <3> QED BY <2>1, <3>1 DEF ContextCurrent, RowConsistent
  <2> QED BY <2>2, <2>3
<1>2. \A e \in Entity : (rows[e] # NoRow => RowConsistent(rows[e]))'
      BY DEF AuditInv, RowConsistent
<1> QED BY <1>1, <1>2 DEF AuditInv

LEMMA AuditKept ==
  ASSUME AuditInv, UNCHANGED <<rows, tracker>>
  PROVE  AuditInv'
BY DEF AuditInv, ContextCurrent, RowConsistent

LEMMA AuditEnd ==
  ASSUME Inv, AuditInv, NEW h \in Handler, rows' = rows,
         tracker' = [tracker EXCEPT ![h] = EmptyContext]
  PROVE  AuditInv'
<1>1. ASSUME NEW g \in Handler, NEW e \in Entity
      PROVE  ContextCurrent(g, e)'
  <2>1. tracker'[g][e] = IF g = h THEN NotTracked ELSE tracker[g][e]
        BY DEF Inv, StoreTypeOK, EmptyContext
  <2> QED BY <2>1 DEF AuditInv, ContextCurrent, RowConsistent
<1> QED BY <1>1 DEF AuditInv, RowConsistent

\* A save writes what is tracked: nothing has changed since it was read.
LEMMA AuditSave ==
  ASSUME SingleHandler, Inv, AuditInv, NEW h \in Handler, CanSave(h),
         rows' = SavedRows(h), tracker'[h] = EmptyContext
  PROVE  AuditInv'
<1>1. ASSUME NEW e \in Entity, rows'[e] # NoRow
      PROVE  RowConsistent(rows'[e])
  <2> DEFINE t == tracker[h][e]
  <2>1. /\ rows'[e] = Saved(rows[e], t) /\ rows[e] \in Row \union {NoRow}
        /\ t \in Entry \union {NotTracked} /\ ContextCurrent(h, e)
        BY DEF SavedRows, Inv, StoreTypeOK, AuditInv
  <2>2. CASE t = NotTracked
        BY <1>1, <2>1, <2>2 DEF Saved, AuditInv
  <2>3. CASE t # NotTracked /\ t.original = NoRow
        BY <2>1, <2>3 DEF Saved, ContextCurrent
  <2>4. CASE t # NotTracked /\ t.original # NoRow
    <3>1. rows'[e] = [f \in Column |-> IF t.current[f] = t.original[f]
                                      THEN rows[e][f] ELSE t.current[f]]
          BY <2>1, <2>4 DEF Saved
    <3>2. t.original = rows[e] /\ RowConsistent(t.current)
          BY <2>1, <2>4 DEF ContextCurrent
    <3>3. \A f \in Column : rows'[e][f] = t.current[f]
          BY <3>1, <3>2
    <3> QED BY <3>2, <3>3 DEF RowConsistent, Column
  <2> QED BY <2>1, <2>2, <2>3, <2>4
<1>2. ASSUME NEW g \in Handler, NEW e \in Entity
      PROVE  ContextCurrent(g, e)'
  <2>1. g = h
        BY DEF SingleHandler
  <2> QED BY <2>1 DEF ContextCurrent, EmptyContext
<1> QED BY <1>1, <1>2 DEF AuditInv, RowConsistent

LEMMA AuditApply ==
  ASSUME Inv, AuditInv, NEW h \in Handler, ApplyNext(h)
  PROVE  AuditInv'
<1> DEFINE c == Head(todo[h])
           x == c.entity
<1>1. /\ c \in Change /\ rows' = rows /\ x \in Entity /\ pc[h] = "applying"
      /\ \/ Invalid(h, c) \/ DeleteAbsent(h, c) \/ Insert(h, c)
         \/ Conflict(h, c) \/ Overwrite(h, c)
      BY ChangeFacts DEF Inv, RequestTypeOK, ApplyNext
<1> HIDE DEF c
<1>2. CASE Invalid(h, c) \/ DeleteAbsent(h, c)
      BY <1>1, <1>2, AuditKept DEF Invalid, DeleteAbsent
<1>3. CASE Insert(h, c)
  <2> DEFINE t2 == [original |-> NoRow, current |-> InsertedRow(c)]
  <2>1. tracker' = [tracker EXCEPT ![h][x] = t2] /\ RowConsistent(InsertedRow(c))
        BY <1>1, <1>3, InsertedFacts DEF Insert, TrackAdded
  <2>2. RowConsistent(t2.current) /\ t2.original \in {NoRow, Origin(h, x)}
        BY <2>1
  <2> HIDE DEF t2
  <2> QED BY <1>1, <2>1, <2>2, AuditTrack
<1>4. ASSUME NEW r \in Row, Found(h, x) # NoRow, Track(h, x, r), RowConsistent(r)
      PROVE  AuditInv'
  <2> DEFINE t2 == [original |-> Origin(h, x), current |-> r]
  <2>1. tracker' = [tracker EXCEPT ![h][x] = t2]
        BY <1>1, <1>4, TrackedEntry
  <2>2. RowConsistent(t2.current) /\ t2.original \in {NoRow, Origin(h, x)}
        BY <1>4
  <2> HIDE DEF t2
  <2> QED BY <1>1, <2>1, <2>2, AuditTrack
<1>5. CASE Conflict(h, c)
      BY <1>1, <1>4, <1>5, FoundConsistent, FoundFacts DEF Conflict
<1>6. CASE Overwrite(h, c)
  <2> DEFINE row == Found(h, x)
             r == ChangedRow(c, row)
  <2>1. row # NoRow /\ row \in Row /\ RowConsistent(row) /\ r # Thrown /\ Track(h, x, r)
        BY <1>1, <1>6, FoundConsistent, FoundFacts DEF Overwrite
  <2>2. r \in Row /\ RowConsistent(r)
        BY <1>1, <2>1, ChangedFacts
  <2> HIDE DEF r
  <2> QED BY <1>4, <2>1, <2>2
<1> QED BY <1>1, <1>2, <1>3, <1>5, <1>6

LEMMA AuditEdit ==
  ASSUME Inv, WebInv, AuditInv, NEW h \in Handler, Edit(h)
  PROVE  AuditInv'
<1> DEFINE w == call[h]
           x == w.entity
           r == Edited(h)
           row == tracker[h][x].current
           t2 == [original |-> tracker'[h][x].original, current |-> r]
<1>1. /\ rows' = rows /\ pc[h] = "ready" /\ w \in Call /\ x \in Entity
      /\ now \in Nat /\ r # Thrown /\ w.data \in Data \union {Bad}
      BY CallFacts, BoundAssumption DEF Edit, Inv, ApiTypeOK, Asking
<1>2. /\ tracker' = [tracker EXCEPT ![h][x] = t2]
      /\ t2.original = NoRow \/ (tracker[h][x] # NotTracked
                                 /\ t2.original = tracker[h][x].original)
      BY EditedFacts
<1>3. t2.original \in {NoRow, Origin(h, x)}
      BY <1>2 DEF Origin
<1>4. w.op # "Create" => row \in Row /\ RowConsistent(row) /\ ~row.deleted
  <2>1. HAVE w.op # "Create"
  <2>2. tracker[h][x] # NotTracked /\ ~row.deleted
        BY <1>1, <2>1 DEF Inv, HandlerOK, WebInv, WebOK
  <2>3. tracker[h][x] \in Entry /\ ContextCurrent(h, x)
        BY <1>1, <2>2 DEF Inv, StoreTypeOK, AuditInv
  <2> QED BY <2>2, <2>3 DEF Entry, ContextCurrent
<1>5. RowConsistent(r)
  <2>1. CASE w.op = "Create"
    <3>1. r = NewRow(w.data, now)
          BY <2>1 DEF Edited
    <3> QED BY <1>1, <3>1, NewRowFacts DEF RowConsistent
  <2>2. CASE w.op = "Update"
    <3>1. r = Rewrite(row, w.data, now)
          BY <2>2 DEF Edited
    <3>2. Rewrite(row, w.data, now) # Thrown
          BY <1>1, <3>1
    <3> HIDE DEF row
    <3> QED BY <1>1, <1>4, <2>2, <3>1, <3>2, RewriteFacts DEF RowConsistent
  <2>3. CASE w.op = "Delete"
    <3>1. r = SoftDelete(row, now)
          BY <2>3 DEF Edited
    <3>2. SoftDelete(row, now) # Thrown
          BY <1>1, <3>1
    <3> HIDE DEF row
    <3> QED BY <1>1, <1>4, <2>3, <3>1, <3>2, SoftDeleteFacts DEF RowConsistent
  <2> QED BY <1>1, <2>1, <2>2, <2>3, CallFacts
<1>6. t2.current = r
      OBVIOUS
<1> HIDE DEF t2
<1> QED BY <1>1, <1>2, <1>3, <1>5, <1>6, AuditTrack

LEMMA AuditAsk ==
  ASSUME Inv, AuditInv, NEW h \in Handler, NEW w \in Call, AskRow(h, w)
  PROVE  AuditInv'
<1> DEFINE x == w.entity
           t2 == [original |-> rows[x], current |-> rows[x]]
<1>1. /\ x \in Entity /\ rows[x] # NoRow /\ rows' = rows
      /\ tracker[h] = EmptyContext /\ RowConsistent(rows[x])
      BY CallFacts DEF AskRow, IsLive, Enter, Inv, ApiTypeOK, AuditInv
<1>2. tracker' = [tracker EXCEPT ![h][x] = t2]
      BY <1>1 DEF AskRow, Track, EmptyContext, Inv, StoreTypeOK
<1>3. RowConsistent(t2.current) /\ t2.original \in {NoRow, Origin(h, x)}
      BY <1>1 DEF Origin, EmptyContext
<1> HIDE DEF t2
<1> QED BY <1>1, <1>2, <1>3, AuditTrack

LEMMA AuditNext ==
  ASSUME SingleHandler, Inv, WebInv, AuditInv, [ApiNext]_apiVars
  PROVE  AuditInv'
<1>1. CASE rows' # rows
      BY <1>1, OnlySavesChange, AuditSave
<1>2. CASE rows' = rows
  <2>1. ASSUME NEW h \in Handler, End(h)
        PROVE  AuditInv'
        BY <1>2, <2>1, AuditEnd DEF End, DisposeContext
  <2>2. CASE Next /\ UNCHANGED <<now, call, calls, acked>>
    <3>1. PICK h \in Handler :
            \/ \E batch \in Batch : Begin(h, batch)
            \/ ApplyNext(h)
            \/ ApplyThrows(h) \/ Save(h) \/ SaveThrows(h) \/ Abort(h)
          BY <2>2 DEF Next
    <3>2. CASE \E batch \in Batch : Begin(h, batch)
          BY <3>2, AuditKept DEF Begin, storeVars
    <3>3. CASE ApplyThrows(h) \/ Save(h) \/ SaveThrows(h) \/ Abort(h)
          BY <2>1, <3>3 DEF ApplyThrows, Save, SaveThrows, Abort
    <3> QED BY <3>1, <3>2, <3>3, AuditApply
  <2>3. ASSUME NEW h \in Handler, WebStep(h)
        PROVE  AuditInv'
    <3>1. ASSUME NEW w \in Call, AskName(h, w) \/ AskNothing(h, w) \/ AskRow(h, w)
          PROVE  AuditInv'
          BY <1>2, <3>1, AuditKept, AuditAsk DEF AskName, AskNothing
    <3>2. CASE AskCategory(h)
          BY <3>2, AuditKept DEF AskCategory, storeVars
    <3>3. CASE CategoryMissing(h) \/ EditThrows(h) \/ WebSave(h) \/ WebSaveThrows(h)
               \/ WebAbort(h)
          BY <2>1, <3>3 DEF CategoryMissing, EditThrows, WebSave, WebSaveThrows,
             WebAbort, Leave
    <3> QED BY <2>3, <3>1, <3>2, <3>3, AuditEdit DEF WebStep
  <2>4. CASE Tick \/ UNCHANGED apiVars
        BY <2>4, AuditKept DEF Tick, apiVars, vars, storeVars
  <2> QED BY <2>2, <2>3, <2>4 DEF ApiNext
<1> QED BY <1>1, <1>2

\* While requests do not overlap, web edits, deletions and pushes keep the audit
\* columns of every row in step with its version.
THEOREM SerialApiAudit ==
  ASSUME SingleHandler
  PROVE  ApiSpec => []AuditConsistent
<1>1. ApiInit => AuditInv
      BY DEF ApiInit, Init, StoreInit, EmptyContext, AuditInv, ContextCurrent
<1>2. Inv /\ WebInv /\ AuditInv /\ [ApiNext]_apiVars => AuditInv'
      BY AuditNext
<1>3. AuditInv => AuditConsistent
      BY DEF AuditInv, AuditConsistent, RowConsistent
<1> QED BY <1>1, <1>2, <1>3, InvHolds, WebInvHolds, PTL DEF ApiSpec
=============================================================================
