---------------------------- MODULE FinanceStore ----------------------------
(***************************************************************************)
(* The server's database as its request handlers see it: the Categories    *)
(* and Transactions tables with their constraints, the domain methods that *)
(* change a row, and the DbContext, one per request, that tracks the rows  *)
(* a request has read and writes the columns it has changed in one         *)
(* transaction.  No column is a concurrency token.                         *)
(*                                                                         *)
(* The tables of one user are modelled.  The data of a category is its     *)
(* normalised name, the data of a transaction its category; Bad stands for *)
(* the payloads the domain constructors refuse.                            *)
(***************************************************************************)
EXTENDS Naturals, FiniteSets

CONSTANTS Category,     \* category ids
          Transaction,  \* transaction ids
          Name,         \* normalised category names
          Handler,      \* requests in progress, each with its own DbContext
          NoCategory,   \* CategoryId is null
          Bad,          \* a payload that fails the domain checks
          NoRow,        \* no row with this key
          NotTracked,   \* the DbContext does not know this key
          Thrown        \* a domain method throws

VARIABLES rows,     \* the committed tables
          tracker   \* per request: the original and the current row of a key

storeVars == <<rows, tracker>>

Entity == Category \union Transaction
Data == Name \union Category \union {NoCategory}

Row == [createdAt : Nat, updatedAt : Nat, deleted : BOOLEAN, deletedAt : Nat,
        data : Data]
Column == {"createdAt", "updatedAt", "deleted", "deletedAt", "data"}

\* A tracked row: original is NoRow if the request has added it.
Entry == [original : Row \union {NoRow}, current : Row]

ASSUME DistinctAssumption ==
  NoRow \notin Row /\ Thrown \notin Row /\ NotTracked \notin Entry /\ Bad \notin Data

StoreTypeOK ==
  /\ rows \in [Entity -> Row \union {NoRow}]
  /\ tracker \in [Handler -> [Entity -> Entry \union {NotTracked}]]

EmptyContext == [e \in Entity |-> NotTracked]

StoreInit ==
  /\ rows = [e \in Entity |-> NoRow]
  /\ tracker = [h \in Handler |-> EmptyContext]

-----------------------------------------------------------------------------
(* The domain methods                                                      *)

NewRow(data, createdAt) ==
  IF data = Bad
  THEN Thrown
  ELSE [createdAt |-> createdAt, updatedAt |-> createdAt, deleted |-> FALSE,
        deletedAt |-> 0, data |-> data]

\* Assign some columns, then MarkUpdated, which refuses a time before CreatedAt.
Mutate(row, columns, at) ==
  IF row = Thrown
  THEN Thrown
  ELSE IF at < row.createdAt
  THEN Thrown
  ELSE [f \in Column |-> IF f \in DOMAIN columns THEN columns[f]
                         ELSE IF f = "updatedAt" THEN at ELSE row[f]]

\* Category.Rename and Transaction.Update.
Rewrite(row, data, at) ==
  IF data = Bad THEN Thrown ELSE Mutate(row, [data |-> data], at)

\* Variant: a restored row keeps the time of its deletion.
RestoreKeepsTime(row, at) == Mutate(row, [deleted |-> FALSE], at)

SoftDelete(row, at) == Mutate(row, [deleted |-> TRUE, deletedAt |-> at], at)
Restore(row, at) == Mutate(row, [deleted |-> FALSE, deletedAt |-> 0], at)

-----------------------------------------------------------------------------
(* The DbContext                                                           *)

\* A query by key goes to the database, soft-deleted rows included; a row the
\* context already tracks is returned as tracked, not as it is now.
Found(h, e) ==
  IF rows[e] = NoRow THEN NoRow
  ELSE IF tracker[h][e] = NotTracked THEN rows[e] ELSE tracker[h][e].current

\* After a query: the row is tracked, with the changes made to it since.
Track(h, e, row) ==
  tracker' = [tracker EXCEPT ![h][e] =
                [original |-> IF @ = NotTracked THEN rows[e] ELSE @.original,
                 current |-> row]]

\* DbSet.Add; it throws for a key that is tracked already.
CanAdd(h, e) == tracker[h][e] = NotTracked
TrackAdded(h, e, row) ==
  tracker' = [tracker EXCEPT ![h][e] = [original |-> NoRow, current |-> row]]

DisposeContext(h) == tracker' = [tracker EXCEPT ![h] = EmptyContext]

\* Variant: all columns of a tracked row are written, as DbSet.Update would.
SavedWhole(row, entry) == IF entry = NotTracked THEN row ELSE entry.current

\* What SaveChanges makes of a row: added rows are inserted, and of a changed
\* row the columns that differ from their original values are written.
Saved(row, entry) ==
  IF entry = NotTracked THEN row
  ELSE IF entry.original = NoRow THEN entry.current
  ELSE [f \in Column |-> IF entry.current[f] = entry.original[f]
                         THEN row[f] ELSE entry.current[f]]

SavedRows(h) == [e \in Entity |-> Saved(rows[e], tracker[h][e])]

\* Variant: an added row replaces the one that another request has inserted.
KeysIgnored(h) == TRUE

KeysAreFree(h) ==
  \A e \in Entity :
    tracker[h][e] # NotTracked /\ rows[e] # NoRow => tracker[h][e].original # NoRow

\* Foreign key Transactions.CategoryId, to a row that may be soft-deleted.
CategoriesExist(table) ==
  \A t \in Transaction :
    table[t] # NoRow /\ table[t].data # NoCategory => table[table[t].data] # NoRow

\* Unique index (UserId, NormalizedName) where IsDeleted = 0.
NamesAreUnique(table) ==
  \A c, d \in {e \in Category : table[e] # NoRow} :
    c # d /\ ~table[c].deleted /\ ~table[d].deleted => table[c].data # table[d].data

CanSave(h) ==
  /\ KeysAreFree(h)
  /\ CategoriesExist(SavedRows(h))
  /\ NamesAreUnique(SavedRows(h))
=============================================================================
