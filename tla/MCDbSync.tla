------------------------------ MODULE MCDbSync ------------------------------
(* Instances of DbSync for TLC: one category and one transaction id, the    *)
(* changes of two devices, timestamps that cross and tie.                   *)
EXTENDS DbSync, TLC

CONSTANTS c1, c2, t1, Food, Rent, h1, h2

\* A change the way SyncLab.razor stamps it: all its times are one.
Upsert(i, e, t, d) ==
  [id |-> i, entity |-> e, op |-> "Upsert", at |-> t, createdAt |-> t,
   payloadAt |-> t, isDeleted |-> FALSE, deletedAt |-> 0, data |-> d, valid |-> TRUE]
Delete(i, e, t) ==
  [id |-> i, entity |-> e, op |-> "Delete", at |-> t, createdAt |-> 0,
   payloadAt |-> 0, isDeleted |-> FALSE, deletedAt |-> t, data |-> NoCategory,
   valid |-> TRUE]

Pairs(S) == {<<c>> : c \in S} \union {p \in S \X S : p[1] # p[2]}

\* Requests that do not overlap: both tables and every kind of change.
SerialChange ==
  {Upsert(1, c1, 2, Food), Upsert(2, c1, 4, Rent), Delete(3, c1, 3),
   Upsert(4, c2, 3, Food), Upsert(5, t1, 3, c1),
   [Upsert(6, t1, 4, c2) EXCEPT !.createdAt = 1, !.isDeleted = TRUE, !.deletedAt = 4],
   Upsert(7, t1, 5, Bad), [Upsert(8, t1, 5, c1) EXCEPT !.valid = FALSE],
   [Upsert(9, c1, 5, Food) EXCEPT !.createdAt = 6], Upsert(10, c1, 4, Food)}
Chains(S) == {s \in S \X S \X S : s[1].at < s[2].at /\ s[2].at < s[3].at}
SerialBatch ==
  Pairs(SerialChange) \union Chains({c \in SerialChange : c.entity = c1})

\* One change per request.
SingleBatch == {<<c>> : c \in SerialChange}

\* Requests that overlap: renames, deletes and re-creations of one category, in
\* the order in which an outbox sends them.
RaceChange ==
  {Upsert(1, c1, 1, Food), Upsert(2, c1, 3, Rent), Upsert(3, c1, 3, Food),
   Delete(4, c1, 2)}
RaceBatch == {p \in Pairs(RaceChange) : Len(p) = 2 => p[1].at <= p[2].at}
=============================================================================
