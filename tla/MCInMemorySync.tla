--------------------------- MODULE MCInMemorySync ---------------------------
(* An instance of InMemorySync for TLC: two entities and changes of two     *)
(* devices whose timestamps cross and tie.                                  *)
EXTENDS InMemorySync, TLC

CONSTANTS a, b, x, NoData

Upsert(e, t, d) ==
  [entity |-> e, op |-> "Upsert", at |-> t, isDeleted |-> FALSE, data |-> d,
   valid |-> TRUE]
Delete(e, t) ==
  [entity |-> e, op |-> "Delete", at |-> t, isDeleted |-> FALSE, data |-> NoData,
   valid |-> TRUE]

MCChange ==
  {Upsert(1, 1, a), Upsert(1, 2, b), Delete(1, 3), Upsert(2, 2, a), Upsert(2, 2, b),
   [Upsert(2, 3, a) EXCEPT !.isDeleted = TRUE],
   [Upsert(2, 4, x) EXCEPT !.valid = FALSE]}

\* The two orders of every pair, as a client that backs off may send them.
MCBatch == {<<c>> : c \in MCChange} \union {s \in MCChange \X MCChange : s[1] # s[2]}
=============================================================================
