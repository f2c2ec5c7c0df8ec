---------------------------- MODULE MCFinanceApi ----------------------------
(* Instance of FinanceApi for TLC: pushes of a device that creates, renames *)
(* and deletes a category overlap with web requests that edit or delete it, *)
(* create another one, or add a transaction to it.                          *)
EXTENDS FinanceApi, TLC

CONSTANTS c1, c2, t1, Food, Rent, h1, h2

Upsert(i, e, t, d) ==
  [id |-> i, entity |-> e, op |-> "Upsert", at |-> t, createdAt |-> t,
   payloadAt |-> t, isDeleted |-> FALSE, deletedAt |-> 0, data |-> d, valid |-> TRUE]
Delete(i, e, t) ==
  [id |-> i, entity |-> e, op |-> "Delete", at |-> t, createdAt |-> 0,
   payloadAt |-> 0, isDeleted |-> FALSE, deletedAt |-> t, data |-> NoCategory,
   valid |-> TRUE]

Pushed == {Upsert(1, c1, 1, Food), Upsert(2, c1, 3, Rent), Delete(3, c1, 2)}
PushedBatch == 
  {<<c>> : c \in Pushed} \union
  {<<Upsert(1, c1, 1, Food), Delete(3, c1, 2)>>,
   <<Delete(3, c1, 2), Upsert(2, c1, 3, Rent)>>}

MCCall == {
  [op |-> "Create", entity |-> c2, data |-> Food],
  [op |-> "Update", entity |-> c1, data |-> Rent],
  [op |-> "Delete", entity |-> c1, data |-> NoCategory],
  [op |-> "Create", entity |-> t1, data |-> c1],
  [op |-> "Update", entity |-> t1, data |-> c1],
  [op |-> "Update", entity |-> c1, data |-> Bad]}
=============================================================================
