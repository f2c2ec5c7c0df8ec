------------------------------ MODULE LwwStore ------------------------------
(***************************************************************************)
(* What the synchronisation service promises (docs/sync-spec.md, "Conflict *)
(* resolution"): one register per entity, and a write is accepted only if  *)
(* its timestamp is newer than the register's, so that the newest accepted *)
(* write wins whatever the order of arrival.                               *)
(***************************************************************************)
EXTENDS Naturals

CONSTANTS Entity,
          Write,    \* records with fields entity and view; a view has a field at
          NoView    \* what an entity shows before its first write

WritesWellFormed ==
  \A w \in Write : w.entity \in Entity /\ w.view # NoView /\ w.view.at \in Nat

VARIABLES reg,       \* what each entity shows
          accepted   \* every write ever accepted

vars == <<reg, accepted>>

Init ==
  /\ reg = [e \in Entity |-> NoView]
  /\ accepted = {}

IsNewer(w) == reg[w.entity] # NoView => reg[w.entity].at < w.view.at

\* w is the newest of the writes in S to its entity.
IsNewestOf(w, S) ==
  /\ w \in S
  /\ \A v \in S : v.entity = w.entity => v = w \/ v.view.at < w.view.at

\* One request: a batch of accepted writes takes effect at once.
Accept(S) ==
  /\ \A w \in S : IsNewer(w)
  /\ \A w \in S : \E v \in S : v.entity = w.entity /\ IsNewestOf(v, S)
  /\ reg' = [e \in Entity |->
               IF \E w \in S : w.entity = e
               THEN (CHOOSE w \in S : w.entity = e /\ IsNewestOf(w, S)).view
               ELSE reg[e]]
  /\ accepted' = accepted \union S

Next == \E S \in SUBSET Write : Accept(S)

Spec == Init /\ [][Next]_vars

TypeOK ==
  /\ reg \in [Entity -> {w.view : w \in Write} \union {NoView}]
  /\ accepted \subseteq Write

\* No accepted write is newer than what its entity shows.
NewestWins ==
  \A w \in accepted :
    reg[w.entity] # NoView /\ w.view.at <= reg[w.entity].at
=============================================================================
