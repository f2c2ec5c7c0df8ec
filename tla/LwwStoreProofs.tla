--------------------------- MODULE LwwStoreProofs ---------------------------
(***************************************************************************)
(* Proofs about LwwStore, for every set of entities and writes: in every   *)
(* reachable state the newest accepted write is the one that shows.        *)
(***************************************************************************)
EXTENDS LwwStore, TLAPS

View == {w.view : w \in Write} \union {NoView}

\* A batch that touches an entity has one newest write to it.
LEMMA NewestExists ==
  ASSUME NEW S \in SUBSET Write, NEW e \in Entity, Accept(S),
         \E w \in S : w.entity = e
  PROVE  \E w \in S : /\ w.entity = e
                      /\ IsNewestOf(w, S)
                      /\ reg[e] # NoView => reg[e].at < w.view.at
                      /\ reg'[e] = w.view
<1> DEFINE newest == CHOOSE w \in S : w.entity = e /\ IsNewestOf(w, S)
<1>1. \E w \in S : w.entity = e /\ IsNewestOf(w, S)
      BY DEF Accept
<1>2. newest \in S /\ newest.entity = e /\ IsNewestOf(newest, S)
      BY <1>1
<1>3. reg'[e] = newest.view
      BY DEF Accept
<1>4. IsNewer(newest)
      BY <1>2 DEF Accept
<1> QED BY <1>2, <1>3, <1>4 DEF IsNewer

LEMMA AcceptType ==
  ASSUME TypeOK, NEW S \in SUBSET Write, Accept(S)
  PROVE  TypeOK'
<1>1. \A e \in Entity : reg'[e] \in View
  <2> SUFFICES ASSUME NEW e \in Entity PROVE reg'[e] \in View
      OBVIOUS
  <2>1. CASE \E w \in S : w.entity = e
        BY <2>1, NewestExists DEF View
  <2>2. CASE ~ \E w \in S : w.entity = e
    <3>1. reg'[e] = reg[e]
          BY <2>2 DEF Accept
    <3> QED BY <3>1 DEF TypeOK, View
  <2> QED BY <2>1, <2>2
<1>2. DOMAIN reg' = Entity /\ reg' = [e \in Entity |-> reg'[e]]
      BY DEF Accept
<1>3. accepted' \subseteq Write
      BY DEF Accept, TypeOK
<1> QED BY <1>1, <1>2, <1>3 DEF TypeOK, View

LEMMA AcceptNewest ==
  ASSUME WritesWellFormed, TypeOK, NewestWins, NEW S \in SUBSET Write, Accept(S)
  PROVE  NewestWins'
<1> SUFFICES ASSUME NEW w \in accepted'
             PROVE  reg'[w.entity] # NoView /\ w.view.at <= reg'[w.entity].at
    BY DEF NewestWins
<1> DEFINE e == w.entity
<1>1. w \in Write /\ e \in Entity /\ w.view.at \in Nat
      BY DEF WritesWellFormed, Accept, TypeOK
<1>2. CASE \E v \in S : v.entity = e
  <2>1. PICK v \in S : /\ v.entity = e
                       /\ IsNewestOf(v, S)
                       /\ reg[e] # NoView => reg[e].at < v.view.at
                       /\ reg'[e] = v.view
        BY <1>1, <1>2, NewestExists
  <2>2. v.view # NoView /\ v.view.at \in Nat
        BY DEF WritesWellFormed
  <2>3. CASE w \in S
        BY <1>1, <2>1, <2>2, <2>3 DEF IsNewestOf
  <2>4. CASE w \in accepted
    <3>1. reg[e] # NoView /\ w.view.at <= reg[e].at
          BY <2>4 DEF NewestWins
    <3>2. reg[e].at \in Nat
          BY <1>1, <3>1 DEF WritesWellFormed, TypeOK
    <3> QED BY <1>1, <2>1, <2>2, <3>1, <3>2
  <2> QED BY <2>3, <2>4 DEF Accept
<1>3. CASE ~ \E v \in S : v.entity = e
  <2>1. w \in accepted /\ reg'[e] = reg[e]
        BY <1>1, <1>3 DEF Accept
  <2> QED BY <2>1 DEF NewestWins
<1> QED BY <1>2, <1>3

\* The newest accepted write of every entity shows, in every reachable state of
\* every implementation of LwwStore.
THEOREM NewestAlwaysWins ==
  ASSUME WritesWellFormed
  PROVE  Spec => [](TypeOK /\ NewestWins)
<1>1. Init => TypeOK /\ NewestWins
      BY DEF Init, TypeOK, NewestWins
<1>2. TypeOK /\ NewestWins /\ [Next]_vars => (TypeOK /\ NewestWins)'
  <2> SUFFICES ASSUME TypeOK, NewestWins, [Next]_vars
               PROVE  (TypeOK /\ NewestWins)'
      OBVIOUS
  <2>1. CASE Next
        BY <2>1, AcceptType, AcceptNewest DEF Next
  <2>2. CASE UNCHANGED vars
        BY <2>2 DEF vars, TypeOK, NewestWins
  <2> QED BY <2>1, <2>2
<1> QED BY <1>1, <1>2, PTL DEF Spec
=============================================================================
