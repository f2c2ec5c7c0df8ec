------------------------- MODULE InMemorySyncProofs -------------------------
(***************************************************************************)
(* Proofs about InMemorySync, for every set of entities, changes and       *)
(* batches: what a response reports as accepted is kept, and the service   *)
(* implements LwwStore.                                                    *)
(***************************************************************************)
EXTENDS InMemorySync, TLAPS

\* What the push handler and the dictionary agree on; the cursor is left out.
StoreInv ==
  /\ DOMAIN entities = Entity
  /\ entities \in [Entity -> View \union {NoView}]
  /\ todo \in Seq(Change)
  /\ applied \subseteq Change
  /\ accepted \subseteq applied
  /\ answered \subseteq applied

\* No applied change is newer than the state of its entity.
NewestKept ==
  \A c \in applied : /\ entities[c.entity] # NoView
                     /\ entities[c.entity].at >= c.at

Inv == StoreInv /\ NewestKept

LEMMA ViewFacts ==
  ASSUME NEW c \in Change
  PROVE  /\ c.entity \in Entity
         /\ c.at \in Nat
         /\ ViewOf(c) \in View
         /\ ViewOf(c) # NoView
         /\ ViewOf(c).at = c.at
BY ChangeAssumption, ViewAssumption DEF View, ViewOf

LEMMA StateTime ==
  ASSUME StoreInv, NEW e \in Entity, entities[e] # NoView
  PROVE  entities[e].at \in Nat
<1>1. PICK c \in Change : entities[e] = ViewOf(c)
      BY DEF StoreInv, View
<1> QED BY <1>1, ViewFacts

LEMMA StoreKeeps ==
  ASSUME Inv, NEW c \in Change, Store(c)
  PROVE  NewestKept'
<1> SUFFICES ASSUME NEW d \in applied'
             PROVE  /\ entities'[d.entity] # NoView
                    /\ entities'[d.entity].at >= d.at
    BY DEF NewestKept
<1>1. d \in Change /\ d.entity \in Entity /\ d.at \in Nat
      BY ViewFacts DEF Inv, StoreInv, Store
<1>2. CASE d.entity = c.entity
  <2>1. entities'[d.entity] = ViewOf(c)
        BY <1>1, <1>2 DEF Store, Inv, StoreInv
  <2>2. ViewOf(c) # NoView /\ ViewOf(c).at = c.at /\ c.at \in Nat
        BY ViewFacts
  <2>3. CASE d = c
        BY <2>1, <2>2, <2>3
  <2>4. CASE d \in applied
    <3>1. entities[d.entity] # NoView /\ entities[d.entity].at >= d.at
          BY <2>4 DEF Inv, NewestKept
    <3>2. c.at > entities[d.entity].at
          BY <1>2, <3>1 DEF Store, Wins
    <3>3. entities[d.entity].at \in Nat
          BY <1>1, <3>1, StateTime DEF Inv
    <3> QED BY <1>1, <2>1, <2>2, <3>1, <3>2, <3>3
  <2> QED BY <2>3, <2>4 DEF Store
<1>3. CASE d.entity # c.entity
  <2>1. d \in applied /\ entities'[d.entity] = entities[d.entity]
        BY <1>1, <1>3 DEF Store, Inv, StoreInv
  <2> QED BY <2>1 DEF Inv, NewestKept
<1> QED BY <1>2, <1>3

LEMMA StoreKeepsInv ==
  ASSUME Inv, NEW c \in Change, Store(c), todo' \in Seq(Change),
         UNCHANGED answered
  PROVE  Inv'
<1>1. StoreInv'
  <2>1. entities' \in [Entity -> View \union {NoView}]
        BY ViewFacts DEF Inv, StoreInv, Store
  <2> QED BY <2>1 DEF Inv, StoreInv, Store
<1> QED BY <1>1, StoreKeeps DEF Inv

LEMMA HeadTail ==
  ASSUME StoreInv, todo # <<>>
  PROVE  Head(todo) \in Change /\ Tail(todo) \in Seq(Change)
BY DEF StoreInv

LEMMA InitInv == Init => Inv
BY DEF Init, Inv, StoreInv, NewestKept

LEMMA NextInv == Inv /\ [Next]_vars => Inv'
<1> SUFFICES ASSUME Inv, [Next]_vars PROVE Inv'
    OBVIOUS
<1> USE DEF Inv, StoreInv, NewestKept
<1>1. ASSUME NEW batch \in Batch, BeginPush(batch) PROVE Inv'
      BY <1>1, BatchAssumption DEF BeginPush
<1>2. CASE ApplyNext
  <2>1. Head(todo) \in Change /\ Tail(todo) \in Seq(Change)
        BY <1>2, HeadTail DEF ApplyNext
  <2>2. CASE Store(Head(todo))
        BY <1>2, <2>1, <2>2, StoreKeepsInv DEF ApplyNext
  <2>3. CASE Reject(Head(todo))
        BY <1>2, <2>1, <2>3 DEF ApplyNext, Reject
  <2> QED BY <1>2, <2>2, <2>3 DEF ApplyNext
<1>3. CASE EndPush
      BY <1>3 DEF EndPush
<1>4. CASE CancelPush
      BY <1>4 DEF CancelPush
<1>5. CASE Pull
      BY <1>5 DEF Pull, pushVars
<1>6. CASE UNCHANGED vars
      BY <1>6 DEF vars, pushVars
<1> QED BY <1>1, <1>2, <1>3, <1>4, <1>5, <1>6 DEF Next

THEOREM Invariance == Spec => []Inv
BY InitInv, NextInv, PTL DEF Spec

\* Every change that a response reports as accepted is in the store or was
\* replaced there by a newer one.
THEOREM AnsweredChangesAreKept == Spec => []AnsweredIsKept
<1>1. Inv => AnsweredIsKept
      BY DEF Inv, StoreInv, NewestKept, AnsweredIsKept
<1> QED BY <1>1, Invariance, PTL

-----------------------------------------------------------------------------
WriteOf(c) == [entity |-> c.entity, view |-> ViewOf(c)]

LEMMA StoreRefines ==
  ASSUME Inv, NEW c \in Change, Store(c)
  PROVE  Lww!Next
<1> DEFINE S == {WriteOf(c)}
<1>1. S \in SUBSET {[entity |-> d.entity, view |-> ViewOf(d)] : d \in Change}
      BY DEF WriteOf
<1>2. \A w \in S : Lww!IsNewer(w)
      BY ViewFacts DEF WriteOf, Lww!IsNewer, Store, Wins
<1>3. \A w \in S : Lww!IsNewestOf(w, S)
      BY DEF Lww!IsNewestOf
<1>4. entities' = [e \in Entity |->
                     IF \E w \in S : w.entity = e
                     THEN (CHOOSE w \in S :
                             w.entity = e /\ Lww!IsNewestOf(w, S)).view
                     ELSE entities[e]]
  <2>1. ASSUME NEW e \in Entity, e = c.entity
        PROVE  (CHOOSE w \in S : w.entity = e /\ Lww!IsNewestOf(w, S)).view
                 = ViewOf(c)
        BY <1>3, <2>1 DEF WriteOf
  <2>2. \A e \in Entity : (\E w \in S : w.entity = e) <=> e = c.entity
        BY DEF WriteOf
  <2> QED BY <2>1, <2>2, ViewFacts DEF Store, Inv, StoreInv
<1>5. {WriteOf(d) : d \in applied'} = {WriteOf(d) : d \in applied} \union S
      BY DEF Store
<1>6. Lww!Accept(S)
      BY <1>2, <1>3, <1>4, <1>5 DEF Lww!Accept, WriteOf
<1> QED BY <1>1, <1>6 DEF Lww!Next

LEMMA StepRefines == Inv /\ [Next]_vars => [Lww!Next]_(Lww!vars)
<1> SUFFICES ASSUME Inv, [Next]_vars PROVE [Lww!Next]_(Lww!vars)
    OBVIOUS
<1>1. ASSUME NEW batch \in Batch, BeginPush(batch) PROVE UNCHANGED Lww!vars
      BY <1>1 DEF BeginPush, Lww!vars
<1>2. CASE ApplyNext
  <2>1. CASE Store(Head(todo))
        BY <1>2, <2>1, HeadTail, StoreRefines DEF ApplyNext, Inv
  <2>2. CASE Reject(Head(todo))
        BY <2>2 DEF Reject, Lww!vars
  <2> QED BY <1>2, <2>1, <2>2 DEF ApplyNext
<1>3. ASSUME EndPush \/ CancelPush \/ Pull PROVE UNCHANGED Lww!vars
      BY <1>3 DEF EndPush, CancelPush, Pull, pushVars, Lww!vars
<1>4. ASSUME UNCHANGED vars PROVE UNCHANGED Lww!vars
      BY <1>4 DEF vars, pushVars, Lww!vars
<1> QED BY <1>1, <1>2, <1>3, <1>4 DEF Next

\* InMemorySyncService is a last-writer-wins store in which tombstones count.
THEOREM ServiceImplementsLww == Spec => ImplementsLww
<1>1. Init => Lww!Init
      BY DEF Init, Lww!Init
<1> QED BY <1>1, StepRefines, Invariance, PTL
        DEF Spec, ImplementsLww, Lww!Spec

-----------------------------------------------------------------------------
(* The reader                                                              *)

\* A state the reader was given is in the store or was replaced by a newer one.
ReplicaBehind ==
  \A e \in Entity :
    replica[e] # NoView =>
      entities[e] # NoView /\ entities[e].at >= replica[e].at

\* Some stored version is not older than the cursor, if there is a cursor.
CursorReached ==
  cursor = NoCursor \/ \E e \in Stored : ~After(cursor, VersionOf(entities, e))

\* The inductive invariant of the reader.
ReaderInv ==
  TypeOK /\ ReplicaBehind /\ CursorReached /\ CursorComplete

LEMMA StoredTime ==
  ASSUME TypeOK, NEW e \in Stored
  PROVE  e \in Entity /\ entities[e] \in View /\ entities[e].at \in Nat \ {0}
<1>1. PICK c \in Change : entities[e] = ViewOf(c)
      BY DEF TypeOK, Stored, View
<1> QED BY <1>1, ChangeAssumption DEF Stored, View, ViewOf

LEMMA ReaderInit == Init => ReaderInv
<1> SUFFICES ASSUME Init PROVE ReaderInv
    OBVIOUS
<1>0. <<>> \in Seq(Change) /\ <<0, 0>> \in Nat \X (Entity \union {0})
      OBVIOUS
<1>1. TypeOK
      BY <1>0 DEF Init, TypeOK, NoCursor
<1>2. ReplicaBehind /\ CursorReached /\ CursorComplete
      BY DEF Init, ReplicaBehind, CursorReached, CursorComplete, Stored
<1> QED BY <1>1, <1>2 DEF ReaderInv

\* What is stored has a later version than before.
LEMMA ReaderStore ==
  ASSUME ReaderInv, NEW c \in Change, Store(c), UNCHANGED <<cursor, replica>>
  PROVE  /\ entities' \in [Entity -> View \union {NoView}]
         /\ overtaken' \subseteq Entity
         /\ ReplicaBehind' /\ CursorReached' /\ CursorComplete'
<1> DEFINE f == c.entity
<1>1. /\ f \in Entity /\ c.at \in Nat
      /\ ViewOf(c) \in View /\ ViewOf(c) # NoView /\ ViewOf(c).at = c.at
      BY ViewFacts
<1>2. /\ entities'[f] = ViewOf(c)
      /\ \A e \in Entity \ {f} : entities'[e] = entities[e]
      /\ entities' \in [Entity -> View \union {NoView}]
      BY <1>1 DEF Store, ReaderInv, TypeOK
<1>3. entities[f] # NoView => entities[f].at \in Nat /\ c.at > entities[f].at
      BY <1>1, StoredTime DEF Store, Wins, ReaderInv, Stored
<1>4. Stored' = Stored \union {f}
      BY <1>1, <1>2 DEF Stored
<1>5. ReplicaBehind'
  <2> SUFFICES ASSUME NEW e \in Entity, replica[e] # NoView
               PROVE  entities'[e] # NoView /\ entities'[e].at >= replica[e].at
      BY DEF ReplicaBehind
  <2>1. entities[e] # NoView /\ entities[e].at >= replica[e].at
        BY DEF ReaderInv, ReplicaBehind
  <2>2. CASE e = f
    <3>1. PICK d \in Change : replica[e] = ViewOf(d)
          BY DEF ReaderInv, TypeOK, View
    <3>2. replica[e].at \in Nat
          BY <3>1, ViewFacts
    <3> QED BY <1>1, <1>2, <1>3, <2>1, <2>2, <3>2
  <2>3. CASE e # f
        BY <1>2, <2>1, <2>3
  <2> QED BY <2>2, <2>3
<1>6. CursorReached'
  <2>1. CASE cursor = NoCursor
        BY <2>1 DEF CursorReached
  <2>2. CASE \E e \in Stored : ~After(cursor, VersionOf(entities, e))
    <3>1. PICK e \in Stored : ~After(cursor, VersionOf(entities, e))
          BY <2>2
    <3>2. e \in Entity /\ entities[e].at \in Nat /\ cursor[1] \in Nat
          BY StoredTime DEF ReaderInv, TypeOK
    <3>3. ~After(cursor, VersionOf(entities', e))
      <4>1. CASE e = f
            BY <1>1, <1>2, <1>3, <3>1, <3>2, <4>1 DEF After, VersionOf, Stored
      <4>2. CASE e # f
            BY <1>2, <3>1, <3>2, <4>2 DEF VersionOf
      <4> QED BY <4>1, <4>2
    <3> QED BY <1>4, <3>3 DEF CursorReached
  <2> QED BY <2>1, <2>2 DEF ReaderInv, CursorReached
<1>7. CursorComplete'
  <2> SUFFICES ASSUME NEW e \in Stored'
               PROVE  \/ replica[e] = entities'[e]
                      \/ After(VersionOf(entities', e), cursor)
                      \/ e \in overtaken'
      BY DEF CursorComplete
  <2>1. CASE e = f
        BY <1>1, <1>2, <2>1 DEF Store, VersionOf
  <2>2. CASE e # f
    <3>1. e \in Stored /\ e \in Entity
          BY <1>4, <2>2 DEF Stored
    <3>2. \/ replica[e] = entities[e]
          \/ After(VersionOf(entities, e), cursor)
          \/ e \in overtaken
          BY <3>1 DEF ReaderInv, CursorComplete
    <3>3. e \in overtaken => e \in overtaken'
          BY <2>2 DEF Store
    <3> QED BY <1>2, <2>2, <3>1, <3>2, <3>3 DEF VersionOf
  <2> QED BY <2>1, <2>2
<1>8. overtaken' \subseteq Entity
      BY <1>1 DEF Store, ReaderInv, TypeOK
<1> QED BY <1>2, <1>5, <1>6, <1>7, <1>8

\* A pull leaves the cursor alone or moves it to a version after it.
LEMMA PullCursor ==
  ASSUME ReaderInv, Pull
  PROVE  /\ cursor' = cursor \/ After(cursor', cursor)
         /\ cursor' \in Nat \X (Entity \union {0})
         /\ CursorReached'
<1> DEFINE changes == {e \in Stored : ShouldInclude(e)}
           last == IF changes # {} THEN changes ELSE Stored
<1>1. cursor \in Nat \X (Entity \union {0}) /\ UNCHANGED entities
      BY DEF ReaderInv, TypeOK, Pull, pushVars
<1>2. CASE Stored = {} /\ cursor' = NoCursor
      BY <1>1, <1>2 DEF ReaderInv, CursorReached, NoCursor
<1>3. CASE \E e \in last : IsLast(e, last) /\ cursor' = VersionOf(entities, e)
  <2>1. PICK e \in last : IsLast(e, last) /\ cursor' = VersionOf(entities, e)
        BY <1>3
  <2>2. e \in Stored /\ e \in Entity /\ e \in Nat /\ entities[e].at \in Nat \ {0}
        BY StoredTime, EntityAssumption DEF ReaderInv
  <2>3. cursor' = <<entities[e].at, e>> /\ cursor' \in Nat \X (Entity \union {0})
        BY <2>1, <2>2 DEF VersionOf
  <2>4. CursorReached'
        BY <1>1, <2>1, <2>2, <2>3 DEF CursorReached, After, VersionOf, Stored
  <2>5. CASE changes # {}
        BY <2>1, <2>4, <2>3, <2>5 DEF ShouldInclude
  <2>6. CASE changes = {}
    <3>1. ~After(cursor', cursor)
          BY <2>1, <2>2, <2>6 DEF ShouldInclude
    <3>2. cursor # NoCursor
          BY <2>2, <2>3, <3>1 DEF After, NoCursor
    <3>3. PICK d \in Stored : ~After(cursor, VersionOf(entities, d))
          BY <3>2 DEF ReaderInv, CursorReached
    <3>4. d \in Nat /\ entities[d].at \in Nat
          BY StoredTime, EntityAssumption DEF ReaderInv
    <3>5. d = e \/ After(VersionOf(entities, e), VersionOf(entities, d))
          BY <2>1, <2>6 DEF IsLast
    <3>6. cursor[1] \in Nat /\ cursor[2] \in Nat /\ cursor = <<cursor[1], cursor[2]>>
      <4>1. PICK n \in Nat, x \in Entity \union {0} : cursor = <<n, x>>
            BY <1>1
      <4> QED BY <4>1, EntityAssumption
    <3>7. ~After(cursor, cursor')
          BY <2>2, <2>3, <3>3, <3>4, <3>5, <3>6 DEF After, VersionOf
    <3>8. cursor' = cursor
          BY <2>2, <2>3, <3>1, <3>6, <3>7 DEF After
    <3> QED BY <2>3, <2>4, <3>8
  <2> QED BY <2>5, <2>6
<1> QED BY <1>2, <1>3 DEF Pull

LEMMA PullReplica ==
  ASSUME ReaderInv, Pull
  PROVE  /\ replica' \in [Entity -> View \union {NoView}]
         /\ ReplicaBehind' /\ CursorComplete'
         /\ \A e \in Entity : replica[e] # NoView => replica'[e].at >= replica[e].at
<1> DEFINE changes == {e \in Stored : ShouldInclude(e)}
<1>1. /\ UNCHANGED <<entities, overtaken>>
      /\ replica' = [e \in Entity |-> IF e \in changes THEN entities[e] ELSE replica[e]]
      BY DEF Pull, pushVars
<1>2. replica' \in [Entity -> View \union {NoView}]
      BY <1>1 DEF ReaderInv, TypeOK
<1>3. ASSUME NEW e \in Entity, replica'[e] # NoView
      PROVE  entities[e] # NoView /\ entities[e].at >= replica'[e].at
  <2>1. CASE e \in changes
        BY <1>1, <2>1, StoredTime DEF Stored, ReaderInv
  <2>2. CASE e \notin changes
        BY <1>1, <1>3, <2>2 DEF ReaderInv, ReplicaBehind
  <2> QED BY <2>1, <2>2
<1>4. ASSUME NEW e \in Entity, replica[e] # NoView
      PROVE  replica'[e].at >= replica[e].at
  <2>1. entities[e].at >= replica[e].at
        BY <1>4 DEF ReaderInv, ReplicaBehind
  <2>2. PICK d \in Change : replica[e] = ViewOf(d)
        BY <1>4 DEF ReaderInv, TypeOK, View
  <2>3. replica[e].at \in Nat
        BY <2>2, ViewFacts
  <2> QED BY <1>1, <2>1, <2>3
<1>5. ASSUME NEW e \in Stored
      PROVE  replica'[e] = entities[e] \/ e \in overtaken
  <2>1. \/ replica[e] = entities[e]
        \/ After(VersionOf(entities, e), cursor)
        \/ e \in overtaken
        BY DEF ReaderInv, CursorComplete
  <2> QED BY <1>1, <2>1 DEF ShouldInclude, Stored
<1> QED BY <1>1, <1>2, <1>3, <1>4, <1>5 DEF ReplicaBehind, CursorComplete, Stored

LEMMA ReaderNext == ReaderInv /\ [Next]_vars => ReaderInv'
<1> SUFFICES ASSUME ReaderInv, [Next]_vars PROVE ReaderInv'
    OBVIOUS
<1> DEFINE Others == ReplicaBehind /\ CursorReached /\ CursorComplete
<1>0. ASSUME UNCHANGED <<entities, cursor, replica, overtaken>>
      PROVE  Others'
      BY <1>0 DEF ReaderInv, ReplicaBehind, CursorReached, CursorComplete, Stored
<1>1. ASSUME NEW batch \in Batch, BeginPush(batch) PROVE ReaderInv'
      BY <1>0, <1>1, BatchAssumption DEF BeginPush, ReaderInv, TypeOK
<1>2. CASE ApplyNext
  <2>1. todo \in Seq(Change) /\ todo # <<>>
        BY <1>2 DEF ApplyNext, ReaderInv, TypeOK
  <2>2. Head(todo) \in Change /\ Tail(todo) \in Seq(Change)
        BY <2>1
  <2>3. CASE Store(Head(todo))
    <3>1. /\ entities' \in [Entity -> View \union {NoView}]
          /\ overtaken' \subseteq Entity
          /\ Others'
          BY <1>2, <2>2, <2>3, ReaderStore DEF ApplyNext
    <3> QED BY <1>2, <2>2, <2>3, <3>1 DEF ApplyNext, Store, ReaderInv, TypeOK
  <2>4. CASE Reject(Head(todo))
        BY <1>0, <1>2, <2>2, <2>4 DEF ApplyNext, Reject, ReaderInv, TypeOK
  <2> QED BY <1>2, <2>3, <2>4 DEF ApplyNext
<1>3. CASE EndPush
      BY <1>0, <1>3 DEF EndPush, ReaderInv, TypeOK
<1>4. CASE CancelPush
  <2>1. todo' \in Seq(Change)
        BY <1>4 DEF CancelPush
  <2> QED BY <1>0, <1>4, <2>1 DEF CancelPush, ReaderInv, TypeOK
<1>5. CASE Pull
  <2>1. UNCHANGED <<pushVars, overtaken>>
        BY <1>5 DEF Pull
  <2>2. TypeOK'
        BY <1>5, <2>1, PullCursor, PullReplica DEF pushVars, ReaderInv, TypeOK
  <2> QED BY <1>5, <2>2, PullCursor, PullReplica DEF ReaderInv
<1>6. CASE UNCHANGED vars
      BY <1>0, <1>6 DEF vars, pushVars, ReaderInv, TypeOK
<1> QED BY <1>1, <1>2, <1>3, <1>4, <1>5, <1>6 DEF Next

THEOREM ReaderInvariance == Spec => []ReaderInv
BY ReaderInit, ReaderNext, PTL DEF Spec

\* Every variable keeps its type.
THEOREM TypeCorrect == Spec => []TypeOK
<1>1. ReaderInv => TypeOK
      BY DEF ReaderInv
<1> QED BY <1>1, ReaderInvariance, PTL

\* The cursor hides nothing from the reader but what arrived behind it.
THEOREM CursorHidesOnlyLate == Spec => []CursorComplete
<1>1. ReaderInv => CursorComplete
      BY DEF ReaderInv
<1> QED BY <1>1, ReaderInvariance, PTL

\* Neither the cursor nor a state of the reader ever goes back.
THEOREM ReaderNeverGoesBack == Spec => ReaderAdvances
<1> DEFINE Step == /\ cursor' = cursor \/ After(cursor', cursor)
                   /\ \A e \in Entity :
                        replica[e] # NoView => replica'[e].at >= replica[e].at
<1>1. ASSUME ReaderInv, [Next]_vars PROVE [Step]_vars
  <2>1. CASE Pull
        BY <1>1, <2>1, PullCursor, PullReplica
  <2>2. CASE UNCHANGED <<cursor, replica>>
    <3>1. ASSUME NEW e \in Entity, replica[e] # NoView
          PROVE  replica[e].at \in Nat
      <4>1. PICK d \in Change : replica[e] = ViewOf(d)
            BY <1>1, <3>1 DEF ReaderInv, TypeOK, View
      <4> QED BY <4>1, ViewFacts
    <3> QED BY <2>2, <3>1
  <2> QED BY <1>1, <2>1, <2>2
          DEF Next, BeginPush, ApplyNext, EndPush, CancelPush, vars
<1> QED BY <1>1, ReaderInvariance, PTL DEF Spec, ReaderAdvances
=============================================================================
