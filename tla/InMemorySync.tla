---------------------------- MODULE InMemorySync ----------------------------
(***************************************************************************)
(* InMemorySyncService: the synchronisation service over a dictionary, one *)
(* lock per user.  A push applies its changes one by one under the lock; a *)
(* cancelled push stops between two changes and keeps what it has applied. *)
(* A pull returns the states newer than the reader's cursor.               *)
(*                                                                         *)
(* One user is modelled: users share no state (line 26).  The reader, who  *)
(* sends back the cursor of its last pull and keeps the states it was      *)
(* given, is external: the repository has no client that pulls.            *)
(***************************************************************************)
EXTENDS Naturals, Sequences, FiniteSets

CONSTANTS Entity,    \* entity ids; naturals, for the order of CompareVersion
          Change,    \* records [entity, op, at, isDeleted, data, valid]
          Batch,     \* the Changes a request may carry: sequences of Change
          NoView     \* no entry in the dictionary

ASSUME EntityAssumption == Entity \subseteq Nat
ASSUME ChangeAssumption ==
  \A c \in Change : c.entity \in Entity /\ c.at \in Nat \ {0}
ASSUME BatchAssumption == Batch \subseteq Seq(Change)

VARIABLES
  entities,   \* store.Entities: the state of each entity
  locked,     \* a push holds store.Gate
  todo,       \* the changes of that push that are not applied yet
  accepted,   \* its AcceptedItems so far
  rejected,   \* its RejectedItems so far
  applied,    \* every change ever stored
  answered,   \* every change a response reported as accepted
  cursor,     \* the reader's cursor, a version
  replica,    \* the states the reader was given
  overtaken   \* entities stored with a version the cursor had passed

pushVars == <<entities, locked, todo, accepted, rejected, applied, answered>>
vars == <<pushVars, cursor, replica, overtaken>>

\* BuildIncomingState: a delete, or an upsert that says so, is a tombstone.  The
\* payload is kept either way; a delete usually has none.
ViewOf(c) ==
  [at |-> c.at, deleted |-> c.op = "Delete" \/ c.isDeleted, data |-> c.data]

View == {ViewOf(c) : c \in Change}

ASSUME ViewAssumption == NoView \notin View

\* A version is a pair <<UpdatedAt, EntityId>>, ordered lexicographically.
After(v, w) == v[1] > w[1] \/ (v[1] = w[1] /\ v[2] > w[2])
NoCursor == <<0, 0>>
VersionOf(state, e) == <<state[e].at, e>>
Stored == {e \in Entity : entities[e] # NoView}

TypeOK ==
  /\ entities \in [Entity -> View \union {NoView}]
  /\ locked \in BOOLEAN
  /\ todo \in Seq(Change)
  /\ accepted \subseteq Change
  /\ rejected \subseteq Change
  /\ applied \subseteq Change
  /\ answered \subseteq Change
  /\ cursor \in Nat \X (Entity \union {0})
  /\ replica \in [Entity -> View \union {NoView}]
  /\ overtaken \subseteq Entity

Init ==
  /\ entities = [e \in Entity |-> NoView]
  /\ locked = FALSE
  /\ todo = <<>>
  /\ accepted = {}
  /\ rejected = {}
  /\ applied = {}
  /\ answered = {}
  /\ cursor = NoCursor
  /\ replica = [e \in Entity |-> NoView]
  /\ overtaken = {}

-----------------------------------------------------------------------------
(* PushAsync                                                               *)

BeginPush(batch) ==
  /\ ~locked
  /\ locked' = TRUE
  /\ todo' = batch
  /\ accepted' = {}
  /\ rejected' = {}
  /\ UNCHANGED <<entities, applied, answered, cursor, replica, overtaken>>

\* Variant: the conflict rule is missing.
WinsAlways(c) == c.valid

\* Variant: a tie is won by the later arrival.
WinsTie(c) ==
  /\ c.valid
  /\ entities[c.entity] # NoView => c.at >= entities[c.entity].at

\* CompareVersion of two versions of one entity is the order of its timestamps.
Wins(c) ==
  /\ c.valid
  /\ entities[c.entity] # NoView => c.at > entities[c.entity].at

\* Variant: the stored state loses its tombstone flag.
StoreWithoutTombstone(c) ==
  /\ Wins(c)
  /\ entities' = [entities EXCEPT ![c.entity] = [ViewOf(c) EXCEPT !.deleted = FALSE]]
  /\ applied' = applied \union {c}
  /\ accepted' = accepted \union {c}
  /\ UNCHANGED <<overtaken, rejected>>

Store(c) ==
  /\ Wins(c)
  /\ entities' = [entities EXCEPT ![c.entity] = ViewOf(c)]
  /\ applied' = applied \union {c}
  /\ accepted' = accepted \union {c}
  /\ overtaken' = IF After(<<c.at, c.entity>>, cursor)
                  THEN overtaken \ {c.entity}
                  ELSE overtaken \union {c.entity}
  /\ UNCHANGED rejected

\* An invalid change, or one that loses the conflict.
Reject(c) ==
  /\ ~Wins(c)
  /\ rejected' = rejected \union {c}
  /\ UNCHANGED <<entities, applied, accepted, overtaken>>

ApplyNext ==
  /\ locked
  /\ todo # <<>>
  /\ Store(Head(todo)) \/ Reject(Head(todo))
  /\ todo' = Tail(todo)
  /\ UNCHANGED <<locked, answered, cursor, replica>>

EndPush ==
  /\ locked
  /\ todo = <<>>
  /\ locked' = FALSE
  /\ answered' = answered \union accepted
  /\ accepted' = {}
  /\ rejected' = {}
  /\ UNCHANGED <<entities, todo, applied, cursor, replica, overtaken>>

\* ThrowIfCancellationRequested, at the head of the loop: no response.
CancelPush ==
  /\ locked
  /\ todo # <<>>
  /\ locked' = FALSE
  /\ todo' = <<>>
  /\ accepted' = {}
  /\ rejected' = {}
  /\ UNCHANGED <<entities, applied, answered, cursor, replica, overtaken>>

-----------------------------------------------------------------------------
(* PullAsync                                                               *)

\* Variant: the cursor compares timestamps only.
ShouldIncludeByTime(e) == entities[e].at > cursor[1]

ShouldInclude(e) == After(VersionOf(entities, e), cursor)

\* The last of the states, in the order of their versions.
IsLast(e, S) ==
  /\ e \in S
  /\ \A d \in S \ {e} : After(VersionOf(entities, e), VersionOf(entities, d))

\* Variant: a pull without news returns an empty cursor.
PullForgets ==
  LET changes == {e \in Stored : ShouldInclude(e)} IN
  /\ ~locked
  /\ \/ changes = {} /\ cursor' = NoCursor
     \/ \E e \in changes : IsLast(e, changes) /\ cursor' = VersionOf(entities, e)
  /\ replica' = [e \in Entity |-> IF e \in changes THEN entities[e] ELSE replica[e]]
  /\ UNCHANGED <<pushVars, overtaken>>

\* A pull with news moves the cursor to the last of them; one without, to the
\* version BuildCurrentCursor finds, which is empty while nothing is stored.
Pull ==
  LET changes == {e \in Stored : ShouldInclude(e)}
      last == IF changes # {} THEN changes ELSE Stored
  IN
  /\ ~locked
  /\ \/ Stored = {} /\ cursor' = NoCursor
     \/ \E e \in last : IsLast(e, last) /\ cursor' = VersionOf(entities, e)
  /\ replica' = [e \in Entity |-> IF e \in changes THEN entities[e] ELSE replica[e]]
  /\ UNCHANGED <<pushVars, overtaken>>

Next ==
  \/ \E batch \in Batch : BeginPush(batch)
  \/ ApplyNext
  \/ EndPush
  \/ CancelPush
  \/ Pull

Spec == Init /\ [][Next]_vars

-----------------------------------------------------------------------------
(* Properties                                                              *)

\* The service is a last-writer-wins store, tombstones included: a delete that
\* arrives before an older upsert keeps it out, and a cancelled push leaves a
\* prefix of its batch, applied as if it had been sent alone.
Lww == INSTANCE LwwStore WITH
         Write <- {[entity |-> c.entity, view |-> ViewOf(c)] : c \in Change},
         reg <- entities,
         accepted <- {[entity |-> c.entity, view |-> ViewOf(c)] : c \in applied}

ImplementsLww == Lww!Spec

\* A response only reports as accepted what is in the store or was replaced
\* there by a newer change, whatever was cancelled or repeated in between.
AnsweredIsKept ==
  \A c \in answered \union accepted :
    c \in applied /\ entities[c.entity].at >= c.at

\* The cursor hides nothing but late arrivals: a state the reader does not have
\* is newer than its cursor or was stored behind it.
CursorComplete ==
  \A e \in Stored :
    \/ replica[e] = entities[e]
    \/ After(VersionOf(entities, e), cursor)
    \/ e \in overtaken

\* A reader never goes back: neither its cursor nor a state it was given.
ReaderAdvances ==
  [][/\ cursor' = cursor \/ After(cursor', cursor)
     /\ \A e \in Entity :
          replica[e] # NoView => replica'[e].at >= replica[e].at]_vars

\* "Returns all changed entities since cursor" (docs/sync-spec.md, Sync API 2):
\* a pull brings the reader up to date.
PullReturnsAll ==
  [][Pull => replica' = entities]_vars
=============================================================================
