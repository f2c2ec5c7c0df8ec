------------------------ MODULE TelegramIngestProofs ------------------------
(***************************************************************************)
(* Proofs about TelegramIngest, for every set of updates, senders, chats   *)
(* and messages: type correctness, that an update has one effect and that  *)
(* its first outcome stays; that only overtaken updates are dropped, that  *)
(* every command replays (from ParsesBack, of every text) and with it      *)
(* every audit record, and that what is stored keeps the limits of the     *)
(* contract.                                                               *)
(***************************************************************************)
EXTENDS TelegramIngest, TelegramParserProofs

\* The records are one per update and the transactions a list.
Shape ==
  /\ records = [i \in UpdateId |-> records[i]]
  /\ \E S : transactions \in Seq(S)

\* Copies of an update come from deliveries.
CopiesDelivered == \A i \in UpdateId : queue[i] + batch[i] <= deliveries

\* The inductive invariant.
Inv == TypeOK /\ Shape /\ CopiesDelivered /\ OneEffect

\* What a step may do to the store: nothing, or give one update its record, with
\* at most one transaction, which the record names.
Records(i, status, k) ==
  /\ records[i] = NoRecord
  /\ status \in {"Parsed", "Rejected", "Failed"}
  /\ \E error, normalized :
       records' = [records EXCEPT ![i] =
         [status |-> status, error |-> error,
          normalized |-> normalized, transaction |-> k]]

KnownKeys ==
  /\ identities' \in [Sender -> Chat \union {NoChat, NoIdentity}]
  /\ \A c \in categories' : c.user \in Sender /\ c.key = Upper(c.name)

WithoutEffect(i) ==
  /\ \E status \in {"Parsed", "Rejected", "Failed"} : Records(i, status, 0)
  /\ UNCHANGED transactions
  /\ KnownKeys

WithEffect(i) ==
  /\ Records(i, "Parsed", Len(transactions) + 1)
  /\ \E t : transactions' = Append(transactions, t) /\ t.user = message[i].from
  /\ KnownKeys

LEMMA FromSender ==
  ASSUME TypeOK, NEW i \in UpdateId
  PROVE  /\ message[i].from \in Sender
         /\ message[i].chat \in Chat \union {NoChat}
BY InboxAssumption DEF TypeOK, Message

LEMMA UserKnown ==
  ASSUME TypeOK, NEW i \in UpdateId, ResolveOrCreateUser(message[i])
  PROVE  identities' \in [Sender -> Chat \union {NoChat, NoIdentity}]
BY FromSender DEF TypeOK, ResolveOrCreateUser

LEMMA CategoryKnown ==
  ASSUME TypeOK, NEW i \in UpdateId, NEW name,
         \/ UNCHANGED categories
         \/ ResolveOrCreateCategory(message[i].from, name)
  PROVE  \A c \in categories' : c.user \in Sender /\ c.key = Upper(c.name)
<1>1. CASE categories' = categories
      BY <1>1 DEF TypeOK
<1>2. CASE categories' = categories \union
             {[user |-> message[i].from, key |-> Upper(name), name |-> name]}
      BY <1>2, FromSender DEF TypeOK
<1> QED
    BY <1>1, <1>2 DEF ResolveOrCreateCategory

\* What IngestAsync does to the store.
LEMMA StoreStep ==
  ASSUME TypeOK, NEW i \in UpdateId, IngestAsync(i)
  PROVE  \/ UNCHANGED store
         \/ WithoutEffect(i)
         \/ WithEffect(i)
<1> DEFINE m == message[i]
           result == Result[m.text]
<1>1. CASE Duplicate(i)
      BY <1>1 DEF Duplicate
<1>2. CASE records[i] = NoRecord /\ Help(i)
      BY <1>2 DEF Help, UpdateIngestRecord, WithoutEffect, Records, KnownKeys, TypeOK
<1>3. CASE records[i] = NoRecord /\ Rejected(i)
      BY <1>3 DEF Rejected, UpdateIngestRecord, WithoutEffect, Records, KnownKeys, TypeOK
<1>4. CASE records[i] = NoRecord /\ Added(i)
  <2>1. ResolveOrCreateUser(m) /\ ResolveOrCreateCategory(m.from, result.add.category)
        BY <1>4 DEF Added
  <2>2. KnownKeys
        BY <2>1, UserKnown, CategoryKnown DEF KnownKeys
  <2>3. Records(i, "Parsed", Len(transactions) + 1)
        BY <1>4 DEF Added, UpdateIngestRecord, Records
  <2>4. \E t : transactions' = Append(transactions, t) /\ t.user = m.from
    <3>1. CreateTransaction(m, result.add)
          BY <1>4 DEF Added
    <3>2. PICK c \in categories' :
            transactions' = Append(transactions,
              [user |-> m.from, category |-> c, amount |-> result.add.amount,
               description |-> result.add.description, date |-> result.add.date])
          BY <3>1 DEF CreateTransaction
    <3> QED
        BY <3>2
  <2> QED
      BY <2>2, <2>3, <2>4 DEF WithEffect
<1>5. CASE records[i] = NoRecord /\ Failed(i)
  <2>1. Records(i, "Failed", 0) /\ UNCHANGED transactions
        BY <1>5 DEF Failed, UpdateIngestRecord, Records
  <2>2. \/ UNCHANGED <<identities, categories>>
        \/ /\ ResolveOrCreateUser(m)
           /\ \/ UNCHANGED categories
              \/ ResolveOrCreateCategory(m.from, result.add.category)
        BY <1>5 DEF Failed
  <2>3. KnownKeys
        BY <2>2, UserKnown, CategoryKnown DEF KnownKeys, TypeOK
  <2> QED
      BY <2>1, <2>3 DEF WithoutEffect
<1> QED
    BY <1>1, <1>2, <1>3, <1>4, <1>5 DEF IngestAsync, HasIngestedUpdate

LEMMA InitInv == Init => Inv
<1> SUFFICES ASSUME Init PROVE Inv
    OBVIOUS
<1>1. /\ transactions = <<>> /\ Len(transactions) = 0
      /\ \A i \in UpdateId : records[i].status = "None" /\ records[i].transaction = 0
      BY DEF Init, NoRecord
<1>2. 0 \in 0..MaxDeliveries /\ 0 \in 0..MaxFaults
      BY BoundAssumption
<1>3. /\ \A i \in UpdateId :
           /\ records[i].status \in {"None", "Parsed", "Rejected", "Failed"}
           /\ records[i].transaction \in 0..Len(transactions)
      /\ \A k \in DOMAIN transactions : transactions[k].user \in Sender
      BY <1>1
<1>4. TypeOK
      BY <1>2, <1>3 DEF Init, TypeOK
<1>5. transactions \in Seq({})
      BY <1>1
<1>6. Shape
      BY <1>5 DEF Init, Shape
<1>7. OneEffect
      BY <1>1 DEF OneEffect
<1>8. CopiesDelivered
      BY DEF Init, CopiesDelivered
<1> QED
    BY <1>4, <1>6, <1>7, <1>8 DEF Inv

\* What TypeOK says of the records and transactions.
StoreTyped ==
  /\ \A j \in UpdateId :
       /\ records[j].status \in {"None", "Parsed", "Rejected", "Failed"}
       /\ records[j].transaction \in 0..Len(transactions)
  /\ \A k \in DOMAIN transactions : transactions[k].user \in Sender

\* A step without a transaction keeps the store in order.
LEMMA WithoutEffectKeeps ==
  ASSUME Inv, NEW i \in UpdateId, WithoutEffect(i), UNCHANGED message
  PROVE  StoreTyped' /\ Shape' /\ OneEffect'
<1>0. PICK status \in {"Parsed", "Rejected", "Failed"} : Records(i, status, 0)
      BY DEF WithoutEffect
<1>1. PICK error, normalized :
        records' = [records EXCEPT ![i] =
          [status |-> status, error |-> error,
           normalized |-> normalized, transaction |-> 0]]
      BY <1>0 DEF Records
<1>2. records[i].transaction = 0
      BY DEF WithoutEffect, Records, NoRecord
<1>3. /\ \A j \in UpdateId \ {i} : records'[j] = records[j]
      /\ records'[i].status = status /\ records'[i].transaction = 0
      /\ Shape'
      BY <1>1 DEF Inv, Shape, WithoutEffect
<1>4. transactions' = transactions
      BY DEF WithoutEffect
<1>5. Len(transactions) \in Nat
      BY DEF Inv, Shape
<1>6. \A j \in UpdateId : records'[j].transaction = records[j].transaction
      BY <1>2, <1>3
<1>7. StoreTyped'
      BY <1>3, <1>4, <1>5, <1>6 DEF Inv, TypeOK, StoreTyped
<1>8. OneEffect'
      BY <1>4, <1>6 DEF Inv, OneEffect
<1> QED
    BY <1>3, <1>7, <1>8

\* A step with a transaction names it in a record that named none.
LEMMA WithEffectKeeps ==
  ASSUME Inv, NEW i \in UpdateId, WithEffect(i), UNCHANGED message
  PROVE  StoreTyped' /\ Shape' /\ OneEffect'
<1> DEFINE n == Len(transactions)
<1>1. PICK S : transactions \in Seq(S)
      BY DEF Inv, Shape
<1>2. PICK t : transactions' = Append(transactions, t) /\ t.user = message[i].from
      BY DEF WithEffect
<1>3. /\ n \in Nat
      /\ transactions' \in Seq(S \union {t})
      /\ Len(transactions') = n + 1
      /\ DOMAIN transactions = 1..n
      /\ DOMAIN transactions' = 1..n + 1
      /\ \A k \in 1..n : transactions'[k] = transactions[k]
      /\ transactions'[n + 1] = t
      BY <1>1, <1>2
<1>4. PICK error, normalized :
        records' = [records EXCEPT ![i] =
          [status |-> "Parsed", error |-> error,
           normalized |-> normalized, transaction |-> n + 1]]
      BY DEF WithEffect, Records
<1>5. records[i].transaction = 0
      BY DEF WithEffect, Records, NoRecord
<1>6. /\ \A j \in UpdateId \ {i} : records'[j] = records[j]
      /\ records'[i].status = "Parsed" /\ records'[i].transaction = n + 1
      /\ records' = [j \in UpdateId |-> records'[j]]
      BY <1>4 DEF Inv, Shape
<1>7. \A j \in UpdateId : records[j].transaction \in 0..n
      BY DEF Inv, TypeOK
<1>8. StoreTyped'
  <2>1. \A j \in UpdateId :
          records'[j].status \in {"None", "Parsed", "Rejected", "Failed"}
        BY <1>6 DEF Inv, TypeOK
  <2>2. \A j \in UpdateId : records'[j].transaction \in 0..n + 1
        BY <1>3, <1>6, <1>7
  <2>3. t.user \in Sender
        BY <1>2, FromSender DEF Inv
  <2>4. \A k \in 1..n : transactions[k].user \in Sender
        BY <1>3 DEF Inv, TypeOK
  <2>5. \A k \in 1..n + 1 : transactions'[k].user \in Sender
        BY <1>3, <2>3, <2>4
  <2> QED
      BY <1>3, <2>1, <2>2, <2>5 DEF StoreTyped
<1>9. OneEffect'
  <2>1. ASSUME NEW k \in 1..n + 1
        PROVE  \E j \in UpdateId : records'[j].transaction = k
    <3>1. CASE k = n + 1
          BY <3>1, <1>6
    <3>2. CASE k \in 1..n
      <4>1. PICK j \in UpdateId : records[j].transaction = k
            BY <1>3, <3>2 DEF Inv, OneEffect
      <4> QED
          BY <1>5, <1>6, <3>2, <4>1
    <3> QED
        BY <1>3, <3>1, <3>2
  <2>2. ASSUME NEW j \in UpdateId, NEW l \in UpdateId, j # l,
               records'[j].transaction = records'[l].transaction
        PROVE  records'[j].transaction = 0
        BY <1>3, <1>6, <1>7, <2>2 DEF Inv, OneEffect
  <2>3. ASSUME NEW j \in UpdateId, records'[j].transaction # 0
        PROVE  transactions'[records'[j].transaction].user = message[j].from
    <3>1. CASE j = i
          BY <1>2, <1>3, <1>6, <3>1
    <3>2. CASE j # i
          BY <1>3, <1>6, <1>7, <2>3, <3>2 DEF Inv, OneEffect
    <3> QED
        BY <3>1, <3>2
  <2> QED
      BY <1>3, <2>1, <2>2, <2>3 DEF OneEffect
<1> QED
    BY <1>3, <1>6, <1>8, <1>9 DEF Shape

LEMMA IngestKeepsInv ==
  ASSUME Inv, NEW i \in UpdateId, Ingest(i)
  PROVE  Inv'
<1> USE DEF Inv
<1>1. UNCHANGED store \/ WithoutEffect(i) \/ WithEffect(i)
      BY StoreStep DEF Ingest
<1>2. UNCHANGED message
      BY DEF Ingest, external
<1>3. StoreTyped' /\ Shape' /\ OneEffect'
  <2>1. CASE UNCHANGED store
        BY <1>2, <2>1 DEF store, TypeOK, StoreTyped, Shape, OneEffect
  <2> QED
      BY <1>1, <1>2, <2>1, WithoutEffectKeeps, WithEffectKeeps
<1>4. /\ identities' \in [Sender -> Chat \union {NoChat, NoIdentity}]
      /\ \A c \in categories' : c.user \in Sender /\ c.key = Upper(c.name)
      BY <1>1 DEF store, TypeOK, WithoutEffect, WithEffect, KnownKeys
<1>5. /\ batch' \in [UpdateId -> 0..MaxDeliveries]
      /\ lastSeen' \in UpdateId \union {0}
      BY BoundAssumption DEF Ingest, First, TypeOK
<1>6. faults' \in 0..MaxFaults
      BY BoundAssumption
      DEF Ingest, IngestAsync, Duplicate, Help, Rejected, Added, Failed, TypeOK
<1>7. /\ message' \in Inbox
      /\ deliveries' \in 0..MaxDeliveries
      /\ queue' \in [UpdateId -> 0..MaxDeliveries]
      /\ stopped' \in BOOLEAN
      BY DEF Ingest, external, TypeOK
<1>8. TypeOK'
      BY <1>3, <1>4, <1>5, <1>6, <1>7 DEF TypeOK, StoreTyped
<1>9. CopiesDelivered'
      BY DEF Ingest, First, external, TypeOK, CopiesDelivered
<1> QED
    BY <1>3, <1>8, <1>9

LEMMA QuietKeepsInv ==
  ASSUME Inv, (\E i \in UpdateId : Deliver(i)) \/ Poll \/ Stop \/ UNCHANGED vars
  PROVE  Inv'
<1>1. UNCHANGED <<message, faults, store>>
      BY DEF Deliver, Poll, Stop, vars, external
<1>2. Shape' /\ OneEffect'
      BY <1>1 DEF Inv, Shape, OneEffect, store
<1>3. /\ deliveries' \in 0..MaxDeliveries
      /\ queue' \in [UpdateId -> 0..MaxDeliveries]
      /\ batch' \in [UpdateId -> 0..MaxDeliveries]
      /\ lastSeen' \in UpdateId \union {0}
      /\ stopped' \in BOOLEAN
      /\ CopiesDelivered'
  <2>1. CASE \E i \in UpdateId : Deliver(i)
        BY <2>1, BoundAssumption DEF Deliver, Inv, TypeOK, CopiesDelivered
  <2>2. CASE Poll
        BY <2>2, BoundAssumption DEF Poll, external, Inv, TypeOK, CopiesDelivered
  <2>3. CASE Stop
        BY <2>3 DEF Stop, external, Inv, TypeOK, CopiesDelivered
  <2>4. CASE UNCHANGED vars
        BY <2>4 DEF vars, external, worker, Inv, TypeOK, CopiesDelivered
  <2> QED
      BY <2>1, <2>2, <2>3, <2>4
<1>4. TypeOK'
      BY <1>1, <1>3 DEF Inv, TypeOK, store
<1> QED
    BY <1>2, <1>3, <1>4 DEF Inv

\* The worker keeps the inductive invariant, through every poll and stop.
THEOREM InvHolds == Spec => []Inv
<1>1. Inv /\ [Next]_vars => Inv'
      BY IngestKeepsInv, QuietKeepsInv DEF Next
<1> QED
    BY InitInv, <1>1, PTL DEF Spec

\* Every variable keeps its type and every record names a transaction that exists.
THEOREM TypeCorrect == Spec => []TypeOK
<1>1. Inv => TypeOK
      BY DEF Inv
<1> QED
    BY InvHolds, <1>1, PTL

\* However often an update is delivered, it has one transaction at most, of its
\* sender, and every transaction belongs to one update.
THEOREM EffectIsOne == Spec => []OneEffect
<1>1. Inv => OneEffect
      BY DEF Inv
<1> QED
    BY InvHolds, <1>1, PTL

\* No redelivery, retry or exception revises the outcome of an update.
THEOREM OutcomeStays == Spec => FirstOutcomeStays
<1> DEFINE Kept == \A i \in UpdateId : records[i] # NoRecord => records'[i] = records[i]
<1>1. ASSUME Inv, [Next]_vars
      PROVE  Kept
  <2>1. CASE \E i \in UpdateId : Ingest(i)
    <3>1. PICK i \in UpdateId : Ingest(i)
          BY <2>1
    <3>2. UNCHANGED store \/ WithoutEffect(i) \/ WithEffect(i)
          BY <1>1, <3>1, StoreStep DEF Ingest, Inv
    <3> QED
        BY <1>1, <3>2 DEF store, WithoutEffect, WithEffect, Records, Inv, Shape
  <2>2. CASE UNCHANGED store
        BY <2>2 DEF store
  <2> QED
      BY <1>1, <2>1, <2>2 DEF Next, Deliver, Poll, Stop, vars
<1>2. Inv /\ [Next]_vars => [Kept]_vars
      BY <1>1
<1> QED
    BY InvHolds, <1>2, PTL DEF Spec, FirstOutcomeStays

-----------------------------------------------------------------------------
(* What is lost                                                            *)

\* The last update seen is on record.
LastSeenRecorded == lastSeen # 0 => records[lastSeen] # NoRecord

\* An update that is ingested is on record, and no record goes away.
LEMMA IngestedRecorded ==
  ASSUME Inv, NEW i \in UpdateId, IngestAsync(i)
  PROVE  /\ records'[i] # NoRecord
         /\ \A j \in UpdateId : records[j] # NoRecord => records'[j] = records[j]
<1> USE DEF Inv, Shape
<1>1. CASE Duplicate(i)
      BY <1>1 DEF Duplicate, HasIngestedUpdate, store
<1>2. CASE ~HasIngestedUpdate(i) /\ (Help(i) \/ Rejected(i) \/ Added(i) \/ Failed(i))
  <2>1. PICK status, error, normalized, transaction :
          /\ status \in {"Parsed", "Rejected", "Failed"}
          /\ UpdateIngestRecord(i, status, error, normalized, transaction)
        BY <1>2 DEF Help, Rejected, Added, Failed
  <2>2. /\ records'[i].status = status
        /\ \A j \in UpdateId \ {i} : records'[j] = records[j]
        BY <2>1 DEF UpdateIngestRecord
  <2>3. records'[i] # NoRecord
        BY <2>1, <2>2 DEF NoRecord
  <2> QED BY <1>2, <2>2, <2>3 DEF HasIngestedUpdate
<1> QED BY <1>1, <1>2 DEF IngestAsync

LEMMA LastSeenNext ==
  ASSUME Inv, LastSeenRecorded, [Next]_vars
  PROVE  LastSeenRecorded'
<1>1. ASSUME NEW i \in UpdateId, Ingest(i)
      PROVE  LastSeenRecorded'
  <2>1. lastSeen' \in {lastSeen, i} /\ lastSeen \in UpdateId \union {0}
        BY <1>1 DEF Ingest, Inv, TypeOK
  <2>2. /\ records'[i] # NoRecord
        /\ \A j \in UpdateId : records[j] # NoRecord => records'[j] = records[j]
        BY <1>1, IngestedRecorded DEF Ingest
  <2> QED BY <2>1, <2>2 DEF LastSeenRecorded
<1>2. CASE UNCHANGED <<lastSeen, records>>
      BY <1>2 DEF LastSeenRecorded
<1> QED BY <1>1, <1>2 DEF Next, Deliver, Poll, Stop, vars, worker, store

\* A poll drops an update for good only if it, or a younger one, is on record.
THEOREM LostOvertaken == Spec => LostIsOvertaken
<1> DEFINE Overtaken ==
      \A i \in UpdateId :
        queue[i] + batch[i] > 0 /\ queue'[i] + batch'[i] = 0 =>
          \E j \in UpdateId : j >= i /\ records'[j] # NoRecord
<1>1. Init => LastSeenRecorded
      BY DEF Init, LastSeenRecorded
<1>2. ASSUME Inv, LastSeenRecorded, [Next]_vars
      PROVE  Overtaken
  <2> SUFFICES ASSUME NEW i \in UpdateId, queue[i] + batch[i] > 0,
                      queue'[i] + batch'[i] = 0
               PROVE  \E j \in UpdateId : j >= i /\ records'[j] # NoRecord
      OBVIOUS
  <2>1. /\ queue[i] \in Nat /\ batch[i] \in Nat /\ i \in Nat /\ lastSeen \in Nat
    <3>1. /\ queue \in [UpdateId -> 0..MaxDeliveries] /\ lastSeen \in UpdateId \union {0}
          /\ batch \in [UpdateId -> 0..MaxDeliveries]
          BY <1>2 DEF Inv, TypeOK
    <3> QED BY <3>1, BoundAssumption, UpdateIdAssumption
  <2>2. ASSUME NEW j \in UpdateId, Ingest(j)
        PROVE  j = i /\ records'[j] # NoRecord
    <3>1. records'[j] # NoRecord
          BY <1>2, <2>2, IngestedRecorded DEF Ingest
    <3>2. queue' = queue /\ \A k \in UpdateId \ {j} : batch'[k] = batch[k]
          BY <2>2 DEF Ingest
    <3> QED BY <2>1, <3>1, <3>2
  <2>3. CASE Poll
    <3>1. /\ batch[i] = 0 /\ queue'[i] = 0 /\ records' = records
          /\ batch'[i] = IF Younger(i) THEN queue[i] ELSE 0
          BY <2>3 DEF Poll, store
    <3>2. ~Younger(i)
          BY <2>1, <3>1
    <3>3. lastSeen >= i /\ lastSeen # 0
          BY <2>1, <3>2, UpdateIdAssumption DEF Younger
    <3> QED BY <1>2, <3>1, <3>3 DEF LastSeenRecorded, Inv, TypeOK
  <2>4. ASSUME NEW j \in UpdateId, Deliver(j)
        PROVE  FALSE
    <3>1. /\ batch' = batch
          /\ queue'[i] = IF i = j THEN queue[i] + 1 ELSE queue[i]
          BY <1>2, <2>4 DEF Deliver, Inv, TypeOK
    <3> QED BY <2>1, <3>1
  <2>5. ~Stop /\ ~UNCHANGED vars
        BY <2>1 DEF Stop, vars, worker
  <2> QED BY <1>2, <2>1, <2>2, <2>3, <2>4, <2>5 DEF Next
<1>3. Inv /\ LastSeenRecorded /\ [Next]_vars => LastSeenRecorded'
      BY LastSeenNext
<1>4. Inv /\ LastSeenRecorded /\ [Next]_vars => [Overtaken]_vars
      BY <1>2
<1> QED BY <1>1, <1>3, <1>4, InvHolds, PTL DEF Spec, LostIsOvertaken

-----------------------------------------------------------------------------
(* What a record says of its transaction                                   *)

\* A sender has one category of a name.
CategoriesUnique ==
  \A c, d \in categories : c.user = d.user /\ c.key = d.key => c = d

\* The transaction of a record is the command its message was parsed to, in a
\* category of that name, and its sender is known.
CarriesOut(i) ==
  LET result == Result[message[i].text]
      t == transactions[records[i].transaction]
  IN /\ result.kind = "Add"
     /\ records[i].normalized = Normalized(result.add)
     /\ t.amount = result.add.amount
     /\ t.description = result.add.description
     /\ t.date = result.add.date
     /\ t.user = message[i].from
     /\ t.category \in categories
     /\ t.category.user = t.user
     /\ t.category.key = Upper(result.add.category)
     /\ identities[message[i].from] # NoIdentity

\* What is added to Inv.
AuditInv ==
  /\ CategoriesUnique
  /\ CommandReplays
  /\ \A i \in UpdateId : records[i].transaction # 0 => CarriesOut(i)

\* Senders stay known and categories stay.
KeysGrow ==
  /\ categories \subseteq categories'
  /\ \A s \in Sender : identities[s] # NoIdentity => identities'[s] # NoIdentity

LEMMA UserResolved ==
  ASSUME Inv, NEW i \in UpdateId, ResolveOrCreateUser(message[i])
  PROVE  /\ identities'[message[i].from] # NoIdentity
         /\ \A s \in Sender : identities[s] # NoIdentity => identities'[s] # NoIdentity
<1>1. message[i].chat # NoIdentity /\ message[i].from \in Sender
      BY FromSender, ChatAssumption DEF Inv, NoChat, NoIdentity
<1>2. identities \in [Sender -> Chat \union {NoChat, NoIdentity}]
      BY DEF Inv, TypeOK
<1> QED BY <1>1, <1>2 DEF ResolveOrCreateUser

LEMMA CategoryResolved ==
  ASSUME CategoriesUnique, NEW user, NEW name, ResolveOrCreateCategory(user, name)
  PROVE  CategoriesUnique' /\ categories \subseteq categories'
<1>1. CASE Matching(user, name) # {}
      BY <1>1 DEF ResolveOrCreateCategory, CategoriesUnique
<1>2. CASE Matching(user, name) = {}
  <2> DEFINE new == [user |-> user, key |-> Upper(name), name |-> name]
  <2>1. categories' = categories \union {new}
        BY <1>2 DEF ResolveOrCreateCategory
  <2>2. \A c \in categories : ~(c.user = new.user /\ c.key = new.key)
        BY <1>2 DEF Matching
  <2> HIDE DEF new
  <2> QED BY <2>1, <2>2 DEF CategoriesUnique
<1> QED BY <1>1, <1>2

LEMMA CarriesOutStays ==
  ASSUME Inv, NEW j \in UpdateId, records[j].transaction # 0, CarriesOut(j),
         records'[j] = records[j], UNCHANGED message, KeysGrow,
         \/ UNCHANGED transactions
         \/ \E t : transactions' = Append(transactions, t)
  PROVE  CarriesOut(j)'
<1>1. PICK S : transactions \in Seq(S)
      BY DEF Inv, Shape
<1>2. records[j].transaction \in 1..Len(transactions)
      BY <1>1 DEF Inv, TypeOK
<1>3. transactions'[records[j].transaction] = transactions[records[j].transaction]
      BY <1>1, <1>2
<1>4. message[j].from \in Sender
      BY FromSender DEF Inv
<1> QED BY <1>3, <1>4 DEF CarriesOut, KeysGrow

LEMMA AddedCarriesOut ==
  ASSUME Inv, CategoriesUnique, NEW i \in UpdateId, Added(i), UNCHANGED message
  PROVE  CarriesOut(i)' /\ CategoriesUnique' /\ KeysGrow
<1> DEFINE m == message[i]
           result == Result[m.text]
           n == Len(transactions)
<1>1. PICK S : transactions \in Seq(S)
      BY DEF Inv, Shape
<1>2. CategoriesUnique' /\ categories \subseteq categories'
      BY CategoryResolved DEF Added
<1>3. /\ identities'[m.from] # NoIdentity
      /\ \A s \in Sender : identities[s] # NoIdentity => identities'[s] # NoIdentity
      BY UserResolved DEF Added
<1>4. CreateTransaction(m, result.add) /\ result.kind = "Add"
      BY DEF Added
<1>5. PICK c \in categories' :
        /\ c.user = m.from /\ c.key = Upper(result.add.category)
        /\ transactions' = Append(transactions,
             [user |-> m.from, category |-> c, amount |-> result.add.amount,
              description |-> result.add.description, date |-> result.add.date])
      BY <1>4 DEF CreateTransaction
<1>6. transactions'[n + 1] =
        [user |-> m.from, category |-> c, amount |-> result.add.amount,
         description |-> result.add.description, date |-> result.add.date]
      BY <1>1, <1>5
<1>7. /\ records'[i].transaction = n + 1
      /\ records'[i].normalized = Normalized(result.add)
      BY DEF Added, UpdateIngestRecord, Inv, Shape
<1>8. CarriesOut(i)'
      BY <1>3, <1>4, <1>5, <1>6, <1>7 DEF CarriesOut
<1> QED BY <1>2, <1>3, <1>8 DEF KeysGrow

\* Every outcome but Added names no transaction.
LEMMA IngestKeepsAudit ==
  ASSUME Inv, AuditInv, NEW i \in UpdateId, Ingest(i)
  PROVE  AuditInv'
<1>1. UNCHANGED message
      BY DEF Ingest, external
<1>2. CommandReplays'
      BY <1>1 DEF AuditInv, CommandReplays
<1>3. /\ CategoriesUnique' /\ KeysGrow
      /\ \/ UNCHANGED transactions
         \/ \E t : transactions' = Append(transactions, t)
      /\ \/ UNCHANGED records
         \/ /\ \A j \in UpdateId \ {i} : records'[j] = records[j]
            /\ records'[i].transaction = 0 \/ CarriesOut(i)'
  <2> USE DEF Inv, Shape
  <2>1. CASE Duplicate(i)
        BY <2>1 DEF Duplicate, store, AuditInv, CategoriesUnique, KeysGrow
  <2>2. CASE Help(i) \/ Rejected(i)
        BY <2>2 DEF Help, Rejected, UpdateIngestRecord, AuditInv, CategoriesUnique,
           KeysGrow
  <2>3. CASE Added(i)
    <3>1. CarriesOut(i)' /\ CategoriesUnique' /\ KeysGrow
          BY <1>1, <2>3, AddedCarriesOut DEF AuditInv
    <3>2. /\ \A j \in UpdateId \ {i} : records'[j] = records[j]
          /\ \E t : transactions' = Append(transactions, t)
          BY <2>3 DEF Added, UpdateIngestRecord, CreateTransaction
    <3> QED BY <3>1, <3>2
  <2>4. CASE Failed(i)
    <3>1. /\ \A j \in UpdateId \ {i} : records'[j] = records[j]
          /\ records'[i].transaction = 0 /\ UNCHANGED transactions
          BY <2>4 DEF Failed, UpdateIngestRecord
    <3>2. \/ UNCHANGED identities
          \/ ResolveOrCreateUser(message[i])
          BY <2>4 DEF Failed
    <3>3. \/ UNCHANGED categories
          \/ \E name : ResolveOrCreateCategory(message[i].from, name)
          BY <2>4 DEF Failed
    <3>4. CategoriesUnique' /\ categories \subseteq categories'
          BY <3>3, CategoryResolved DEF AuditInv, CategoriesUnique
    <3>5. \A s \in Sender : identities[s] # NoIdentity => identities'[s] # NoIdentity
          BY <3>2, UserResolved
    <3> QED BY <3>1, <3>4, <3>5 DEF KeysGrow
  <2>5. Duplicate(i) \/ Help(i) \/ Rejected(i) \/ Added(i) \/ Failed(i)
        BY DEF Ingest, IngestAsync
  <2> QED BY <2>1, <2>2, <2>3, <2>4, <2>5
<1>4. ASSUME NEW j \in UpdateId, records'[j].transaction # 0
      PROVE  CarriesOut(j)'
  <2>1. CASE records'[j] = records[j]
    <3>1. records[j].transaction # 0 /\ CarriesOut(j)
          BY <1>4, <2>1 DEF AuditInv
    <3> QED BY <1>1, <1>3, <2>1, <3>1, CarriesOutStays
  <2>2. CASE records'[j] # records[j]
        BY <1>3, <1>4, <2>2
  <2> QED BY <2>1, <2>2
<1> QED BY <1>2, <1>3, <1>4 DEF AuditInv

LEMMA QuietKeepsAudit ==
  ASSUME AuditInv, UNCHANGED <<message, store>>
  PROVE  AuditInv'
BY DEF AuditInv, CategoriesUnique, CommandReplays, CarriesOut, store

LEMMA AuditInvReplays ==
  ASSUME Inv, AuditInv
  PROVE  AuditReplays
<1> SUFFICES ASSUME NEW i \in UpdateId, records[i].transaction # 0
             PROVE  LET t == transactions[records[i].transaction] IN
                    /\ Recorded(i).kind = "Add"
                    /\ Recorded(i) = Parse(message[i].text)
                    /\ [amount |-> t.amount, description |-> t.description,
                        date |-> t.date] =
                         [amount |-> Recorded(i).add.amount,
                          description |-> Recorded(i).add.description,
                          date |-> Recorded(i).add.date]
                    /\ Matching(t.user, Recorded(i).add.category) = {t.category}
                    /\ identities[t.user] # NoIdentity
    BY DEF AuditReplays
<1> DEFINE result == Result[message[i].text]
           t == transactions[records[i].transaction]
<1>1. CarriesOut(i)
      BY DEF AuditInv
<1>2. result = Parse(message[i].text)
      BY DEF Result, Inv, TypeOK
<1>3. Recorded(i) = result
  <2>1. Parse(Normalized(result.add)) = result
        BY <1>1 DEF AuditInv, CommandReplays, CarriesOut
  <2> QED BY <1>1, <2>1 DEF Recorded, CarriesOut
<1>4. Matching(t.user, result.add.category) = {t.category}
      BY <1>1 DEF CarriesOut, Matching, AuditInv, CategoriesUnique
<1> QED BY <1>1, <1>2, <1>3, <1>4 DEF CarriesOut

\* Whatever the messages are, the parser reads the normalised command of each
\* back as the same command.
THEOREM CommandReplaysHolds == Spec => []CommandReplays
<1>1. ASSUME TypeOK
      PROVE  CommandReplays
  <2> SUFFICES ASSUME NEW i \in UpdateId, Result[message[i].text].kind = "Add"
               PROVE  Parse(Normalized(Result[message[i].text].add)) =
                        Result[message[i].text]
      BY DEF CommandReplays
  <2>1. message[i].text \in Seq(STRING)
        BY <1>1, InboxAssumption DEF TypeOK, Message
  <2>2. Result[message[i].text] = Parse(message[i].text)
        BY <1>1 DEF Result, TypeOK
  <2> QED BY <2>1, <2>2, ParsesBack
<1> QED BY <1>1, TypeCorrect, PTL

\* Every transaction can be read off its audit record, whatever the message said
\* and whatever is delivered again, late or after a failure.
THEOREM AuditReplaysHolds == Spec => []AuditReplays
<1>1. Init /\ CommandReplays => AuditInv
      BY DEF Init, NoRecord, AuditInv, CategoriesUnique
<1>2. ASSUME Inv, AuditInv, [Next]_vars
      PROVE  AuditInv'
  <2>1. CASE UNCHANGED <<message, store>>
        BY <1>2, <2>1, QuietKeepsAudit
  <2> QED BY <1>2, <2>1, IngestKeepsAudit DEF Next, Deliver, Poll, Stop, vars, external
<1>3. Inv /\ AuditInv /\ [Next]_vars => AuditInv'
      BY <1>2
<1>4. Inv /\ AuditInv => AuditReplays
      BY AuditInvReplays
<1> QED BY <1>1, <1>3, <1>4, InvHolds, CommandReplaysHolds, PTL DEF Spec

-----------------------------------------------------------------------------
(* The limits of what is stored                                            *)

WithinLimits(add) ==
  /\ Len(add.description) \in 1..MaxDescription
  /\ Len(add.category) \in 1..MaxCategory

\* Whatever the text, a command that is parsed has passed every check.
LEMMA ParsedWithinLimits ==
  ASSUME NEW text, Parse(text).kind = "Add"
  PROVE  WithinLimits(Parse(text).add)
<1> DEFINE tokens == Scan(text).tokens
           add == AddCommand(tokens)
           args == Remainder(SubSeq(tokens, 4, Len(tokens)))
           description == NormalizeWhitespace(tokens[3])
           category == NormalizeWhitespace(args.category[1])
<1>1. Parse(text) = [kind |-> "Add", add |-> add] /\ AddError(tokens) = NoError
      BY DEF Parse, Reject
<1>2. /\ DescriptionError(tokens[3]) = NoError
      /\ args.category # <<>> => CategoryError(args.category[1]) = NoError
      BY <1>1 DEF AddError, NoError
<1>3. Len(add.description) \in 1..MaxDescription
  <2>1. Len(description) \in 1..MaxDescription
        BY <1>2 DEF DescriptionError, NoError
  <2> QED BY <2>1 DEF AddCommand
<1>4. Len(add.category) \in 1..MaxCategory
  <2>1. CASE args.category = <<>>
        BY <2>1, LimitAssumption DEF AddCommand, DefaultCategory
  <2>2. CASE args.category # <<>>
    <3>1. Len(category) \in 1..MaxCategory
          BY <1>2, <2>2 DEF CategoryError, NoError
    <3> QED BY <2>2, <3>1 DEF AddCommand
  <2> QED BY <2>1, <2>2
<1> QED BY <1>1, <1>3, <1>4 DEF WithinLimits

LEMMA CategoryWithinLimits ==
  ASSUME NEW user, NEW name, Len(name) \in 1..MaxCategory,
         \A c \in categories : Len(c.name) \in 1..MaxCategory,
         ResolveOrCreateCategory(user, name)
  PROVE  \A c \in categories' : Len(c.name) \in 1..MaxCategory
<1>1. CASE categories' = categories
      BY <1>1
<1>2. CASE categories' = categories \union
             {[user |-> user, key |-> Upper(name), name |-> name]}
      BY <1>2
<1> QED BY <1>1, <1>2 DEF ResolveOrCreateCategory

LEMMA IngestKeepsLimits ==
  ASSUME Inv, StoredWithinLimits, NEW i \in UpdateId, Ingest(i)
  PROVE  StoredWithinLimits'
<1> DEFINE result == Result[message[i].text]
<1>1. result.kind = "Add" => WithinLimits(result.add)
  <2>1. result = Parse(message[i].text)
        BY DEF Result, Inv, TypeOK
  <2> QED BY <2>1, ParsedWithinLimits
<1>2. \/ UNCHANGED categories
      \/ /\ result.kind = "Add"
         /\ ResolveOrCreateCategory(message[i].from, result.add.category)
      BY DEF Ingest, IngestAsync, Duplicate, store, Help, Rejected, Added, Failed
<1>3. \A c \in categories' : Len(c.name) \in 1..MaxCategory
      BY <1>1, <1>2, CategoryWithinLimits DEF StoredWithinLimits, WithinLimits
<1>4. \/ UNCHANGED transactions
      \/ /\ result.kind = "Add"
         /\ CreateTransaction(message[i], result.add)
      BY DEF Ingest, IngestAsync, Duplicate, store, Help, Rejected, Added, Failed
<1>5. CASE UNCHANGED transactions
      BY <1>3, <1>5 DEF StoredWithinLimits
<1>6. CASE result.kind = "Add" /\ CreateTransaction(message[i], result.add)
  <2>1. PICK S : transactions \in Seq(S)
        BY DEF Inv, Shape
  <2>2. PICK t : /\ transactions' = Append(transactions, t)
                 /\ t.description = result.add.description
        BY <1>6 DEF CreateTransaction
  <2>3. \A k \in DOMAIN transactions' :
          transactions'[k] = t \/ (k \in DOMAIN transactions
                                   /\ transactions'[k] = transactions[k])
        BY <2>1, <2>2
  <2> QED BY <1>1, <1>3, <1>6, <2>2, <2>3 DEF StoredWithinLimits, WithinLimits
<1> QED BY <1>4, <1>5, <1>6

\* No message, however it is quoted or spaced, gets a description or a category
\* stored whose length the contract excludes.
THEOREM LimitsHold == Spec => []StoredWithinLimits
<1>1. Init => StoredWithinLimits
      BY DEF Init, StoredWithinLimits
<1>2. ASSUME Inv, StoredWithinLimits, [Next]_vars
      PROVE  StoredWithinLimits'
  <2>1. CASE UNCHANGED store
        BY <1>2, <2>1 DEF store, StoredWithinLimits
  <2> QED BY <1>2, <2>1, IngestKeepsLimits DEF Next, Deliver, Poll, Stop, vars
<1>3. Inv /\ StoredWithinLimits /\ [Next]_vars => StoredWithinLimits'
      BY <1>2
<1> QED BY <1>1, <1>3, InvHolds, PTL DEF Spec
=============================================================================
