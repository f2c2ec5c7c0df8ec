--------------------------- MODULE TelegramIngest ---------------------------
(***************************************************************************)
(* The Telegram worker: it polls updates, parses each, and keeps an audit  *)
(* record, the users, the categories and the transactions.  Telegram may   *)
(* deliver an update again, or after younger ones; the worker may be       *)
(* stopped between two updates.                                            *)
(*                                                                         *)
(* A poll empties the queue and the worker sorts what it got, so queue and *)
(* batch only say how often they hold an update.  IngestAsync awaits       *)
(* nothing and the worker is its only caller: it is one step.              *)
(***************************************************************************)
EXTENDS TelegramParser

CONSTANTS UpdateId,
          Sender,
          Chat,
          Inbox,          \* what Telegram may hold under each update id
          MaxDeliveries,  \* bound on the deliveries
          MaxFaults       \* bound on the exceptions

NoChat == "null"
Message == [text : Seq(STRING), from : Sender, chat : Chat \union {NoChat}]

NoIdentity == "none"

ASSUME ChatAssumption == NoIdentity \notin Chat
ASSUME UpdateIdAssumption == UpdateId \subseteq Nat \ {0}
ASSUME InboxAssumption == Inbox \subseteq [UpdateId -> Message]
ASSUME BoundAssumption == MaxDeliveries \in Nat /\ MaxFaults \in Nat

\* What the parser makes of each text Telegram may hold.
Result == [t \in {m[i].text : m \in Inbox, i \in UpdateId} |-> Parse(t)]

VARIABLES message,        \* the messages the users have sent
          deliveries,
          queue, batch,   \* copies of each update still to poll, to ingest
          lastSeen,       \* 0 before the first update
          stopped,
          faults,
          records,        \* IngestedMessageRecord of each update
          identities,     \* the chat of each known sender
          categories,
          transactions

external == <<message, deliveries>>
worker == <<queue, batch, lastSeen, stopped>>
store == <<records, identities, categories, transactions>>
vars == <<external, worker, faults, store>>

NoRecord == [status |-> "None", error |-> NoError, normalized |-> <<>>, transaction |-> 0]

TypeOK ==
  /\ message \in Inbox
  /\ deliveries \in 0..MaxDeliveries
  /\ queue \in [UpdateId -> 0..MaxDeliveries]
  /\ batch \in [UpdateId -> 0..MaxDeliveries]
  /\ lastSeen \in UpdateId \union {0}
  /\ stopped \in BOOLEAN
  /\ faults \in 0..MaxFaults
  /\ \A i \in UpdateId :
       /\ records[i].status \in {"None", "Parsed", "Rejected", "Failed"}
       /\ records[i].transaction \in 0..Len(transactions)
  /\ identities \in [Sender -> Chat \union {NoChat, NoIdentity}]
  /\ \A c \in categories : c.user \in Sender /\ c.key = Upper(c.name)
  /\ \A k \in DOMAIN transactions : transactions[k].user \in Sender

Init ==
  /\ message \in Inbox
  /\ deliveries = 0
  /\ queue = [i \in UpdateId |-> 0]
  /\ batch = [i \in UpdateId |-> 0]
  /\ lastSeen = 0
  /\ stopped = FALSE
  /\ faults = 0
  /\ records = [i \in UpdateId |-> NoRecord]
  /\ identities = [s \in Sender |-> NoIdentity]
  /\ categories = {}
  /\ transactions = <<>>

-----------------------------------------------------------------------------
(* The store                                                               *)

\* Variant: no update is ever taken for a duplicate.
NothingIngested(i) == FALSE

\* Variant: only what was parsed counts as ingested.
HasParsedUpdate(i) == records[i].status = "Parsed"

HasIngestedUpdate(i) == records[i] # NoRecord

\* A new sender becomes a user; a chat that is known replaces the one on record.
ResolveOrCreateUser(m) ==
  identities' = [identities EXCEPT ![m.from] =
    IF @ = NoIdentity \/ m.chat # NoChat THEN m.chat ELSE @]

Matching(user, name) ==
  {c \in categories : c.user = user /\ c.key = Upper(name)}

\* Variant: a category is created whenever no category has exactly its name.
CreateCategoryByName(user, name) ==
  categories' = categories \union {[user |-> user, key |-> Upper(name), name |-> name]}

\* A category is found by its name in upper case.
ResolveOrCreateCategory(user, name) ==
  categories' =
    IF Matching(user, name) # {} THEN categories
    ELSE categories \union {[user |-> user, key |-> Upper(name), name |-> name]}

\* Variant: the transaction gets its id and is not added.
CreateTransactionLost(m, add) == UNCHANGED transactions

\* A transaction's id is its place in the list.
CreateTransaction(m, add) ==
  \E c \in categories' :
    /\ c.user = m.from /\ c.key = Upper(add.category)
    /\ transactions' = Append(transactions,
         [user |-> m.from, category |-> c, amount |-> add.amount,
          description |-> add.description, date |-> add.date])

UpdateIngestRecord(i, status, error, normalized, transaction) ==
  records' = [records EXCEPT ![i] =
    [status |-> status, error |-> error,
     normalized |-> normalized, transaction |-> transaction]]

-----------------------------------------------------------------------------
(* IngestAsync, after the record has been added                            *)

Help(i) ==
  /\ Result[message[i].text].kind = "Help"
  /\ UpdateIngestRecord(i, "Parsed", NoError, <<"/help">>, 0)
  /\ UNCHANGED <<faults, identities, categories, transactions>>

Rejected(i) ==
  LET result == Result[message[i].text] IN
  /\ result.kind = "Reject"
  /\ UpdateIngestRecord(i, "Rejected", result.error, <<>>, 0)
  /\ UNCHANGED <<faults, identities, categories, transactions>>

Added(i) ==
  LET result == Result[message[i].text] IN
  /\ result.kind = "Add"
  /\ ResolveOrCreateUser(message[i])
  /\ ResolveOrCreateCategory(message[i].from, result.add.category)
  /\ CreateTransaction(message[i], result.add)
  /\ UpdateIngestRecord(i, "Parsed", NoError, Normalized(result.add),
                        Len(transactions) + 1)
  /\ UNCHANGED faults

\* An exception before the transaction is created: the user and the category
\* that were resolved until then stay.
Failed(i) ==
  LET result == Result[message[i].text] IN
  /\ faults < MaxFaults
  /\ faults' = faults + 1
  /\ UpdateIngestRecord(i, "Failed", "ERR_INTERNAL", <<>>, 0)
  /\ \/ UNCHANGED <<identities, categories>>
     \/ /\ result.kind = "Add"
        /\ ResolveOrCreateUser(message[i])
        /\ \/ UNCHANGED categories
           \/ ResolveOrCreateCategory(message[i].from, result.add.category)
  /\ UNCHANGED transactions

Duplicate(i) == HasIngestedUpdate(i) /\ UNCHANGED <<faults, store>>

IngestAsync(i) ==
  \/ Duplicate(i)
  \/ ~HasIngestedUpdate(i) /\ (Help(i) \/ Rejected(i) \/ Added(i) \/ Failed(i))

-----------------------------------------------------------------------------
(* The worker                                                              *)

\* Telegram delivers an update, for the first time or again.
Deliver(i) ==
  /\ deliveries < MaxDeliveries
  /\ deliveries' = deliveries + 1
  /\ queue' = [queue EXCEPT ![i] = @ + 1]
  /\ UNCHANGED <<message, batch, lastSeen, stopped, faults, store>>

\* Variant: the offset is off by one.
YoungerByTwo(i) == i > lastSeen + 1

Younger(i) == i > lastSeen

\* GetUpdatesAsync: what is not younger than the last update seen is dropped.
Poll ==
  /\ ~stopped
  /\ \A i \in UpdateId : batch[i] = 0
  /\ queue' = [i \in UpdateId |-> 0]
  /\ batch' = [i \in UpdateId |-> IF Younger(i) THEN queue[i] ELSE 0]
  /\ UNCHANGED <<external, lastSeen, stopped, faults, store>>

\* OrderBy: the oldest update of the batch is next.
First(i) == batch[i] > 0 /\ \A j \in UpdateId : batch[j] > 0 => i <= j

Ingest(i) ==
  /\ ~stopped
  /\ First(i)
  /\ IngestAsync(i)
  /\ batch' = [batch EXCEPT ![i] = @ - 1]
  /\ lastSeen' = IF lastSeen < i THEN i ELSE lastSeen
  /\ UNCHANGED <<external, queue, stopped>>

\* stoppingToken: the worker ends, between two updates at the latest.
Stop ==
  /\ stopped' = TRUE
  /\ UNCHANGED <<external, queue, batch, lastSeen, faults, store>>

Next ==
  \/ \E i \in UpdateId : Deliver(i)
  \/ Poll
  \/ \E i \in UpdateId : Ingest(i)
  \/ Stop

Spec == Init /\ [][Next]_vars

FairSpec == Spec /\ WF_vars(Poll) /\ WF_vars(\E i \in UpdateId : Ingest(i))

-----------------------------------------------------------------------------
(* Properties                                                              *)

\* The command a record says was carried out.
Recorded(i) == Parse(records[i].normalized)

\* An update has one effect, however often it is delivered: the transaction its
\* record names, which no other record names, and none without that record.
OneEffect ==
  /\ \A k \in DOMAIN transactions : \E i \in UpdateId : records[i].transaction = k
  /\ \A i, j \in UpdateId :
       records[i].transaction = records[j].transaction /\ i # j =>
         records[i].transaction = 0
  /\ \A i \in UpdateId :
       records[i].transaction # 0 =>
         transactions[records[i].transaction].user = message[i].from

\* Whatever a message contains, and however it is quoted and spaced, a stored
\* description and category keep the lengths of the contract
\* (telegram-message-contract.md, validation rules), and a category that a failed
\* update leaves behind does, too.
StoredWithinLimits ==
  /\ \A k \in DOMAIN transactions :
       Len(transactions[k].description) \in 1..MaxDescription
  /\ \A c \in categories : Len(c.name) \in 1..MaxCategory

\* NormalizedCommand says what the message says: parsed again it is the command
\* the message was parsed to.
CommandReplays ==
  \A i \in UpdateId :
    LET result == Result[message[i].text] IN
    result.kind = "Add" => Parse(Normalized(result.add)) = result

\* The transaction can be read off the audit record: NormalizedCommand, parsed
\* again, gives its amount, description and date, whatever white space, quotes
\* and defaults the message had, and its category is the only one the sender has
\* of that name in any case.
AuditReplays ==
  \A i \in UpdateId :
    records[i].transaction # 0 =>
      LET t == transactions[records[i].transaction] IN
      /\ Recorded(i).kind = "Add"
      /\ Recorded(i) = Parse(message[i].text)
      /\ [amount |-> t.amount, description |-> t.description, date |-> t.date] =
           [amount |-> Recorded(i).add.amount,
            description |-> Recorded(i).add.description,
            date |-> Recorded(i).add.date]
      /\ Matching(t.user, Recorded(i).add.category) = {t.category}
      /\ identities[t.user] # NoIdentity

\* The first outcome of an update, a failure included, is never revised
\* (telegram-message-contract.md, idempotency rule).
FirstOutcomeStays ==
  [][\A i \in UpdateId : records[i] # NoRecord => records'[i] = records[i]]_vars

\* A poll empties the queue, and what it does not hand on is gone: the last copy of
\* an update is dropped only if the update, or a younger one, has its record.
LostIsOvertaken ==
  [][\A i \in UpdateId :
       queue[i] + batch[i] > 0 /\ queue'[i] + batch'[i] = 0 =>
         \E j \in UpdateId : j >= i /\ records'[j] # NoRecord]_vars

\* Only an update that is overtaken by a younger one can be lost: any other gets
\* its record, if the worker is not stopped.
OnlyOvertakenIsLost ==
  \A i \in UpdateId :
    /\ batch[i] > 0 ~> records[i] # NoRecord \/ stopped
    /\ queue[i] > 0 ~> records[i] # NoRecord \/ stopped \/ lastSeen > i
=============================================================================
