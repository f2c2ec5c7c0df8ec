SPECIFICATION FairSpec
CONSTANTS
  anna = anna
  ben = ben
  chat1 = chat1
  UpdateId = {1, 2}
  Sender = {anna, ben}
  Chat = {chat1}
  Inbox <- MCInbox
  MaxDescription = 3
  MaxCategory = 2
  MaxDeliveries = 3
  MaxFaults = 1
  TailCap = 3
INVARIANTS
  TypeOK
  OneEffect
  StoredWithinLimits
  CommandReplays
  AuditReplays
PROPERTIES
  FirstOutcomeStays
  LostIsOvertaken
  OnlyOvertakenIsLost
CHECK_DEADLOCK FALSE
