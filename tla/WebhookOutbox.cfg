SPECIFICATION FairSpec
CONSTANTS
  n1 = n1
  s1 = s1
  s2 = s2
  Notifications <- MCNotifications
  Senders <- MCSenders
  Keys = {"k", "l", "m"}
  NoKey = NoKey
  MaxTries = 3
INVARIANTS
  OnePending
  OpenIsScheduled
  EndedIsQuiet
  BudgetAccounts
PROPERTIES
  
  DeliverySpec
  OutboxDrains
CHECK_DEADLOCK FALSE
