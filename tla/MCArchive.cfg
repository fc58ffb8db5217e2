SPECIFICATION FairSpec
CONSTANTS
  s1 = s1
  s2 = s2
  Session = {s1}
  NoSession = NoSession
  Uploader = {"tick", "force"}
  Deleter = {"cleaner", "admin"}
  Attempts = 2
  Rolling = 1
  Buffer = 1
  Grace = 2
  Retention = 2
  Overdue = 3
  MaxRequests = 1
  MaxFaults = 1
INVARIANTS
  TypeOK
  FootageIsKept
  ScheduledArchivesAreWhole
PROPERTIES
  FinishedSessionsSettle
  RecordingsLeaveTheDisk
CHECK_DEADLOCK FALSE
