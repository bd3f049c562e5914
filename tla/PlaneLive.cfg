SPECIFICATION FairSpec
CONSTANTS
  r1 = r1
  r2 = r2
  a = a
  b = b
  Main = Main
  Watcher = Watcher
  Nobody = Nobody
  NoScript = NoScript
  Torn = Torn
  Off = Off
  Unknown = Unknown
  NoBody = NoBody
  Requests <- TwoRequests
  RuleSets <- OneSet
  MaxChanges = 3
  Mode = "bash"
  Faults = {"stream_ends", "write_fails"}
CONSTRAINT RequestsFirst
PROPERTIES WatcherSettles Answered
