SPECIFICATION FairSpec
CONSTANTS
  inbound  = inbound
  outbound = outbound
  broken   = broken
  console  = console
  NoScript = NoScript
  Torn     = Torn
  NoChain  = NoChain
  RuleSets <- WithOutbound
  Outbound <- OutboundOnly
  Rejected <- NothingRefused
  Shells   <- None
  Mode     = "bash"
  Faults   = {"slow_script", "timeout"}
INVARIANTS
  KeptIsSpared
PROPERTIES
  DeadmanRecovers
  TrialResolves
CHECK_DEADLOCK FALSE
