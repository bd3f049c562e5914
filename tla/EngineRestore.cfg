SPECIFICATION FairSpec
CONSTANTS
  inbound  = inbound
  outbound = outbound
  broken   = broken
  console  = console
  NoScript = NoScript
  Torn     = Torn
  NoChain  = NoChain
  RuleSets <- WithBroken
  Outbound <- OutboundOnly
  Rejected <- BrokenRefused
  Shells   <- None
  Mode     = "restore"
  Faults   = {"killed", "timeout", "reboot"}
INVARIANT AppliedIsComplete
PROPERTIES
  
  ImplementsSafeApply
CONSTRAINT NoRace
CHECK_DEADLOCK FALSE
