SPECIFICATION Spec
CONSTANTS
  inbound  = inbound
  outbound = outbound
  broken   = broken
  console  = console
  NoScript = NoScript
  Torn     = Torn
  NoChain  = NoChain
  RuleSets <- WithBroken
  Outbound <- OutboundOnly
  Rejected <- BrokenRefused
  Shells   <- OneShell
  Mode     = "bash"
  Faults   = {"killed", "timeout", "reboot", "enable_fails"}
INVARIANTS
  TypeOK
  NoLockout
  
  AppliedIsComplete
  FailedApplyIsOff
  EnabledHasUnit
  
CONSTRAINT NoRace
CHECK_DEADLOCK FALSE
