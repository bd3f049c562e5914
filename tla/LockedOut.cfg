SPECIFICATION Spec
CONSTANTS
  inbound  = inbound
  outbound = outbound
  broken   = broken
  console  = console
  NoScript = NoScript
  Torn     = Torn
  NoChain  = NoChain
  RuleSets <- JustInbound
  Outbound <- None
  Rejected <- InboundRefused
  Shells   <- None
  Mode     = "bash"
  Faults   = {}
INVARIANT NeverLockedOut
