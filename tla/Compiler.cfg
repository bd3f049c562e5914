SPECIFICATION Spec
CONSTANTS
  V4 <- Addresses4
  V6 <- Addresses6
  MaxRules = 11
  MaxPortsPerRule = 3
  MaxV6DropPorts = 1
  MaxRuleCountries = 2
  LastMinute = 2
  Loopback4 <- Loopback
  Unroutable6 <- LinkLocal
  GeoNet <- Nets
  ExtraBypass <- Vpn
  MaxMultiport = 2
  MaxHits = 3
  Posted <- Sent
  Catalogue = {"jellyfin", "homeAssistant", "adguard", "vnc", "nfs"}
  Tiers <- Files
  Detected <- Detections
  Inventories <- Running
  MaxCountries = 2
  MaxPosts = 2
  Probes <- Tried
INVARIANTS   RestoreMatchesBash
PROPERTIES SeedKeepsAppsUp TemplatesOnlyOpen
