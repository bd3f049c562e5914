SPECIFICATION Spec
CONSTANTS
  r1 = r1
  r2 = r2
  a = a
  b = b
  Main = Main
  Watcher = Watcher
  Nobody = Nobody
  NoScript = NoScript
  Torn = Torn
  Off = Off
  Unknown = Unknown
  NoBody = NoBody
  Requests <- TwoRequests
  RuleSets <- TwoSets
  MaxChanges = 1
  Mode = "bash"
  Faults = {"crash", "geo_fails", "docker_down"}
SYMMETRY Symmetry
INVARIANTS
  TypeOK
  AppliedIsCurrent
  GeoReady
  
