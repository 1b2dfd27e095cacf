\* One operator, one manifest: faults, a crash, stale caches.
SPECIFICATION MetricsSpec
CONSTANTS
  DnsLabels = {"risk", "pay", "deny"}
  Hostnames = {"risk.com", "pay.com", "mock.sys"}
  SystemNamespace = "sys"
  DefaultMicrocksHostPort <- MCDefaultMicrocks
  Operators = {"op1"}
  Manifests <- OneManifest
  Specs <- CoreSpecs
  NoSpec = NoSpec
  ProdLabels = {FALSE}
  Environments = {"dev"}
  Hooks = {FALSE}
  Foreign = {}
  Budget <- CoreBudget
INVARIANTS
  TypeOK OrphanInvariant NoOrphans RestIsTruthful RoutesAreSupported
  GaugeTrue ResultTrue
PROPERTIES
  SweepsDeletedOnly ErrorWrittenOnce
CHECK_DEADLOCK FALSE
