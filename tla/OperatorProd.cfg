\* Restarts between development and production.
SPECIFICATION Spec
CONSTANTS
  DnsLabels = {"risk", "pay", "deny"}
  Hostnames = {"risk.com", "pay.com", "mock.sys"}
  SystemNamespace = "sys"
  DefaultMicrocksHostPort <- MCDefaultMicrocks
  Operators = {"op1"}
  Manifests <- OneManifest
  Specs <- MicrocksSpec
  NoSpec = NoSpec
  ProdLabels = {FALSE, TRUE}
  Environments = {"dev", "prod"}
  Hooks = {FALSE}
  Foreign = {}
  Budget <- RestartBudget
INVARIANTS
  RestIsTruthful NoOrphans
PROPERTIES
  ErrorWrittenOnce
CHECK_DEADLOCK FALSE
