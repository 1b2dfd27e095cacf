\* A manifest deleted when its operator runs as production.
SPECIFICATION FairSpec
CONSTANTS
  DnsLabels = {"risk", "pay", "deny"}
  Hostnames = {"risk.com", "pay.com", "mock.sys"}
  SystemNamespace = "sys"
  DefaultMicrocksHostPort <- MCDefaultMicrocks
  Operators = {"op1"}
  Manifests <- OneManifest
  Specs <- TeachingSpec
  NoSpec = NoSpec
  ProdLabels = {FALSE}
  Environments = {"dev", "prod"}
  Hooks = {FALSE}
  Foreign = {}
  Budget <- RestartBudget
PROPERTIES
  DeletionCompletes
CHECK_DEADLOCK FALSE
