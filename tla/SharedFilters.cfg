\* Two manifests of one namespace, one deleted.
SPECIFICATION Spec
CONSTANTS
  DnsLabels = {"risk", "pay", "deny"}
  Hostnames = {"risk.com", "pay.com", "mock.sys"}
  SystemNamespace = "sys"
  DefaultMicrocksHostPort <- MCDefaultMicrocks
  Operators = {"op1"}
  Manifests <- NeighbourManifests
  Specs <- TeachingSpec
  NoSpec = NoSpec
  ProdLabels = {FALSE}
  Environments = {"dev"}
  Hooks = {FALSE}
  Foreign = {}
  Budget <- UsersBudget
INVARIANTS
  ReadyAtRest
CHECK_DEADLOCK FALSE
