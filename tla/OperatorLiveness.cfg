\* The loop under fairness, on specs that are valid, rejected for one reason and for
\* several, a fault and a kind that is not served for a while included.
SPECIFICATION FairSpec
ACTION_CONSTRAINT Settling
CONSTANTS
  DnsLabels = {"risk", "pay", "deny"}
  Hostnames = {"risk.com", "pay.com", "mock.sys"}
  SystemNamespace = "sys"
  DefaultMicrocksHostPort <- MCDefaultMicrocks
  Operators = {"op1"}
  Manifests <- OneManifest
  Specs <- LivenessSpecs
  NoSpec = NoSpec
  ProdLabels = {FALSE}
  Environments = {"dev"}
  Hooks = {FALSE, TRUE}
  Foreign = {}
  Budget <- LivenessBudget
PROPERTIES
  DeletionCompletes ComesToRest NamespaceCleaned
CHECK_DEADLOCK FALSE
